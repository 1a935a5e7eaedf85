--------------------------- MODULE SocialProofs ---------------------------
(***************************************************************************)
(* Proofs about four small components that share no state.                 *)
(*                                                                         *)
(* Follows, for any actors and any number of requests: FollowInv is        *)
(* inductive.  An alone request has no companion, and so its projection    *)
(* step agrees with the row it left; and a projection that differs from    *)
(* the row is either estranged or about to be written by a request that is *)
(* at its Redis command.                                                   *)
(*                                                                         *)
(* Likes, for any accounts, threads and bound on the faults: LikesInv is   *)
(* inductive.  Only the holder of the row lock is past it, its step fits   *)
(* the set and the counter it was chosen for, and the counter with the     *)
(* step of a holder at its commit is as close to the set as the counter    *)
(* alone is at rest.                                                       *)
(*                                                                         *)
(* BlogFeed, for any publishers, keys, recipients and workers and any      *)
(* length of a page: BlogInv is inductive.  A draft has an id and a key of *)
(* its own, a receipt and its post name each other, and what a worker is   *)
(* about to delete from the outbox is in the feed.                         *)
(*                                                                         *)
(* FeedPages, for any feed, scores and length of a page: FeedPagesInv is   *)
(* inductive.  The rank of a post is the number of posts listed before it; *)
(* a page is a range of ranks, and the next cursor names the rank at which *)
(* it ended, counted from the first post of the last score.                *)
(***************************************************************************)
EXTENDS Follows, Likes, BlogFeed, FeedPages, FiniteSetTheorems, SequenceTheorems, TLAPS

AloneIsAlone ==
    \A r, q \in Requests :
        r # q /\ Busy(r) /\ Busy(q) /\ command[r].alone => command[q].actor # command[r].actor

\* Between its statement and its Redis command an alone request owns the row.
AloneKnowsTheRow ==
    \A r \in Requests : command[r].alone =>
        /\ command[r].at = "add" => row[command[r].actor]
        /\ command[r].at = "remove" => ~row[command[r].actor]

Projecting(a) == \E r \in Requests : command[r].at \in {"add", "remove"} /\ command[r].actor = a

DifferenceIsCarried ==
    \A a \in Actors \ estranged : (member[a] <=> row[a]) \/ Projecting(a)

FollowInv == FollowTypeOK /\ AloneIsAlone /\ AloneKnowsTheRow /\ DifferenceIsCarried

LEMMA NoCommandType ==
    NoCommand \in [at : {"idle", "exists", "create", "add", "delete", "remove"},
                   actor : Actors, alone : BOOLEAN]
BY FollowsAssumption DEF NoCommand

LEMMA FollowInitInv == FollowInit => FollowInv
<1> SUFFICES ASSUME FollowInit PROVE FollowInv
    OBVIOUS
<1>1. FollowTypeOK
    BY NoCommandType DEF FollowInit, FollowTypeOK
<1>2. \A r \in Requests : command[r].at = "idle"
    BY DEF FollowInit, NoCommand
<1>3. \A a \in Actors : member[a] = row[a]
    BY DEF FollowInit
<1> QED
    BY <1>1, <1>2, <1>3
    DEF FollowInv, AloneIsAlone, AloneKnowsTheRow, DifferenceIsCarried, Busy
-----------------------------------------------------------------------------
\* The step of a request r keeps what concerns the other requests.
Stays(r) == \A q \in Requests \ {r} : command'[q] = command[q]

LEMMA EnterKeeps ==
    ASSUME FollowInv, NEW r \in Requests, NEW a \in Actors,
           NEW where \in {"exists", "delete"}, Enter(r, a, where)
    PROVE  FollowInv'
<1> USE DEF Enter, Busy, Companions
<1>1. FollowTypeOK'
    BY DEF FollowInv, FollowTypeOK
<1>2. AloneIsAlone'
    <2> SUFFICES ASSUME NEW p \in Requests, NEW q \in Requests, p # q,
                        Busy(p)', Busy(q)', command'[p].alone
                 PROVE  command'[q].actor # command'[p].actor
        BY DEF AloneIsAlone
    <2>1. CASE p = r
        BY <2>1 DEF FollowInv, FollowTypeOK
    <2>2. CASE q = r
        BY <2>2 DEF FollowInv, FollowTypeOK
    <2>3. CASE p # r /\ q # r
        BY <2>3 DEF FollowInv, FollowTypeOK, AloneIsAlone
    <2> QED BY <2>1, <2>2, <2>3
<1>3. AloneKnowsTheRow'
    BY DEF FollowInv, FollowTypeOK, AloneKnowsTheRow
<1>4. DifferenceIsCarried'
    BY DEF FollowInv, FollowTypeOK, DifferenceIsCarried, Projecting
<1> QED BY <1>1, <1>2, <1>3, <1>4 DEF FollowInv

\* No step but an entry makes a request of its actor alone or busy anew.
LEMMA OthersStayAlone ==
    ASSUME FollowInv, NEW r \in Requests, Stays(r),
           command'[r].at = "idle" \/ (/\ Busy(r) /\ command'[r].actor = command[r].actor
                                       /\ command'[r].alone = command[r].alone)
    PROVE  AloneIsAlone'
BY DEF FollowInv, AloneIsAlone, Stays, Busy

\* A request that changes the row of its actor leaves the row of the others'
\* actors alone, and no other request of its actor is alone.
LEMMA OthersKnowTheRow ==
    ASSUME FollowInv, NEW r \in Requests, Stays(r), Busy(r),
           \A a \in Actors : a # command[r].actor => row'[a] = row[a],
           command'[r].alone =>
                /\ command'[r].at = "add" => row'[command'[r].actor]
                /\ command'[r].at = "remove" => ~row'[command'[r].actor]
    PROVE  AloneKnowsTheRow'
<1> SUFFICES ASSUME NEW q \in Requests, q # r, command[q].alone
             PROVE  /\ command[q].at = "add" => row'[command[q].actor]
                    /\ command[q].at = "remove" => ~row'[command[q].actor]
    BY DEF AloneKnowsTheRow, Stays
<1>1. CASE command[q].at \in {"add", "remove"}
    <2>1. command[q].actor # command[r].actor
        BY <1>1 DEF FollowInv, AloneIsAlone, Busy
    <2> QED
        BY <2>1 DEF FollowInv, FollowTypeOK, AloneKnowsTheRow
<1> QED BY <1>1
-----------------------------------------------------------------------------
\* A SELECT, or a statement whose request goes on to its Redis command.
LEMMA StatementKeeps ==
    ASSUME FollowInv, NEW r \in Requests, Exists(r) \/ Create(r) \/ Delete(r)
    PROVE  FollowInv'
<1> USE DEF Exists, Create, Delete, DeletesRow, Goes, Leaves
<1>1. FollowTypeOK'
    <2>1. CASE Exists(r)
        BY <2>1 DEF FollowInv, FollowTypeOK
    <2>2. CASE Create(r)
        BY <2>2 DEF FollowInv, FollowTypeOK
    <2>3. CASE Delete(r)
        BY <2>3, NoCommandType DEF FollowInv, FollowTypeOK
    <2> QED BY <2>1, <2>2, <2>3
<1>2. Stays(r) /\ Busy(r)
    BY DEF FollowInv, FollowTypeOK, Stays, Busy
<1>3. command'[r].at = "idle" \/ (/\ command'[r].actor = command[r].actor
                                  /\ command'[r].alone = command[r].alone)
    BY DEF FollowInv, FollowTypeOK, NoCommand
<1>4. AloneIsAlone'
    BY <1>2, <1>3, OthersStayAlone
<1>5. \A a \in Actors : a # command[r].actor => row'[a] = row[a]
    BY DEF FollowInv, FollowTypeOK
<1>6. /\ command'[r].at = "add" => row'[command'[r].actor]
      /\ command'[r].at = "remove" => ~row'[command'[r].actor]
    BY DEF FollowInv, FollowTypeOK, NoCommand
<1>7. AloneKnowsTheRow'
    BY <1>2, <1>5, <1>6, OthersKnowTheRow
<1>8. DifferenceIsCarried'
    <2> SUFFICES ASSUME NEW a \in Actors \ estranged, ~(member[a] <=> row'[a])
                 PROVE  Projecting(a)'
        BY DEF DifferenceIsCarried
    <2>1. CASE row'[a] = row[a]
        <3>1. PICK q \in Requests : command[q].at \in {"add", "remove"} /\ command[q].actor = a
            BY <2>1 DEF FollowInv, DifferenceIsCarried, Projecting
        <3>2. q # r
            BY <3>1
        <3> QED BY <3>1, <3>2, <1>2 DEF Projecting, Stays
    <2>2. CASE row'[a] # row[a]
        <3>1. a = command[r].actor
            BY <2>2, <1>5
        <3>2. command'[r].at \in {"add", "remove"} /\ command'[r].actor = command[r].actor
            <4>1. CASE Exists(r)
                BY <4>1, <2>2
            <4>2. CASE Create(r)
                BY <4>2 DEF FollowInv, FollowTypeOK
            <4>3. CASE Delete(r)
                BY <4>3, <3>1, <2>2 DEF FollowInv, FollowTypeOK
            <4> QED BY <4>1, <4>2, <4>3
        <3> QED BY <3>1, <3>2 DEF Projecting
    <2> QED BY <2>1, <2>2
<1> QED BY <1>1, <1>4, <1>7, <1>8 DEF FollowInv

\* The end of a request: its projection is trusted only if it was alone.
LEMMA EndKeeps ==
    ASSUME FollowInv, NEW r \in Requests,
           \/ AddMember(r) \/ RemoveMember(r) \/ ProjectionFails(r) \/ StatementFails(r)
    PROVE  FollowInv'
<1> USE DEF AddMember, RemoveMember, ProjectionFails, StatementFails, Leaves, Trusts
<1>1. FollowTypeOK'
    <2>1. command' \in [Requests -> [at : {"idle", "exists", "create", "add", "delete", "remove"},
                                     actor : Actors, alone : BOOLEAN]]
        BY NoCommandType DEF FollowInv, FollowTypeOK
    <2>2. row' \in [Actors -> BOOLEAN] /\ member' \in [Actors -> BOOLEAN]
        BY DEF FollowInv, FollowTypeOK
    <2>3. estranged' \subseteq Actors
        BY DEF FollowInv, FollowTypeOK
    <2> QED BY <2>1, <2>2, <2>3 DEF FollowTypeOK
<1>2. Stays(r) /\ Busy(r) /\ command'[r].at = "idle"
    BY DEF FollowInv, FollowTypeOK, Stays, Busy, NoCommand
<1>3. AloneIsAlone'
    BY <1>2, OthersStayAlone
<1>4. \A a \in Actors : a # command[r].actor => row'[a] = row[a] /\ member'[a] = member[a]
    BY DEF FollowInv, FollowTypeOK
<1>5. AloneKnowsTheRow'
    BY <1>2, <1>4, OthersKnowTheRow
<1>6. DifferenceIsCarried'
    <2> SUFFICES ASSUME NEW a \in Actors \ estranged', ~(member'[a] <=> row'[a])
                 PROVE  Projecting(a)'
        BY DEF DifferenceIsCarried
    <2>1. a \notin estranged /\ ~(member[a] <=> row[a])
        <3>1. CASE a # command[r].actor
            BY <3>1, <1>4
        <3>2. CASE a = command[r].actor /\ (AddMember(r) \/ RemoveMember(r))
            BY <3>2 DEF FollowInv, FollowTypeOK, AloneKnowsTheRow
        <3>3. CASE a = command[r].actor /\ ProjectionFails(r)
            BY <3>3
        <3>4. CASE a = command[r].actor /\ StatementFails(r)
            BY <3>4
        <3> QED BY <3>1, <3>2, <3>3, <3>4
    <2>2. PICK q \in Requests : command[q].at \in {"add", "remove"} /\ command[q].actor = a
        BY <2>1 DEF FollowInv, DifferenceIsCarried, Projecting
    <2>3. q # r
        <3>1. CASE command[r].actor # a
            BY <3>1, <2>2
        <3>2. CASE command[r].actor = a /\ (AddMember(r) \/ RemoveMember(r))
            BY <3>2 DEF FollowInv, FollowTypeOK, AloneKnowsTheRow
        <3>3. CASE ProjectionFails(r)
            BY <3>3, <2>2
        <3>4. CASE StatementFails(r)
            BY <3>4, <2>2
        <3> QED BY <3>1, <3>2, <3>3, <3>4
    <2> QED BY <2>2, <2>3, <1>2 DEF Projecting, Stays
<1> QED BY <1>1, <1>3, <1>5, <1>6 DEF FollowInv
-----------------------------------------------------------------------------
LEMMA FollowNextInv == FollowInv /\ [FollowNext]_followVars => FollowInv'
<1> SUFFICES ASSUME FollowInv, [FollowNext]_followVars PROVE FollowInv'
    OBVIOUS
<1>1. ASSUME NEW r \in Requests, FollowStep(r) PROVE FollowInv'
    <2>1. ASSUME NEW a \in Actors, Follow(r, a) \/ Unfollow(r, a) PROVE FollowInv'
        BY <2>1, EnterKeeps DEF Follow, Unfollow
    <2>2. CASE Exists(r) \/ Create(r) \/ Delete(r)
        BY <2>2, StatementKeeps
    <2>3. CASE AddMember(r) \/ RemoveMember(r) \/ ProjectionFails(r) \/ StatementFails(r)
        BY <2>3, EndKeeps
    <2> QED BY <1>1, <2>1, <2>2, <2>3 DEF FollowStep
<1>2. CASE UNCHANGED followVars
    BY <1>2 DEF followVars, FollowInv, FollowTypeOK, AloneIsAlone, AloneKnowsTheRow,
                DifferenceIsCarried, Projecting, Busy
<1> QED BY <1>1, <1>2 DEF FollowNext

LEMMA FollowInvExplains == FollowInv => DivergenceIsExplained
BY DEF FollowInv, DifferenceIsCarried, Projecting, DivergenceIsExplained, Quiet, Busy

\* The variables of FollowCommandService's model keep their types, for any actors
\* and any number of requests.
THEOREM FollowTypeCorrect == FollowSpec => []FollowTypeOK
<1>1. FollowInv => FollowTypeOK
    BY DEF FollowInv
<1> QED BY <1>1, FollowInitInv, FollowNextInv, PTL DEF FollowSpec

\* Row and projection differ at rest only after a failure or an overlap of
\* requests of the same actor, however many actors and requests there are.
THEOREM FollowDivergenceIsExplained == FollowSpec => []DivergenceIsExplained
BY FollowInitInv, FollowNextInv, FollowInvExplains, PTL DEF FollowSpec
-----------------------------------------------------------------------------
Inside == {"ask", "write", "commit"}

HolderIsInside == \A t \in Toggles : toggle[t].at \in Inside <=> rowLock = t

StepFits ==
    \A t \in Toggles :
        /\ toggle[t].at = "write" =>
            \/ toggle[t].step = 1 /\ toggle[t].user \notin likers
            \/ toggle[t].step = -1 /\ toggle[t].user \in likers /\ liked > 0
        /\ toggle[t].at = "commit" => liked + toggle[t].step >= 0

Within(n) ==
    /\ n - Cardinality(likers) <= likeFaults
    /\ Cardinality(likers) - n <= likeFaults

DriftIsPaid ==
    /\ (\A t \in Toggles : toggle[t].at # "commit") => Within(liked)
    /\ \A t \in Toggles : toggle[t].at = "commit" => Within(liked + toggle[t].step)

LikesInv == LikesTypeOK /\ IsFiniteSet(likers) /\ HolderIsInside /\ StepFits /\ DriftIsPaid

ToggleRecords == [at : {"idle", "lock", "ask", "write", "commit"},
                  user : Likers, step : {-1, 0, 1}]

LEMMA NoToggleType == NoToggle \in ToggleRecords /\ NoToggle.at = "idle" /\ NoToggle.step = 0
BY LikesAssumption DEF NoToggle, ToggleRecords

LEMMA LikesInitInv == LikesInit => LikesInv
<1> SUFFICES ASSUME LikesInit PROVE LikesInv
    OBVIOUS
<1>1. LikesTypeOK
    <2>1. toggle \in [Toggles -> ToggleRecords]
        BY NoToggleType DEF LikesInit
    <2>2. liked \in Nat /\ withdrawn \in BOOLEAN /\ likers \subseteq Likers
        BY DEF LikesInit
    <2>3. rowLock \in Toggles \cup {Nobody} /\ likeFaults \in 0..MaxLikeFaults
        BY LikesAssumption DEF LikesInit
    <2> QED BY <2>1, <2>2, <2>3 DEF LikesTypeOK, ToggleRecords
<1>2. \A t \in Toggles : toggle[t].at = "idle"
    BY NoToggleType DEF LikesInit
<1>3. HolderIsInside /\ StepFits
    BY <1>2, LikesAssumption DEF LikesInit, HolderIsInside, StepFits, Inside
<1>4. IsFiniteSet(likers) /\ DriftIsPaid
    BY <1>2, FS_EmptySet DEF LikesInit, DriftIsPaid, Within
<1> QED BY <1>1, <1>3, <1>4 DEF LikesInv
-----------------------------------------------------------------------------
\* The counter, the set and the faults in numbers.
LEMMA CardinalityIsNat ==
    LikesInv => Cardinality(likers) \in Nat /\ likeFaults \in Nat /\ liked \in Nat
BY FS_CardinalityType, LikesAssumption DEF LikesInv, LikesTypeOK

\* While nobody is at a commit, the others are not past the lock either.
LEMMA OnlyHolder ==
    ASSUME LikesInv, NEW t \in Toggles, toggle[t].at \in Inside,
           NEW q \in Toggles \ {t}
    PROVE  toggle[q].at \notin Inside
BY DEF LikesInv, HolderIsInside

\* The write of a holder moves the set by the step of its toggle.
LEMMA WrittenMoves ==
    ASSUME LikesInv, NEW t \in Toggles, toggle[t].at = "write"
    PROVE  /\ IsFiniteSet(Written(t)) /\ Written(t) \subseteq Likers
           /\ Cardinality(Written(t)) = Cardinality(likers) + toggle[t].step
           /\ Cardinality(Written(t)) \in Nat
           /\ toggle[t].step \in {-1, 1}
           /\ liked + toggle[t].step >= 0
<1>1. IsFiniteSet(likers) /\ likers \subseteq Likers /\ toggle[t].user \in Likers
    BY DEF LikesInv, LikesTypeOK
<1>2. CASE toggle[t].step = 1 /\ toggle[t].user \notin likers
    <2>1. Written(t) = likers \cup {toggle[t].user}
        BY <1>2 DEF Written
    <2>2. IsFiniteSet(Written(t)) /\ Cardinality(Written(t)) = Cardinality(likers) + 1
        BY <2>1, <1>1, <1>2, FS_AddElement
    <2>3. Written(t) \subseteq Likers
        BY <2>1, <1>1
    <2> QED BY <2>2, <2>3, <1>2, CardinalityIsNat
<1>3. CASE toggle[t].step = -1 /\ toggle[t].user \in likers /\ liked > 0
    <2>1. Written(t) = likers \ {toggle[t].user}
        BY <1>3 DEF Written
    <2>2. IsFiniteSet(Written(t)) /\ Cardinality(Written(t)) = Cardinality(likers) - 1
        BY <2>1, <1>1, <1>3, FS_RemoveElement
    <2>3. Cardinality(Written(t)) \in Nat
        BY <2>2, FS_CardinalityType
    <2> QED BY <2>1, <2>2, <2>3, <1>1, <1>3, CardinalityIsNat
<1> QED BY <1>2, <1>3 DEF LikesInv, StepFits

\* A thread outside of the lock moves outside of it.
LEMMA OutsideKeeps ==
    ASSUME LikesInv, NEW t \in Toggles,
           (\E u \in Likers : LikeBlog(t, u)) \/ NotFound(t)
    PROVE  LikesInv'
<1>1. PICK next \in ToggleRecords :
        toggle' = [toggle EXCEPT ![t] = next] /\ next.at \notin Inside /\ toggle[t].at \notin Inside
    <2>1. CASE \E u \in Likers : LikeBlog(t, u)
        <3>1. PICK u \in Likers : LikeBlog(t, u)
            BY <2>1
        <3> DEFINE next == [NoToggle EXCEPT !.at = "lock", !.user = u]
        <3>2. next \in ToggleRecords /\ next.at = "lock"
            BY NoToggleType DEF ToggleRecords
        <3> QED BY <3>1, <3>2 DEF LikeBlog, AtLike, Inside
    <2>2. CASE NotFound(t)
        BY <2>2, NoToggleType DEF NotFound, AtLike, Inside
    <2> QED BY <2>1, <2>2
<1>2. /\ \A q \in Toggles \ {t} : toggle'[q] = toggle[q]
      /\ toggle[t].at \notin Inside /\ toggle'[t].at \notin Inside
      /\ toggle' \in [Toggles -> ToggleRecords]
    BY <1>1 DEF LikesInv, LikesTypeOK, ToggleRecords
<1>3. UNCHANGED <<liked, withdrawn, likers, rowLock, likeFaults>>
    BY DEF LikeBlog, NotFound
<1>7. LikesTypeOK'
    BY <1>2, <1>3 DEF LikesInv, LikesTypeOK, ToggleRecords
<1>4. HolderIsInside'
    BY <1>2, <1>3 DEF LikesInv, HolderIsInside, Inside
<1>5. StepFits'
    BY <1>2, <1>3 DEF LikesInv, StepFits, Inside
<1>6. DriftIsPaid'
    BY <1>2, <1>3 DEF LikesInv, DriftIsPaid, Within, Inside
<1> QED BY <1>3, <1>4, <1>5, <1>6, <1>7 DEF LikesInv

LEMMA LockKeeps ==
    ASSUME LikesInv, NEW t \in Toggles, LockVisible(t)
    PROVE  LikesInv'
<1> USE DEF LockVisible, AtLike, TakeRow, MoveTo
<1>1. LikesTypeOK'
    BY DEF LikesInv, LikesTypeOK
<1>2. /\ \A q \in Toggles \ {t} : toggle'[q] = toggle[q]
      /\ toggle'[t].at = "ask" /\ toggle[t].at = "lock"
    BY DEF LikesInv, LikesTypeOK
<1>3. HolderIsInside'
    BY <1>2, LikesAssumption DEF LikesInv, HolderIsInside, Inside
<1>4. StepFits'
    BY <1>2 DEF LikesInv, StepFits
<1>5. DriftIsPaid'
    BY <1>2 DEF LikesInv, DriftIsPaid, Within
<1> QED BY <1>1, <1>3, <1>4, <1>5 DEF LikesInv

LEMMA CountKeeps ==
    ASSUME LikesInv, NEW t \in Toggles, CountLike(t)
    PROVE  LikesInv'
<1> USE DEF CountLike, AtLike
<1> DEFINE step == Moves(toggle[t].user)
<1>1. \/ step = 1 /\ toggle[t].user \notin likers
      \/ step = -1 /\ toggle[t].user \in likers /\ liked > 0
      \/ step = 0
    BY CardinalityIsNat DEF Moves
<1>2. /\ toggle[t].at = "ask"
      /\ \A q \in Toggles \ {t} : toggle'[q] = toggle[q]
      /\ toggle'[t].step = step /\ toggle'[t].user = toggle[t].user
      /\ toggle'[t].at = IF step = 0 THEN "commit" ELSE "write"
    BY DEF LikesInv, LikesTypeOK
<1>3. LikesTypeOK'
    <2>1. step \in {-1, 0, 1}
        BY <1>1
    <2> QED BY <2>1 DEF LikesInv, LikesTypeOK
<1>4. HolderIsInside'
    BY <1>2 DEF LikesInv, HolderIsInside, Inside
<1>5. \A q \in Toggles \ {t} : toggle[q].at \notin Inside
    BY <1>2, OnlyHolder DEF Inside
<1>8. UNCHANGED <<liked, likers, likeFaults>>
    OBVIOUS
<1> HIDE DEF step, CountLike
<1>6. StepFits'
    <2> SUFFICES ASSUME NEW q \in Toggles
                 PROVE  StepFits!(q)'
        BY DEF StepFits
    <2>1. CASE q # t
        BY <2>1, <1>2, <1>5, <1>8 DEF StepFits, Inside
    <2>2. CASE q = t
        BY <2>2, <1>1, <1>2, <1>8, CardinalityIsNat
    <2> QED BY <2>1, <2>2
<1>7. DriftIsPaid'
    <2>1. Within(liked)
        BY <1>2, <1>5 DEF LikesInv, DriftIsPaid, Inside
    <2>2. Within(liked)'
        BY <2>1, <1>8 DEF Within
    <2>3. ASSUME toggle'[t].at = "commit" PROVE Within(liked + toggle[t].step)'
        <3>1. toggle'[t].step = 0
            BY <2>3, <1>2
        <3> QED BY <3>1, <2>2, CardinalityIsNat, <1>8
    <2> QED BY <2>2, <2>3, <1>2, <1>5 DEF DriftIsPaid, Within, Inside
<1> QED BY <1>3, <1>4, <1>6, <1>7, <1>8 DEF LikesInv

LEMMA WriteKeeps ==
    ASSUME LikesInv, NEW t \in Toggles, WriteSet(t)
    PROVE  LikesInv'
<1> USE DEF WriteSet, AtLike, MoveTo
<1>1. /\ toggle[t].at = "write" /\ likers' = Written(t)
      /\ \A q \in Toggles \ {t} : toggle'[q] = toggle[q]
      /\ toggle'[t].at = "commit" /\ toggle'[t].step = toggle[t].step
    BY DEF LikesInv, LikesTypeOK
<1>2. LikesTypeOK' /\ IsFiniteSet(likers)'
    BY <1>1, WrittenMoves DEF LikesInv, LikesTypeOK
<1>3. HolderIsInside'
    BY <1>1 DEF LikesInv, HolderIsInside, Inside
<1>4. \A q \in Toggles \ {t} : toggle[q].at \notin Inside
    BY <1>1, OnlyHolder DEF Inside
<1>5. StepFits'
    BY <1>1, <1>4, WrittenMoves DEF StepFits, Inside
<1>6. DriftIsPaid'
    <2>1. Within(liked)
        BY <1>1, <1>4 DEF LikesInv, DriftIsPaid, Inside
    <2> QED BY <2>1, <1>1, <1>4, WrittenMoves, CardinalityIsNat DEF DriftIsPaid, Within, Inside
<1> QED BY <1>2, <1>3, <1>5, <1>6 DEF LikesInv

\* The holder ends: nobody is inside, and all that counts is the distance.
LEMMA ToggleEndKeeps ==
    ASSUME LikesInv, NEW t \in Toggles, toggle[t].at \in Inside, NEW n, EndToggle(t, n),
           n \in Nat, UNCHANGED withdrawn,
           likers' \subseteq Likers, IsFiniteSet(likers)', likeFaults' \in 0..MaxLikeFaults,
           Within(liked)'
    PROVE  LikesInv'
<1> USE DEF EndToggle
<1>1. LikesTypeOK'
    <2>1. toggle' \in [Toggles -> ToggleRecords]
        BY NoToggleType DEF LikesInv, LikesTypeOK, ToggleRecords
    <2>2. liked' \in Nat /\ withdrawn' \in BOOLEAN /\ rowLock' \in Toggles \cup {Nobody}
        BY DEF LikesInv, LikesTypeOK
    <2> QED BY <2>1, <2>2 DEF LikesTypeOK, ToggleRecords
<1>2. \A q \in Toggles : toggle'[q].at \notin Inside
    BY NoToggleType, OnlyHolder DEF LikesInv, LikesTypeOK, Inside
<1>3. rowLock' = Nobody
    BY DEF LikesInv, HolderIsInside
<1>4. HolderIsInside'
    BY <1>2, <1>3, LikesAssumption DEF HolderIsInside
<1>5. StepFits' /\ DriftIsPaid'
    BY <1>2 DEF StepFits, DriftIsPaid, Inside
<1> QED BY <1>1, <1>4, <1>5 DEF LikesInv

\* A call that raises costs a fault, which pays for what it left in the set.
LEMMA RaiseKeeps ==
    ASSUME LikesInv, NEW t \in Toggles, RedisRaises(t)
    PROVE  LikesInv'
<1> USE DEF RedisRaises, LikeFault, AtLike
<1>1. /\ toggle[t].at \in {"ask", "write"} /\ EndToggle(t, liked) /\ liked' = liked
      /\ likeFaults' = likeFaults + 1 /\ likeFaults' \in 0..MaxLikeFaults
    BY LikesAssumption DEF LikesInv, LikesTypeOK, EndToggle
<1>2. Within(liked)
    BY <1>1, OnlyHolder DEF LikesInv, DriftIsPaid, Inside
<1>3. CASE likers' = likers
    <2>1. Within(liked)'
        BY <1>1, <1>2, <1>3, CardinalityIsNat DEF Within
    <2>2. likers' \subseteq Likers /\ IsFiniteSet(likers)' /\ liked \in Nat
        BY <1>3 DEF LikesInv, LikesTypeOK
    <2> QED BY <1>1, <2>1, <2>2, ToggleEndKeeps DEF Inside
<1>4. CASE toggle[t].at = "write" /\ likers' = Written(t)
    <2>1. Within(liked)'
        BY <1>1, <1>2, <1>4, WrittenMoves, CardinalityIsNat DEF Within
    <2>2. likers' \subseteq Likers /\ IsFiniteSet(likers)' /\ liked \in Nat
        BY <1>4, WrittenMoves, CardinalityIsNat
    <2> QED BY <1>1, <2>1, <2>2, ToggleEndKeeps DEF Inside
<1> QED BY <1>3, <1>4

LEMMA CommitKeeps ==
    ASSUME LikesInv, NEW t \in Toggles, CommitLike(t) \/ CommitRaises(t)
    PROVE  LikesInv'
<1> USE DEF CommitLike, CommitRaises, LikeFault, AtLike
<1>1. /\ toggle[t].at = "commit" /\ toggle[t].step \in {-1, 0, 1}
      /\ likers' = likers /\ likers \subseteq Likers /\ IsFiniteSet(likers)
    BY DEF LikesInv, LikesTypeOK
<1>2. Within(liked + toggle[t].step) /\ liked + toggle[t].step \in Nat
    BY <1>1, CardinalityIsNat DEF LikesInv, DriftIsPaid, StepFits
<1>3. CASE /\ EndToggle(t, liked + toggle[t].step)
           /\ likeFaults' \in {likeFaults, likeFaults + 1} /\ likeFaults' \in 0..MaxLikeFaults
    <2>1. Within(liked)'
        BY <1>1, <1>2, <1>3, CardinalityIsNat DEF Within, EndToggle
    <2> QED BY <1>1, <1>2, <1>3, <2>1, ToggleEndKeeps DEF Inside
<1>4. CASE /\ EndToggle(t, liked)
           /\ likeFaults' = likeFaults + 1 /\ likeFaults' \in 0..MaxLikeFaults
    <2>1. Within(liked)'
        BY <1>1, <1>2, <1>4, CardinalityIsNat DEF Within, EndToggle
    <2>2. liked \in Nat
        BY CardinalityIsNat
    <2> QED BY <1>1, <1>4, <2>1, <2>2, ToggleEndKeeps DEF Inside
<1>5. likeFaults \in 0..MaxLikeFaults
    BY DEF LikesInv, LikesTypeOK
<1>6. CASE CommitLike(t)
    BY <1>3, <1>5, <1>6
<1>7. CASE CommitRaises(t)
    BY <1>3, <1>4, <1>5, <1>7, LikesAssumption
<1> QED BY <1>6, <1>7
-----------------------------------------------------------------------------
LEMMA LikesNextInv == LikesInv /\ [LikesNext]_likeVars => LikesInv'
<1> SUFFICES ASSUME LikesInv, [LikesNext]_likeVars PROVE LikesInv'
    OBVIOUS
<1>1. ASSUME NEW t \in Toggles, ToggleStep(t) PROVE LikesInv'
    BY <1>1, OutsideKeeps, LockKeeps, CountKeeps, WriteKeeps, RaiseKeeps, CommitKeeps
    DEF ToggleStep
<1>2. CASE Withdraw
    BY <1>2 DEF Withdraw, LikesInv, LikesTypeOK, HolderIsInside, StepFits, DriftIsPaid, Within
<1>3. CASE UNCHANGED likeVars
    BY <1>3 DEF likeVars, LikesInv, LikesTypeOK, HolderIsInside, StepFits, DriftIsPaid, Within
<1> QED BY <1>1, <1>2, <1>3 DEF LikesNext

LEMMA LikesInvBounds == LikesInv => CounterDriftsOnlyByFaults
<1> SUFFICES ASSUME LikesInv PROVE CounterDriftsOnlyByFaults
    OBVIOUS
<1>1. ASSUME rowLock = Nobody PROVE Within(liked)
    BY <1>1, LikesAssumption DEF LikesInv, HolderIsInside, DriftIsPaid, Inside
<1> QED BY <1>1, CardinalityIsNat DEF CounterDriftsOnlyByFaults, Distance, Within, LikesInv

\* For any accounts and any number of threads toggling at once, the counter of
\* likeBlog and its set differ at rest by no more than the calls that failed.
THEOREM LikeCounterDrift == LikesSpec => []CounterDriftsOnlyByFaults
BY LikesInitInv, LikesNextInv, LikesInvBounds, PTL DEF LikesSpec
-----------------------------------------------------------------------------
(* BlogFeed                                                                *)

USE BlogFeedAssumption DEF BlogFeedAssumption

Entries == Posts \X Users
PostState == [live : BOOLEAN, key : Keys \cup {NoKey}, to : SUBSET Users]
PubState == [at : {"idle", "saved", "afterCommit"}, key : Keys \cup {NoKey},
             post : 0..MaxPosts, to : SUBSET Users]
JobState == [at : {"idle", "deliver", "complete"}, page : Seq(Entries)]

BlogTypeInv ==
    /\ lastId \in 0..MaxPosts
    /\ post \in [Posts -> PostState]
    /\ receipt \in [Keys -> 0..MaxPosts]
    /\ outbox \in Seq(Entries)
    /\ feed \in [Users -> SUBSET Posts]
    /\ pub \in [Publishers -> PubState]
    /\ job \in [Workers -> JobState]
    /\ faults \in 0..MaxFaults
    /\ answers \subseteq Keys \X Posts

\* An id is drawn once: what is saved and not committed has one no post has, and a
\* key it was the first to reserve.
DraftsInv ==
    /\ \A b \in Posts : post[b].live => b <= lastId
    /\ \A b \in Posts : ~post[b].live => post[b].to = {}
    /\ \A p \in Publishers :
         /\ pub[p].at = "saved" => pub[p].post \in 1..lastId /\ ~post[pub[p].post].live
         /\ pub[p].at = "saved" /\ pub[p].key # NoKey => Unreserved(pub[p].key)
         /\ pub[p].at = "afterCommit" => pub[p].post \in Posts
    /\ \A p, q \in Publishers :
         p # q /\ pub[p].at = "saved" /\ pub[q].at = "saved" =>
             /\ pub[p].post # pub[q].post
             /\ pub[p].key # NoKey => pub[p].key # pub[q].key

\* The receipt of a key and its post name each other.
ReceiptsInv ==
    /\ \A k \in Keys : receipt[k] # 0 => post[receipt[k]].live /\ post[receipt[k]].key = k
    /\ \A b \in Keyed : receipt[post[b].key] = b
    /\ \A a \in answers : receipt[a[1]] = a[2]

\* A worker has an entry in hand, which it completes when the post is in the feed.
JobsInv ==
    \A w \in Workers :
        /\ job[w].at = "idle" <=> job[w].page = <<>>
        /\ job[w].at = "complete" => Head(job[w].page)[1] \in feed[Head(job[w].page)[2]]

BlogInv == BlogTypeInv /\ DraftsInv /\ ReceiptsInv /\ JobsInv /\ IntentUntilDelivered
-----------------------------------------------------------------------------
LEMMA NoStates ==
    /\ NoPost \in PostState /\ NoPost.live = FALSE /\ NoPost.to = {}
    /\ Resting \in PubState /\ Resting.at = "idle"
    /\ NoJob \in JobState /\ NoJob.at = "idle" /\ NoJob.page = <<>>
<1>1. NoPost \in PostState
    BY DEF NoPost, PostState
<1>2. Resting \in PubState
    BY DEF Resting, PubState
<1>3. <<>> \in Seq(Entries)
    OBVIOUS
<1>4. NoJob \in JobState
    BY <1>3 DEF NoJob, JobState
<1> QED BY <1>1, <1>2, <1>4 DEF NoPost, Resting, NoJob

\* Dropping a row of the outbox keeps the others.
LEMMA RemoveAtKeeps ==
    ASSUME NEW S, NEW s \in Seq(S), NEW i \in 1..Len(s)
    PROVE  /\ RemoveAt(s, i) \in Seq(S)
           /\ \A j \in 1..Len(s) : j # i => \E k \in 1..Len(RemoveAt(s, i)) : RemoveAt(s, i)[k] = s[j]
<1> DEFINE a == SubSeq(s, 1, i - 1)
           b == SubSeq(s, i + 1, Len(s))
<1>1. Len(s) \in Nat /\ i \in Nat /\ 1 <= i /\ i <= Len(s)
    OBVIOUS
<1>2. a \in Seq(S) /\ Len(a) = i - 1 /\ \A k \in 1..(i - 1) : a[k] = s[k]
    BY <1>1
<1>3. b \in Seq(S) /\ Len(b) = Len(s) - i /\ \A k \in 1..(Len(s) - i) : b[k] = s[i + k]
    BY <1>1
<1>4. RemoveAt(s, i) = a \o b
    BY DEF RemoveAt
<1> HIDE DEF a, b
<1>5. /\ a \o b \in Seq(S) /\ Len(a \o b) = Len(s) - 1
      /\ \A k \in 1..(Len(a) + Len(b)) : (a \o b)[k] = IF k <= Len(a) THEN a[k] ELSE b[k - Len(a)]
    <2>1. /\ a \o b \in Seq(S) /\ Len(a \o b) = Len(a) + Len(b)
          /\ \A k \in 1..(Len(a) + Len(b)) :
                 (a \o b)[k] = IF k <= Len(a) THEN a[k] ELSE b[k - Len(a)]
        BY <1>2, <1>3, ConcatProperties
    <2>2. Len(a) + Len(b) = Len(s) - 1
        BY <1>1, <1>2, <1>3
    <2> QED BY <2>1, <2>2
<1>6. \A k \in 1..Len(a \o b) : (a \o b)[k] = IF k < i THEN s[k] ELSE s[k + 1]
    <2> SUFFICES ASSUME NEW k \in 1..Len(a \o b)
                 PROVE  (a \o b)[k] = IF k < i THEN s[k] ELSE s[k + 1]
        OBVIOUS
    <2>1. CASE k < i
        BY <1>1, <1>2, <1>3, <1>5, <2>1
    <2>2. CASE ~ k < i
        <3>1. (a \o b)[k] = b[k - (i - 1)]
            BY <1>1, <1>2, <1>3, <1>5, <2>2
        <3>2. b[k - (i - 1)] = s[i + (k - (i - 1))]
            BY <1>1, <1>3, <1>5, <2>2
        <3>3. i + (k - (i - 1)) = k + 1
            BY <1>1, <1>5
        <3> QED BY <2>2, <3>1, <3>2, <3>3
    <2> QED BY <2>1, <2>2
<1>7. ASSUME NEW j \in 1..Len(s), j # i
      PROVE  \E k \in 1..Len(a \o b) : (a \o b)[k] = s[j]
    <2>1. CASE j < i
        <3>1. j \in 1..Len(a \o b) /\ (a \o b)[j] = s[j]
            BY <1>1, <1>5, <1>6, <2>1
        <3> QED BY <3>1
    <2>2. CASE j > i
        <3>1. j - 1 \in 1..Len(a \o b)
            BY <1>1, <1>5, <2>2
        <3>2. (a \o b)[j - 1] = s[j - 1 + 1]
            BY <1>1, <1>6, <2>2, <3>1
        <3>3. j - 1 + 1 = j
            OBVIOUS
        <3> QED BY <3>1, <3>2, <3>3
    <2> QED BY <1>1, <1>7, <2>1, <2>2
<1> QED BY <1>4, <1>5, <1>7

LEMMA WithoutKeeps ==
    ASSUME BlogTypeInv, NEW e
    PROVE  /\ Without(e) \in Seq(Entries)
           /\ \A i \in DOMAIN outbox : outbox[i] # e =>
                \E k \in 1..Len(Without(e)) : Without(e)[k] = outbox[i]
<1>1. outbox \in Seq(Entries) /\ DOMAIN outbox = 1..Len(outbox)
    BY DEF BlogTypeInv
<1>2. CASE IsQueued(e)
    <2> DEFINE i == CHOOSE i \in DOMAIN outbox : outbox[i] = e
    <2>1. i \in 1..Len(outbox) /\ outbox[i] = e
        BY <1>1, <1>2 DEF IsQueued
    <2>2. Without(e) = RemoveAt(outbox, i)
        BY <1>2 DEF Without
    <2> HIDE DEF i
    <2>3. /\ RemoveAt(outbox, i) \in Seq(Entries)
          /\ \A j \in 1..Len(outbox) : j # i =>
               \E k \in 1..Len(RemoveAt(outbox, i)) : RemoveAt(outbox, i)[k] = outbox[j]
        BY <1>1, <2>1, RemoveAtKeeps
    <2> QED BY <1>1, <2>1, <2>2, <2>3
<1>3. CASE ~IsQueued(e)
    <2>1. Without(e) = outbox
        BY <1>3 DEF Without
    <2> QED BY <1>1, <2>1
<1> QED BY <1>2, <1>3

\* A postponed row moves and stays.
LEMMA PostponeKeeps ==
    ASSUME BlogTypeInv, NEW e \in Entries, Postpone(e) \/ UNCHANGED outbox
    PROVE  /\ outbox' \in Seq(Entries)
           /\ \A i : IsQueued(i) => IsQueued(i)'
<1>1. outbox \in Seq(Entries) /\ DOMAIN outbox = 1..Len(outbox)
    BY DEF BlogTypeInv
<1>2. CASE UNCHANGED outbox
    BY <1>1, <1>2 DEF IsQueued
<1>3. CASE IsQueued(e) /\ outbox' = Append(Without(e), e)
    <2> DEFINE w == Without(e)
    <2>1. w \in Seq(Entries) /\ Len(w) \in Nat
        BY WithoutKeeps
    <2>2. \A i \in DOMAIN outbox : outbox[i] # e => \E k \in 1..Len(w) : w[k] = outbox[i]
        BY WithoutKeeps
    <2>3. outbox' = Append(w, e)
        BY <1>3
    <2> HIDE DEF w
    <2>4. /\ Append(w, e) \in Seq(Entries) /\ DOMAIN Append(w, e) = 1..(Len(w) + 1)
          /\ Append(w, e)[Len(w) + 1] = e
          /\ \A k \in 1..Len(w) : Append(w, e)[k] = w[k]
        BY <2>1
    <2>5. ASSUME NEW i, IsQueued(i) PROVE IsQueued(i)'
        <3>1. CASE i = e
            <4>1. Len(w) + 1 \in DOMAIN outbox' /\ outbox'[Len(w) + 1] = i
                BY <2>1, <2>3, <2>4, <3>1
            <4> QED BY <4>1 DEF IsQueued
        <3>2. CASE i # e
            <4>1. PICK k \in 1..Len(w) : w[k] = i
                BY <2>2, <2>5, <3>2 DEF IsQueued
            <4>2. k \in DOMAIN outbox' /\ outbox'[k] = i
                BY <2>1, <2>3, <2>4, <4>1
            <4> QED BY <4>2 DEF IsQueued
        <3> QED BY <3>1, <3>2
    <2> QED BY <2>3, <2>4, <2>5
<1> QED BY <1>2, <1>3 DEF Postpone

\* New rows go in between the old ones.
LEMMA InsertKeeps ==
    ASSUME BlogTypeInv, NEW new \in Seq(Entries), NEW n \in 0..Len(outbox),
           outbox' = SubSeq(outbox, 1, n) \o new \o SubSeq(outbox, n + 1, Len(outbox))
    PROVE  /\ outbox' \in Seq(Entries)
           /\ \A i : IsQueued(i) => IsQueued(i)'
           /\ \A k \in 1..Len(new) : IsQueued(new[k])'
<1> DEFINE a == SubSeq(outbox, 1, n)
           b == SubSeq(outbox, n + 1, Len(outbox))
<1>1. outbox \in Seq(Entries) /\ DOMAIN outbox = 1..Len(outbox) /\ Len(outbox) \in Nat
    BY DEF BlogTypeInv
<1>2. a \in Seq(Entries) /\ Len(a) = n /\ \A k \in 1..n : a[k] = outbox[k]
    BY <1>1
<1>3. /\ b \in Seq(Entries) /\ Len(b) = Len(outbox) - n
      /\ \A k \in 1..(Len(outbox) - n) : b[k] = outbox[n + k]
    <2>1. \A k \in (n + 1)..Len(outbox) : outbox[k] \in Entries
        BY <1>1
    <2>2. n + 1 \in Int /\ Len(outbox) \in Int
        BY <1>1
    <2>3. /\ b \in Seq(Entries)
          /\ Len(b) = IF n + 1 <= Len(outbox) THEN Len(outbox) - (n + 1) + 1 ELSE 0
          /\ \A k \in 1..(Len(outbox) - (n + 1) + 1) : b[k] = outbox[n + 1 + k - 1]
        BY <2>1, <2>2, SubSeqProperties
    <2>4. Len(b) = Len(outbox) - n
        <3>1. Len(outbox) \in Nat /\ n \in 0..Len(outbox)
            BY <1>1
        <3>2. Len(b) = IF n + 1 <= Len(outbox) THEN Len(outbox) - (n + 1) + 1 ELSE 0
            BY <2>3
        <3> HIDE DEF b
        <3> QED BY <3>1, <3>2
    <2>5. \A k \in 1..(Len(outbox) - n) : /\ k \in 1..(Len(outbox) - (n + 1) + 1)
                                         /\ n + 1 + k - 1 = n + k
        BY <1>1
    <2> HIDE DEF b
    <2> QED BY <2>3, <2>4, <2>5
<1>4. outbox' = a \o new \o b
    OBVIOUS
<1> HIDE DEF a, b
<1> DEFINE c == a \o new
<1>5. /\ c \in Seq(Entries) /\ Len(c) = n + Len(new) /\ Len(new) \in Nat
      /\ \A k \in 1..n : c[k] = a[k]
      /\ \A k \in 1..Len(new) : c[n + k] = new[k]
    BY <1>1, <1>2
<1> HIDE DEF c
<1>6. outbox' = c \o b
    BY <1>4 DEF c
<1>7. /\ c \o b \in Seq(Entries) /\ DOMAIN (c \o b) = 1..(Len(c) + Len(b))
      /\ \A k \in 1..Len(c) : (c \o b)[k] = c[k]
      /\ \A k \in 1..Len(b) : (c \o b)[Len(c) + k] = b[k]
    <2>1. /\ c \o b \in Seq(Entries) /\ Len(c \o b) = Len(c) + Len(b)
          /\ \A k \in 1..(Len(c) + Len(b)) :
                 (c \o b)[k] = IF k <= Len(c) THEN c[k] ELSE b[k - Len(c)]
        BY <1>3, <1>5, ConcatProperties
    <2>2. Len(c) \in Nat /\ Len(b) \in Nat
        BY <1>3, <1>5
    <2>3. DOMAIN (c \o b) = 1..(Len(c) + Len(b))
        BY <2>1
    <2>4. \A k \in 1..Len(c) : k \in 1..(Len(c) + Len(b)) /\ k <= Len(c)
        BY <2>2
    <2>5. \A k \in 1..Len(b) : /\ Len(c) + k \in 1..(Len(c) + Len(b))
                              /\ ~ Len(c) + k <= Len(c) /\ Len(c) + k - Len(c) = k
        BY <2>2
    <2> QED BY <2>1, <2>3, <2>4, <2>5
<1>8. ASSUME NEW i, IsQueued(i) PROVE IsQueued(i)'
    <2>1. PICK k \in 1..Len(outbox) : outbox[k] = i
        BY <1>1, <1>8 DEF IsQueued
    <2>2. CASE k <= n
        <3>1. k \in 1..n /\ k \in 1..Len(c) /\ k \in 1..(Len(c) + Len(b))
            BY <1>1, <1>3, <1>5, <2>2
        <3>2. (c \o b)[k] = i
            BY <1>2, <1>5, <1>7, <2>1, <3>1
        <3> QED BY <1>6, <1>7, <3>1, <3>2 DEF IsQueued
    <2>3. CASE k > n
        <3>1. k - n \in 1..Len(b) /\ Len(c) + (k - n) \in 1..(Len(c) + Len(b)) /\ n + (k - n) = k
            BY <1>1, <1>3, <1>5, <2>3
        <3>2. (c \o b)[Len(c) + (k - n)] = i
            BY <1>3, <1>7, <2>1, <3>1
        <3> QED BY <1>6, <1>7, <3>1, <3>2 DEF IsQueued
    <2> QED BY <1>1, <2>2, <2>3
<1>9. ASSUME NEW k \in 1..Len(new) PROVE IsQueued(new[k])'
    <2>1. n + k \in 1..Len(c) /\ n + k \in 1..(Len(c) + Len(b))
        <3>1. Len(c) = n + Len(new) /\ Len(new) \in Nat /\ Len(b) \in Nat /\ n \in Nat
            BY <1>1, <1>3, <1>5
        <3> HIDE DEF c, b
        <3> QED BY <3>1
    <2>2. (c \o b)[n + k] = new[k]
        BY <1>5, <1>7, <2>1
    <2> QED BY <1>6, <1>7, <2>1, <2>2 DEF IsQueued
<1> QED BY <1>6, <1>7, <1>8, <1>9

\* Every recipient of a post gets an intent.
LEMMA IntentsAreAll ==
    ASSUME NEW b \in Posts, NEW to \in SUBSET Users, NEW new \in Intents(b, to)
    PROVE  /\ new \in Seq(Entries)
           /\ \A u \in to : \E k \in 1..Len(new) : new[k] = <<b, u>>
<1> DEFINE S == {b} \X to
           n == Cardinality(S)
<1>1. IsFiniteSet(to)
    BY FS_Subset
<1>2. IsFiniteSet({b}) /\ S \subseteq Entries
    BY FS_Singleton DEF Entries
<1>3. IsFiniteSet(S)
    BY <1>1, <1>2, FS_Product
<1>4. n \in Nat
    BY <1>3, FS_CardinalityType
<1>5. new \in [1..n -> S] /\ \A i, j \in 1..n : i # j => new[i] # new[j]
    BY DEF Intents, SetToSeqs
<1>6. IsFiniteSet(1..n) /\ Cardinality(1..n) = n
    BY <1>4, FS_Interval
<1>7. new \in Injection(1..n, S)
    BY <1>5 DEF Injection, IsInjective
<1> DEFINE N == 1..n
<1> HIDE DEF S
<1>8. new \in Surjection(N, S)
    <2>1. Cardinality(N) = Cardinality(S) /\ IsFiniteSet(N) /\ new \in Injection(N, S)
        BY <1>6, <1>7
    <2> HIDE DEF N, n
    <2> QED BY <2>1, <1>3, FS_Injection
<1>9. \A x \in S : \E k \in 1..n : new[k] = x
    BY <1>8 DEF Surjection
<1>10. new \in [1..n -> Entries]
    BY <1>2, <1>5
<1>11. new \in Seq(Entries) /\ Len(new) = n
    BY <1>4, <1>10
<1>12. \A u \in to : <<b, u>> \in S
    BY DEF S
<1> QED BY <1>9, <1>11, <1>12
-----------------------------------------------------------------------------
LEMMA BlogInitInv == Init => BlogInv
<1> SUFFICES ASSUME Init PROVE BlogInv
    OBVIOUS
<1> USE DEF Init
<1>1. BlogTypeInv
    <2>1. post \in [Posts -> PostState] /\ pub \in [Publishers -> PubState]
          /\ job \in [Workers -> JobState]
        BY NoStates
    <2>2. <<>> \in Seq(Entries)
        OBVIOUS
    <2>3. outbox \in Seq(Entries)
        BY <2>2
    <2>4. receipt \in [Keys -> 0..MaxPosts] /\ feed \in [Users -> SUBSET Posts]
        OBVIOUS
    <2>5. lastId \in 0..MaxPosts /\ faults \in 0..MaxFaults /\ answers \subseteq Keys \X Posts
        OBVIOUS
    <2> QED BY <2>1, <2>3, <2>4, <2>5 DEF BlogTypeInv
<1>2. DraftsInv
    BY NoStates DEF DraftsInv
<1>3. ReceiptsInv
    BY NoStates DEF ReceiptsInv, Keyed
<1>4. JobsInv
    BY NoStates DEF JobsInv
<1>5. IntentUntilDelivered
    BY NoStates DEF IntentUntilDelivered, Intended
<1> QED BY <1>1, <1>2, <1>3, <1>4, <1>5 DEF BlogInv
-----------------------------------------------------------------------------
\* What the parts of the invariant do not notice.
LEMMA ReceiptsStay == ReceiptsInv /\ UNCHANGED <<post, receipt, answers>> => ReceiptsInv'
BY DEF ReceiptsInv, Keyed

LEMMA IntentsStay ==
    ASSUME BlogInv, UNCHANGED post, \A u \in Users : feed[u] \subseteq feed'[u],
           \A i \in Entries : IsQueued(i) => IsQueued(i)' \/ i[1] \in feed'[i[2]]
    PROVE  IntentUntilDelivered'
BY DEF BlogInv, IntentUntilDelivered, Intended, Entries

\* A publisher that stops being in its transaction.
LEMMA DraftsStay ==
    ASSUME BlogInv, UNCHANGED <<lastId, post, receipt>>, NEW p \in Publishers,
           \A q \in Publishers \ {p} : pub'[q] = pub[q],
           pub'[p].at # "saved", pub'[p].at = "afterCommit" => pub'[p].post \in Posts
    PROVE  DraftsInv'
BY DEF BlogInv, DraftsInv, Unreserved

LEMMA WorkersStay ==
    ASSUME BlogInv, UNCHANGED job, \A u \in Users : feed[u] \subseteq feed'[u]
    PROVE  JobsInv'
<1> SUFFICES ASSUME NEW w \in Workers
             PROVE  /\ job[w].at = "idle" <=> job[w].page = <<>>
                    /\ job[w].at = "complete" =>
                         Head(job[w].page)[1] \in feed'[Head(job[w].page)[2]]
    BY DEF JobsInv
<1>1. /\ job[w].at = "idle" <=> job[w].page = <<>>
      /\ job[w].at = "complete" => Head(job[w].page)[1] \in feed[Head(job[w].page)[2]]
    BY DEF BlogInv, JobsInv
<1>2. job[w].page \in Seq(Entries)
    BY DEF BlogInv, BlogTypeInv, JobState
<1>3. job[w].at = "complete" => Head(job[w].page) \in Entries
    BY <1>1, <1>2
<1> QED BY <1>1, <1>3 DEF Entries

LEMMA FeedsGrow ==
    ASSUME BlogTypeInv, NEW b \in Posts, NEW u \in Users, Zadd(b, u) \/ UNCHANGED feed
    PROVE  /\ feed' \in [Users -> SUBSET Posts]
           /\ \A v \in Users : feed[v] \subseteq feed'[v]
           /\ Zadd(b, u) => b \in feed'[u]
BY DEF BlogTypeInv, Zadd
-----------------------------------------------------------------------------
LEMMA SaveKeeps ==
    ASSUME BlogInv, NEW p \in Publishers, NEW k \in Keys \cup {NoKey}, Save(p, k),
           k # NoKey => ~KeyIsHeld(k) /\ Unreserved(k)
    PROVE  BlogInv'
<1>0. BlogTypeInv /\ DraftsInv /\ ReceiptsInv
    BY DEF BlogInv
<1>1. PICK to \in SUBSET Users :
          pub' = [pub EXCEPT ![p] = [at |-> "saved", key |-> k, post |-> lastId + 1, to |-> to]]
    BY DEF Save
<1>2. /\ pub[p].at = "idle" /\ lastId < MaxPosts /\ lastId' = lastId + 1
      /\ UNCHANGED <<post, receipt, answers, outbox, feed, job, faults>>
    BY DEF Save
<1>3. lastId \in Nat /\ lastId + 1 \in Posts /\ lastId + 1 \in 0..MaxPosts
    BY <1>0, <1>2 DEF BlogTypeInv, Posts
<1>4. /\ pub'[p].at = "saved" /\ pub'[p].key = k /\ pub'[p].post = lastId + 1
      /\ \A q \in Publishers \ {p} : pub'[q] = pub[q]
    BY <1>0, <1>1 DEF BlogTypeInv
<1>5. pub' \in [Publishers -> PubState]
    BY <1>0, <1>1, <1>3 DEF BlogTypeInv, PubState
<1>6. BlogTypeInv'
    BY <1>0, <1>2, <1>3, <1>5 DEF BlogTypeInv
<1>7. DraftsInv'
    <2>1. \A b \in Posts : post'[b].live => b <= lastId'
        BY <1>0, <1>2, <1>3 DEF DraftsInv, Posts
    <2>2. ~post[lastId + 1].live
        BY <1>0, <1>3 DEF DraftsInv
    <2>3. \A q \in Publishers :
            /\ pub'[q].at = "saved" => pub'[q].post \in 1..lastId' /\ ~post'[pub'[q].post].live
            /\ pub'[q].at = "saved" /\ pub'[q].key # NoKey => receipt'[pub'[q].key] = 0
            /\ pub'[q].at = "afterCommit" => pub'[q].post \in Posts
        <3> SUFFICES ASSUME NEW q \in Publishers
                     PROVE  /\ pub'[q].at = "saved" =>
                                 pub'[q].post \in 1..lastId' /\ ~post'[pub'[q].post].live
                            /\ pub'[q].at = "saved" /\ pub'[q].key # NoKey =>
                                 receipt'[pub'[q].key] = 0
                            /\ pub'[q].at = "afterCommit" => pub'[q].post \in Posts
            OBVIOUS
        <3>1. CASE q = p
            BY <1>2, <1>3, <1>4, <2>2, <3>1 DEF Unreserved
        <3>2. CASE q # p
            BY <1>0, <1>2, <1>3, <1>4, <3>2 DEF DraftsInv, Unreserved
        <3> QED BY <3>1, <3>2
    <2>4. \A q \in Publishers \ {p} : pub[q].at = "saved" =>
              /\ pub[q].post # lastId + 1
              /\ k # NoKey => pub[q].key # k
        BY <1>0, <1>3 DEF DraftsInv, KeyIsHeld
    <2>5. \A q, r \in Publishers :
              q # r /\ pub'[q].at = "saved" /\ pub'[r].at = "saved" =>
                  /\ pub'[q].post # pub'[r].post
                  /\ pub'[q].key # NoKey => pub'[q].key # pub'[r].key
        <3> SUFFICES ASSUME NEW q \in Publishers, NEW r \in Publishers, q # r,
                            pub'[q].at = "saved", pub'[r].at = "saved"
                     PROVE  /\ pub'[q].post # pub'[r].post
                            /\ pub'[q].key # NoKey => pub'[q].key # pub'[r].key
            OBVIOUS
        <3>1. CASE q = p
            BY <1>4, <2>4, <3>1
        <3>2. CASE r = p
            BY <1>4, <2>4, <3>2
        <3>3. CASE q # p /\ r # p
            BY <1>0, <1>4, <3>3 DEF DraftsInv
        <3> QED BY <3>1, <3>2, <3>3
    <2>6. \A b \in Posts : ~post'[b].live => post'[b].to = {}
        BY <1>0, <1>2 DEF DraftsInv
    <2> QED BY <2>1, <2>3, <2>5, <2>6 DEF DraftsInv, Unreserved
<1>8. ReceiptsInv'
    BY <1>0, <1>2, ReceiptsStay
<1>9. JobsInv' /\ IntentUntilDelivered'
    BY <1>2 DEF BlogInv, JobsInv, IntentUntilDelivered, Intended, IsQueued
<1> QED BY <1>6, <1>7, <1>8, <1>9 DEF BlogInv

\* An answer repeats what the receipt says.
LEMMA ReplayKeeps ==
    ASSUME BlogInv, NEW p \in Publishers, NEW k \in Keys, Replay(p, k)
    PROVE  BlogInv'
<1>0. BlogTypeInv /\ ReceiptsInv
    BY DEF BlogInv
<1>1. /\ receipt[k] # 0 /\ answers' = answers \cup {<<k, receipt[k]>>}
      /\ UNCHANGED <<lastId, post, receipt, outbox, feed, pub, job, faults>>
    BY DEF Replay, Unreserved
<1>2. receipt[k] \in Posts
    BY <1>0, <1>1 DEF BlogTypeInv, Posts
<1>3. BlogTypeInv'
    BY <1>0, <1>1, <1>2 DEF BlogTypeInv
<1>4. ReceiptsInv'
    BY <1>0, <1>1 DEF ReceiptsInv, Keyed
<1>5. DraftsInv' /\ JobsInv' /\ IntentUntilDelivered'
    BY <1>1 DEF BlogInv, DraftsInv, Unreserved, JobsInv, IntentUntilDelivered, Intended, IsQueued
<1> QED BY <1>3, <1>4, <1>5 DEF BlogInv

\* The row, its receipt and its intents become visible at once.
LEMMA PublicationKeeps ==
    ASSUME BlogInv, NEW p \in Publishers, Commit(p)
    PROVE  BlogInv'
<1>0. BlogTypeInv /\ DraftsInv /\ ReceiptsInv
    BY DEF BlogInv
<1>1. PICK b \in Posts, k \in Keys \cup {NoKey}, to \in SUBSET Users :
          b = pub[p].post /\ k = pub[p].key /\ to = pub[p].to
    <2>1. pub[p].at = "saved" /\ pub[p] \in PubState
        BY <1>0 DEF Commit, BlogTypeInv
    <2>2. pub[p].post \in 1..lastId /\ lastId \in 0..MaxPosts
        BY <1>0, <2>1 DEF DraftsInv, BlogTypeInv
    <2>3. pub[p].post \in Posts
        BY <2>2 DEF Posts
    <2> QED BY <2>1, <2>3 DEF PubState
<1>2. /\ pub[p].at = "saved"
      /\ post' = [post EXCEPT ![b] = [live |-> TRUE, key |-> k, to |-> to]]
      /\ receipt' = [j \in Keys |-> IF j = k THEN b ELSE receipt[j]]
      /\ answers' = answers \cup (IF k = NoKey THEN {} ELSE {<<k, b>>})
      /\ UNCHANGED <<lastId, feed, job, faults>>
    BY <1>1 DEF Commit
<1>3. PICK new \in Intents(b, to), i \in 0..Len(outbox) :
          outbox' = SubSeq(outbox, 1, i) \o new \o SubSeq(outbox, i + 1, Len(outbox))
    BY <1>1 DEF Commit
<1>4. PICK batch \in SUBSET to :
          pub' = [pub EXCEPT ![p] = [Resting EXCEPT !.at = "afterCommit", !.post = b, !.to = batch]]
    BY <1>1 DEF Commit
<1>5. new \in Seq(Entries) /\ \A u \in to : \E j \in 1..Len(new) : new[j] = <<b, u>>
    BY IntentsAreAll
<1>6. /\ outbox' \in Seq(Entries)
      /\ \A e : IsQueued(e) => IsQueued(e)'
      /\ \A j \in 1..Len(new) : IsQueued(new[j])'
    BY <1>0, <1>3, <1>5, InsertKeeps
<1>7. /\ b <= lastId /\ ~post[b].live /\ post[b].to = {}
      /\ k # NoKey => receipt[k] = 0
    BY <1>0, <1>1, <1>2 DEF DraftsInv, Unreserved, BlogTypeInv
<1>8. /\ post'[b].live /\ post'[b].key = k /\ post'[b].to = to
      /\ \A c \in Posts \ {b} : post'[c] = post[c]
    BY <1>0, <1>2 DEF BlogTypeInv
<1>9. /\ pub'[p].at = "afterCommit" /\ pub'[p].post = b
      /\ \A q \in Publishers \ {p} : pub'[q] = pub[q]
    BY <1>0, <1>4 DEF BlogTypeInv, Resting
<1>10. BlogTypeInv'
    <2>1. post' \in [Posts -> PostState]
        BY <1>0, <1>2 DEF BlogTypeInv, PostState
    <2>2. receipt' \in [Keys -> 0..MaxPosts]
        BY <1>0, <1>2 DEF BlogTypeInv, Posts
    <2>3. [Resting EXCEPT !.at = "afterCommit", !.post = b, !.to = batch] \in PubState
        <3>1. b \in 0..MaxPosts /\ batch \in SUBSET Users
            BY DEF Posts
        <3> QED BY <3>1 DEF Resting, PubState
    <2>4. pub' \in [Publishers -> PubState]
        BY <1>0, <1>4, <2>3 DEF BlogTypeInv
    <2>5. answers' \subseteq Keys \X Posts
        BY <1>0, <1>2 DEF BlogTypeInv
    <2> QED BY <1>0, <1>2, <1>6, <2>1, <2>2, <2>4, <2>5 DEF BlogTypeInv
<1>11. ASSUME NEW q \in Publishers, q # p, pub[q].at = "saved"
       PROVE  pub[q].post # b /\ (k # NoKey => pub[q].key # k)
    BY <1>0, <1>1, <1>2, <1>11 DEF DraftsInv
<1>12. DraftsInv'
    <2>1. \A c \in Posts : (post'[c].live => c <= lastId') /\ (~post'[c].live => post'[c].to = {})
        BY <1>0, <1>2, <1>7, <1>8 DEF DraftsInv
    <2>2. \A q \in Publishers :
            /\ pub'[q].at = "saved" => pub'[q].post \in 1..lastId' /\ ~post'[pub'[q].post].live
            /\ pub'[q].at = "saved" /\ pub'[q].key # NoKey => receipt'[pub'[q].key] = 0
            /\ pub'[q].at = "afterCommit" => pub'[q].post \in Posts
        <3> SUFFICES ASSUME NEW q \in Publishers
                     PROVE  /\ pub'[q].at = "saved" =>
                                 pub'[q].post \in 1..lastId' /\ ~post'[pub'[q].post].live
                            /\ pub'[q].at = "saved" /\ pub'[q].key # NoKey =>
                                 receipt'[pub'[q].key] = 0
                            /\ pub'[q].at = "afterCommit" => pub'[q].post \in Posts
            OBVIOUS
        <3>1. CASE q = p
            BY <1>9, <3>1
        <3>2. CASE q # p /\ pub[q].at = "saved"
            <4>1. pub[q].post \in 1..lastId /\ ~post[pub[q].post].live /\ pub[q].post # b
                BY <1>0, <1>11, <3>2 DEF DraftsInv
            <4>2. pub[q].post \in Posts
                BY <1>0, <4>1 DEF BlogTypeInv, Posts
            <4>3. pub[q].key # NoKey => pub[q].key \in Keys /\ receipt[pub[q].key] = 0
                BY <1>0, <3>2 DEF DraftsInv, Unreserved, BlogTypeInv, PubState
            <4>4. pub[q].key # NoKey => pub[q].key # k
                BY <1>11, <3>2
            <4> QED BY <1>2, <1>8, <1>9, <3>2, <4>1, <4>2, <4>3, <4>4
        <3>3. CASE q # p /\ pub[q].at # "saved"
            BY <1>0, <1>9, <3>3 DEF DraftsInv
        <3> QED BY <3>1, <3>2, <3>3
    <2>3. \A q, r \in Publishers :
              q # r /\ pub'[q].at = "saved" /\ pub'[r].at = "saved" =>
                  /\ pub'[q].post # pub'[r].post
                  /\ pub'[q].key # NoKey => pub'[q].key # pub'[r].key
        BY <1>0, <1>9 DEF DraftsInv
    <2> QED BY <2>1, <2>2, <2>3 DEF DraftsInv, Unreserved
<1>13. ReceiptsInv'
    <2>1. \A j \in Keys : receipt[j] # b
        BY <1>0, <1>7 DEF ReceiptsInv, Posts
    <2>2. \A j \in Keys : receipt'[j] # 0 => post'[receipt'[j]].live /\ post'[receipt'[j]].key = j
        <3> SUFFICES ASSUME NEW j \in Keys, receipt'[j] # 0
                     PROVE  post'[receipt'[j]].live /\ post'[receipt'[j]].key = j
            OBVIOUS
        <3>1. CASE j = k
            BY <1>2, <1>8, <3>1
        <3>2. CASE j # k
            <4>1. receipt'[j] = receipt[j] /\ receipt[j] \in Posts \ {b}
                BY <1>0, <1>2, <2>1, <3>2 DEF BlogTypeInv, Posts
            <4> QED BY <1>0, <1>8, <4>1 DEF ReceiptsInv, Posts
        <3> QED BY <3>1, <3>2
    <2>3. ASSUME NEW c \in Posts, post'[c].live, post'[c].key # NoKey
          PROVE  receipt'[post'[c].key] = c
        <3>1. CASE c = b
            BY <1>2, <1>8, <2>3, <3>1
        <3>2. CASE c # b
            <4>1. post[c].live /\ post[c].key # NoKey /\ post[c].key \in Keys
                BY <1>0, <1>8, <2>3, <3>2 DEF BlogTypeInv, PostState
            <4>2. receipt[post[c].key] = c /\ c # 0
                BY <1>0, <4>1 DEF ReceiptsInv, Keyed, Posts
            <4>3. post[c].key # k
                BY <1>7, <4>1, <4>2
            <4> QED BY <1>2, <1>8, <3>2, <4>1, <4>2, <4>3
        <3> QED BY <3>1, <3>2
    <2>4. ASSUME NEW a \in answers'
          PROVE  receipt'[a[1]] = a[2]
        <3>1. CASE a \in answers
            <4>1. a[1] \in Keys /\ a[2] \in Posts /\ receipt[a[1]] = a[2]
                BY <1>0, <3>1 DEF ReceiptsInv, BlogTypeInv
            <4>2. a[1] # k
                BY <1>7, <4>1 DEF Posts
            <4> QED BY <1>2, <4>1, <4>2
        <3>2. CASE a \notin answers
            <4>1. k # NoKey /\ a = <<k, b>>
                BY <1>2, <2>4, <3>2
            <4> QED BY <1>2, <4>1
        <3> QED BY <3>1, <3>2
    <2> QED BY <2>2, <2>3, <2>4 DEF ReceiptsInv, Keyed
<1>14. JobsInv'
    BY <1>2 DEF BlogInv, JobsInv
<1>15. IntentUntilDelivered'
    <2> SUFFICES ASSUME NEW e \in Posts \X Users, e[2] \in post'[e[1]].to
                 PROVE  e[1] \in feed'[e[2]] \/ IsQueued(e)'
        BY DEF IntentUntilDelivered, Intended
    <2>1. CASE e[1] = b
        <3>1. PICK j \in 1..Len(new) : new[j] = <<b, e[2]>>
            BY <1>5, <1>8, <2>1
        <3>2. new[j] = e
            BY <2>1, <3>1
        <3> QED BY <1>6, <3>2
    <2>2. CASE e[1] # b
        <3>1. e \in Intended
            BY <1>8, <2>2 DEF Intended
        <3> QED BY <1>2, <1>6, <3>1 DEF BlogInv, IntentUntilDelivered
    <2> QED BY <2>1, <2>2
<1> QED BY <1>10, <1>12, <1>13, <1>14, <1>15 DEF BlogInv

LEMMA BlogRollbackKeeps ==
    ASSUME BlogInv, NEW p \in Publishers, Rollback(p) \/ CallbackDies(p)
    PROVE  BlogInv'
<1>0. BlogTypeInv /\ ReceiptsInv
    BY DEF BlogInv
<1>1. /\ pub' = [pub EXCEPT ![p] = Resting] /\ faults' = faults + 1 /\ faults < MaxFaults
      /\ UNCHANGED <<lastId, post, receipt, answers, outbox, feed, job>>
    BY DEF Rollback, CallbackDies, Disturb, dbVars
<1>2. /\ pub' \in [Publishers -> PubState] /\ pub'[p] = Resting
      /\ \A q \in Publishers \ {p} : pub'[q] = pub[q]
    BY <1>0, <1>1, NoStates DEF BlogTypeInv
<1>3. BlogTypeInv'
    BY <1>0, <1>1, <1>2 DEF BlogTypeInv
<1>4. DraftsInv'
    BY <1>1, <1>2, NoStates, DraftsStay
<1>5. ReceiptsInv'
    BY <1>0, <1>1, ReceiptsStay
<1>6. JobsInv' /\ IntentUntilDelivered'
    BY <1>1 DEF BlogInv, JobsInv, IntentUntilDelivered, Intended, IsQueued
<1> QED BY <1>3, <1>4, <1>5, <1>6 DEF BlogInv

LEMMA FastDeliverKeeps ==
    ASSUME BlogInv, NEW p \in Publishers, FastDeliver(p)
    PROVE  BlogInv'
<1>0. BlogTypeInv /\ DraftsInv /\ ReceiptsInv
    BY DEF BlogInv
<1>1. /\ pub[p].at = "afterCommit" /\ pub[p].post \in Posts
      /\ UNCHANGED <<lastId, post, receipt, answers, outbox, job>>
    BY <1>0 DEF FastDeliver, dbVars, DraftsInv
<1>2. faults' \in 0..MaxFaults
    BY <1>0 DEF FastDeliver, Disturb, BlogTypeInv
<1>3. /\ feed' \in [Users -> SUBSET Posts]
      /\ \A u \in Users : feed[u] \subseteq feed'[u]
    <2>1. CASE UNCHANGED feed
        BY <1>0, <2>1 DEF BlogTypeInv
    <2>2. ASSUME NEW u \in pub[p].to, Zadd(pub[p].post, u)
          PROVE  /\ feed' \in [Users -> SUBSET Posts]
                 /\ \A v \in Users : feed[v] \subseteq feed'[v]
        <3>1. u \in Users
            BY <1>0 DEF BlogTypeInv, PubState
        <3> QED BY <1>0, <1>1, <2>2, <3>1, FeedsGrow
    <2> QED BY <2>1, <2>2 DEF FastDeliver
<1>4. /\ pub' \in [Publishers -> PubState]
      /\ \A q \in Publishers \ {p} : pub'[q] = pub[q]
      /\ pub'[p].at # "saved" /\ (pub'[p].at = "afterCommit" => pub'[p].post \in Posts)
    <2>1. CASE pub' = [pub EXCEPT ![p] = Resting]
        BY <1>0, <2>1, NoStates DEF BlogTypeInv
    <2>2. ASSUME NEW u \in pub[p].to, pub' = [pub EXCEPT ![p].to = @ \ {u}]
          PROVE  /\ pub' \in [Publishers -> PubState]
                 /\ \A q \in Publishers \ {p} : pub'[q] = pub[q]
                 /\ pub'[p].at # "saved"
                 /\ pub'[p].at = "afterCommit" => pub'[p].post \in Posts
        BY <1>0, <1>1, <2>2 DEF BlogTypeInv, PubState
    <2> QED BY <2>1, <2>2 DEF FastDeliver
<1>5. BlogTypeInv'
    BY <1>0, <1>1, <1>2, <1>3, <1>4 DEF BlogTypeInv
<1>6. DraftsInv'
    BY <1>1, <1>4, DraftsStay
<1>7. ReceiptsInv'
    BY <1>0, <1>1, ReceiptsStay
<1>8. JobsInv'
    BY <1>1, <1>3, WorkersStay
<1>9. IntentUntilDelivered'
    <2>1. \A i \in Entries : IsQueued(i) => IsQueued(i)'
        BY <1>1 DEF IsQueued
    <2> QED BY <1>1, <1>3, <2>1, IntentsStay
<1> QED BY <1>5, <1>6, <1>7, <1>8, <1>9 DEF BlogInv
-----------------------------------------------------------------------------
\* What there is to show of a step of a worker.
LEMMA WorkersKeep ==
    ASSUME BlogInv, NEW w \in Workers, UNCHANGED <<dbVars, pub>>,
           \A v \in Workers \ {w} : job'[v] = job[v],
           job' \in [Workers -> JobState],
           job'[w].at = "idle" <=> job'[w].page = <<>>,
           job'[w].at = "complete" => Head(job'[w].page)[1] \in feed'[Head(job'[w].page)[2]],
           feed' \in [Users -> SUBSET Posts], \A u \in Users : feed[u] \subseteq feed'[u],
           outbox' \in Seq(Entries), faults' \in 0..MaxFaults,
           \A i \in Entries : IsQueued(i) => IsQueued(i)' \/ i[1] \in feed'[i[2]]
    PROVE  BlogInv'
<1>0. /\ BlogTypeInv /\ DraftsInv /\ ReceiptsInv
      /\ UNCHANGED <<lastId, post, receipt, answers, pub>>
    BY DEF BlogInv, dbVars
<1>1. BlogTypeInv'
    BY <1>0 DEF BlogTypeInv
<1>2. DraftsInv'
    BY <1>0 DEF DraftsInv, Unreserved
<1>3. ReceiptsInv'
    BY <1>0, ReceiptsStay
<1>4. JobsInv'
    <2> SUFFICES ASSUME NEW v \in Workers
                 PROVE  /\ job'[v].at = "idle" <=> job'[v].page = <<>>
                        /\ job'[v].at = "complete" =>
                             Head(job'[v].page)[1] \in feed'[Head(job'[v].page)[2]]
        BY DEF JobsInv
    <2>1. CASE v = w
        BY <2>1
    <2>2. CASE v # w
        <3>1. /\ job[v].at = "idle" <=> job[v].page = <<>>
              /\ job[v].at = "complete" => Head(job[v].page)[1] \in feed[Head(job[v].page)[2]]
            BY DEF BlogInv, JobsInv
        <3>2. job[v].page \in Seq(Entries)
            BY <1>0 DEF BlogTypeInv, JobState
        <3>3. job[v].at = "complete" => Head(job[v].page) \in Entries
            BY <3>1, <3>2
        <3> QED BY <2>2, <3>1, <3>3 DEF Entries
    <2> QED BY <2>1, <2>2
<1>5. IntentUntilDelivered'
    BY <1>0, IntentsStay
<1> QED BY <1>1, <1>2, <1>3, <1>4, <1>5 DEF BlogInv

LEMMA PageInHand ==
    ASSUME BlogInv, NEW w \in Workers, job[w].at # "idle"
    PROVE  /\ job[w].page \in Seq(Entries) /\ job[w].page # <<>>
           /\ Head(job[w].page) \in Entries
           /\ Head(job[w].page)[1] \in Posts /\ Head(job[w].page)[2] \in Users
<1>1. job[w].page \in Seq(Entries) /\ job[w].page # <<>>
    BY DEF BlogInv, BlogTypeInv, JobState, JobsInv
<1>2. Head(job[w].page) \in Entries
    BY <1>1
<1> QED BY <1>1, <1>2 DEF Entries

\* On to the next entry, or to rest.
LEMMA NextEntryKeeps ==
    ASSUME BlogInv, NEW w \in Workers, job[w].at # "idle",
           NextEntry(w) \/ job' = [job EXCEPT ![w] = NoJob]
    PROVE  /\ job' \in [Workers -> JobState] /\ \A v \in Workers \ {w} : job'[v] = job[v]
           /\ job'[w].at = "idle" <=> job'[w].page = <<>>
           /\ job'[w].at # "complete"
<1>0. BlogTypeInv
    BY DEF BlogInv
<1>1. CASE job' = [job EXCEPT ![w] = NoJob]
    BY <1>0, <1>1, NoStates DEF BlogTypeInv
<1>2. CASE /\ Len(job[w].page) # 1
           /\ job' = [job EXCEPT ![w] = [at |-> "deliver", page |-> Tail(job[w].page)]]
    <2>1. job[w].page \in Seq(Entries) /\ job[w].page # <<>>
        BY PageInHand
    <2>2. Tail(job[w].page) \in Seq(Entries) /\ Tail(job[w].page) # <<>>
        <3>1. Tail(job[w].page) \in Seq(Entries) /\ Len(Tail(job[w].page)) = Len(job[w].page) - 1
            BY <2>1, HeadTailProperties
        <3>2. Len(job[w].page) \in Nat /\ Len(job[w].page) # 0
            BY <2>1
        <3> DEFINE rest == Tail(job[w].page)
        <3>3. rest \in Seq(Entries) /\ Len(rest) # 0
            BY <1>2, <3>1, <3>2
        <3> HIDE DEF rest
        <3>4. rest # <<>>
            BY <3>3
        <3> QED BY <3>3, <3>4 DEF rest
    <2>3. [at |-> "deliver", page |-> Tail(job[w].page)] \in JobState
        BY <2>2 DEF JobState
    <2> QED BY <1>0, <1>2, <2>2, <2>3 DEF BlogTypeInv
<1> QED BY <1>1, <1>2 DEF NextEntry

LEMMA PollKeeps ==
    ASSUME BlogInv, NEW w \in Workers, Poll(w)
    PROVE  BlogInv'
<1> DEFINE n == IF Len(outbox) < PollLimit THEN Len(outbox) ELSE PollLimit
           page == SubSeq(outbox, 1, n)
<1>0. BlogTypeInv
    BY DEF BlogInv
<1>1. /\ job' = [job EXCEPT ![w] = [at |-> "deliver", page |-> page]] /\ outbox # <<>>
      /\ UNCHANGED <<dbVars, outbox, feed, pub, faults>>
    BY DEF Poll
<1>2. outbox \in Seq(Entries) /\ Len(outbox) \in Nat /\ Len(outbox) # 0
    BY <1>0, <1>1 DEF BlogTypeInv
<1>3. n \in 1..Len(outbox)
    BY <1>2
<1> HIDE DEF n
<1>4. page \in Seq(Entries) /\ Len(page) = n
    BY <1>2, <1>3
<1>5. page # <<>>
    <2> HIDE DEF page
    <2> QED BY <1>3, <1>4
<1> HIDE DEF page
<1>6. [at |-> "deliver", page |-> page] \in JobState
    BY <1>4 DEF JobState
<1>7. /\ job' \in [Workers -> JobState] /\ \A v \in Workers \ {w} : job'[v] = job[v]
      /\ job'[w].at = "deliver" /\ job'[w].page = page
    BY <1>0, <1>1, <1>6 DEF BlogTypeInv
<1>8. /\ feed' \in [Users -> SUBSET Posts] /\ \A u \in Users : feed[u] \subseteq feed'[u]
      /\ outbox' \in Seq(Entries) /\ faults' \in 0..MaxFaults
      /\ \A i \in Entries : IsQueued(i) => IsQueued(i)'
    BY <1>0, <1>1 DEF BlogTypeInv, IsQueued
<1> QED BY <1>1, <1>5, <1>7, <1>8, WorkersKeep

LEMMA DeliverKeeps ==
    ASSUME BlogInv, NEW w \in Workers, Deliver(w)
    PROVE  BlogInv'
<1> DEFINE e == Head(job[w].page)
<1>0. BlogTypeInv
    BY DEF BlogInv
<1>1. job[w].at = "deliver" /\ UNCHANGED <<dbVars, pub>>
    BY DEF Deliver
<1>2. e \in Entries /\ e[1] \in Posts /\ e[2] \in Users
    BY <1>1, PageInHand
<1>3. faults' \in 0..MaxFaults
    BY <1>0 DEF Deliver, Disturb, BlogTypeInv
<1>4. Zadd(e[1], e[2]) \/ UNCHANGED feed
    BY DEF Deliver
<1>5. /\ feed' \in [Users -> SUBSET Posts] /\ \A u \in Users : feed[u] \subseteq feed'[u]
      /\ Zadd(e[1], e[2]) => e[1] \in feed'[e[2]]
    BY <1>0, <1>2, <1>4, FeedsGrow
<1>6. Postpone(e) \/ UNCHANGED outbox
    BY DEF Deliver
<1>7. outbox' \in Seq(Entries) /\ \A i : IsQueued(i) => IsQueued(i)'
    BY <1>0, <1>2, <1>6, PostponeKeeps
<1>8. CASE Zadd(e[1], e[2]) /\ job' = [job EXCEPT ![w].at = "complete"]
    <2>1. /\ job' \in [Workers -> JobState] /\ \A v \in Workers \ {w} : job'[v] = job[v]
          /\ job'[w].at = "complete" /\ job'[w].page = job[w].page
        BY <1>0, <1>8 DEF BlogTypeInv, JobState
    <2>2. job'[w].page # <<>>
        BY <1>1, <2>1, PageInHand
    <2> QED BY <1>1, <1>3, <1>5, <1>7, <1>8, <2>1, <2>2, WorkersKeep
<1>9. CASE NextEntry(w)
    BY <1>1, <1>3, <1>5, <1>7, <1>9, NextEntryKeeps, WorkersKeep
<1> QED BY <1>8, <1>9 DEF Deliver

\* The row that is deleted is in the feed it was for.
LEMMA CompleteKeeps ==
    ASSUME BlogInv, NEW w \in Workers, Complete(w)
    PROVE  BlogInv'
<1> DEFINE e == Head(job[w].page)
<1>0. BlogTypeInv
    BY DEF BlogInv
<1>1. job[w].at = "complete" /\ NextEntry(w) /\ UNCHANGED <<dbVars, feed, pub>>
    BY DEF Complete
<1>2. e[1] \in feed[e[2]]
    BY <1>1 DEF BlogInv, JobsInv
<1>3. faults' \in 0..MaxFaults
    BY <1>0 DEF Complete, Disturb, BlogTypeInv
<1>4. /\ feed' \in [Users -> SUBSET Posts] /\ \A u \in Users : feed[u] \subseteq feed'[u]
    BY <1>0, <1>1 DEF BlogTypeInv
<1>5. outbox' \in Seq(Entries) /\ \A i \in Entries : IsQueued(i) => IsQueued(i)' \/ i = e
    <2>1. CASE UNCHANGED outbox
        BY <1>0, <2>1 DEF BlogTypeInv, IsQueued
    <2>2. CASE outbox' = Without(e)
        <3>1. /\ Without(e) \in Seq(Entries)
              /\ \A i \in DOMAIN outbox : outbox[i] # e =>
                   \E k \in 1..Len(Without(e)) : Without(e)[k] = outbox[i]
            BY <1>0, WithoutKeeps
        <3>2. DOMAIN outbox' = 1..Len(outbox')
            BY <2>2, <3>1
        <3> QED BY <2>2, <3>1, <3>2 DEF IsQueued
    <2> QED BY <2>1, <2>2 DEF Complete
<1> QED BY <1>1, <1>2, <1>3, <1>4, <1>5, NextEntryKeeps, WorkersKeep

LEMMA WorkerDiesKeeps ==
    ASSUME BlogInv, NEW w \in Workers, WorkerDies(w)
    PROVE  BlogInv'
<1>0. BlogTypeInv
    BY DEF BlogInv
<1>1. /\ job[w].at # "idle" /\ job' = [job EXCEPT ![w] = NoJob]
      /\ UNCHANGED <<dbVars, outbox, feed, pub>>
    BY DEF WorkerDies
<1>2. /\ feed' \in [Users -> SUBSET Posts] /\ \A u \in Users : feed[u] \subseteq feed'[u]
      /\ outbox' \in Seq(Entries) /\ faults' \in 0..MaxFaults
      /\ \A i \in Entries : IsQueued(i) => IsQueued(i)'
    BY <1>0, <1>1 DEF WorkerDies, Disturb, BlogTypeInv, IsQueued
<1> QED BY <1>1, <1>2, NextEntryKeeps, WorkersKeep
-----------------------------------------------------------------------------
LEMMA BlogNextInv == BlogInv /\ [Next]_vars => BlogInv'
<1> SUFFICES ASSUME BlogInv, [Next]_vars PROVE BlogInv'
    OBVIOUS
<1>1. ASSUME NEW p \in Publishers, PublisherStep(p) PROVE BlogInv'
    <2>1. ASSUME NEW k \in Keys, PublishOnce(p, k) PROVE BlogInv'
        BY <2>1, SaveKeeps DEF PublishOnce
    <2>2. ASSUME NEW k \in Keys, Replay(p, k) PROVE BlogInv'
        BY <2>2, ReplayKeeps
    <2>3. CASE PublishUnkeyed(p)
        BY <2>3, SaveKeeps DEF PublishUnkeyed
    <2>4. CASE Commit(p)
        BY <2>4, PublicationKeeps
    <2>5. CASE Rollback(p) \/ CallbackDies(p)
        BY <2>5, BlogRollbackKeeps
    <2>6. CASE FastDeliver(p)
        BY <2>6, FastDeliverKeeps
    <2> QED BY <1>1, <2>1, <2>2, <2>3, <2>4, <2>5, <2>6 DEF PublisherStep
<1>2. ASSUME NEW w \in Workers, WorkerStep(w) \/ WorkerDies(w) PROVE BlogInv'
    BY <1>2, PollKeeps, DeliverKeeps, CompleteKeeps, WorkerDiesKeeps DEF WorkerStep
<1>3. CASE UNCHANGED vars
    BY <1>3 DEF BlogInv, BlogTypeInv, DraftsInv, Unreserved, ReceiptsInv, Keyed, JobsInv,
                IntentUntilDelivered, Intended, IsQueued, vars, dbVars
<1> QED BY <1>1, <1>2, <1>3 DEF Next

\* The inductive invariant of publication and delivery: BlogPublicationService, saveBlog and
\* BlogFeedDeliveryService keep the drafts, receipts, outbox and feeds above.
THEOREM BlogInvariant == Spec => []BlogInv
BY BlogInitInv, BlogNextInv, PTL DEF Spec

\* A key publishes one post and is always answered it, and a recipient's intent stays in the
\* outbox until the post is in the feed: what publish commits is one piece.
THEOREM PublicationInOnePiece == Spec => []PublicationIsOnePiece
<1>1. BlogInv => PublicationIsOnePiece
    <2> SUFFICES ASSUME BlogInv PROVE PublicationIsOnePiece
        OBVIOUS
    <2>1. TypeOK
        BY DEF BlogInv, BlogTypeInv, TypeOK, PostState, PubState, JobState, JobsInv, Entries
    <2>2. KeyPublishesOnce
        BY DEF BlogInv, ReceiptsInv, KeyPublishesOnce
    <2> QED BY <2>1, <2>2 DEF BlogInv, PublicationIsOnePiece
<1> QED BY <1>1, BlogInvariant, PTL
-----------------------------------------------------------------------------
Ahead(p, q) == AheadIn(scoreOf, p, q)
Ranked(max) == RankedIn(scoreOf, max)

\* The posts a page starting at max may list, those of them before p, and their number.
Below(max) == {p \in InFeed : scoreOf[p] <= max}
Preceding(max, p) == {q \in Below(max) : Ahead(q, p)}
Rank(max, p) == Cardinality(Preceding(max, p))
Scored(score) == {p \in InFeed : scoreOf[p] = score}

FeedOK == scoreOf \in [FeedPosts -> 0..MaxScore] /\ IsFiniteSet(InFeed)

\* A feed is strictly and totally ordered by score and member.
LEMMA FeedIsOrdered ==
    ASSUME FeedOK
    PROVE  /\ \A p \in InFeed : p \in Nat /\ scoreOf[p] \in 1..MaxScore
           /\ \A p, q \in InFeed : p # q => Ahead(p, q) \/ Ahead(q, p)
           /\ \A p, q, t \in InFeed : Ahead(p, q) /\ Ahead(q, t) => Ahead(p, t)
           /\ \A p, q \in InFeed : Ahead(p, q) => scoreOf[p] >= scoreOf[q] /\ ~Ahead(q, p)
<1>1. \A p \in InFeed : p \in Nat /\ scoreOf[p] \in 1..MaxScore
    BY FeedPagesAssumption DEF FeedOK, InFeed, NotThere
<1> QED BY <1>1, FeedPagesAssumption DEF Ahead, AheadIn

\* What is before a post of the list is finite and does not hold the post.
LEMMA FrontsAreFinite ==
    ASSUME FeedOK, NEW m \in Int
    PROVE  /\ Below(m) \in SUBSET InFeed /\ IsFiniteSet(Below(m)) /\ Cardinality(Below(m)) \in Nat
           /\ \A p \in InFeed : /\ Preceding(m, p) \in SUBSET Below(m) /\ IsFiniteSet(Preceding(m, p))
                                /\ Rank(m, p) \in Nat /\ p \notin Preceding(m, p)
<1>1. Below(m) \in SUBSET InFeed /\ IsFiniteSet(Below(m)) /\ Cardinality(Below(m)) \in Nat
    <2>1. Below(m) \in SUBSET InFeed
        BY DEF Below
    <2>2. IsFiniteSet(Below(m))
        BY <2>1, FS_Subset DEF FeedOK
    <2> QED BY <2>1, <2>2, FS_CardinalityType
<1>2. ASSUME NEW p \in InFeed
      PROVE  /\ Preceding(m, p) \in SUBSET Below(m) /\ IsFiniteSet(Preceding(m, p))
             /\ Rank(m, p) \in Nat /\ p \notin Preceding(m, p)
    <2>1. Preceding(m, p) \in SUBSET Below(m)
        BY DEF Preceding
    <2>2. IsFiniteSet(Preceding(m, p))
        BY <1>1, <2>1, FS_Subset
    <2>3. p \notin Preceding(m, p)
        BY FeedIsOrdered DEF Preceding
    <2> QED BY <2>1, <2>2, <2>3, FS_CardinalityType DEF Rank
<1> QED BY <1>1, <1>2

\* A smaller finite set has fewer members.
LEMMA ProperSubset ==
    ASSUME NEW S, NEW T \in SUBSET S, IsFiniteSet(S), T # S
    PROVE  /\ Cardinality(T) \in Nat /\ Cardinality(S) \in Nat
           /\ Cardinality(T) < Cardinality(S)
<1>1. IsFiniteSet(T) /\ Cardinality(T) <= Cardinality(S) /\ Cardinality(T) # Cardinality(S)
    BY FS_Subset
<1>2. Cardinality(T) \in Nat /\ Cardinality(S) \in Nat
    BY <1>1, FS_CardinalityType
<1> QED BY <1>1, <1>2

\* Ranks are ordered as the posts are, and so no two posts have the same.
LEMMA RanksAreOrdered ==
    ASSUME FeedOK, NEW m \in Int
    PROVE  /\ \A p, q \in Below(m) : Ahead(p, q) <=> Rank(m, p) < Rank(m, q)
           /\ \A p, q \in Below(m) : Rank(m, p) = Rank(m, q) => p = q
           /\ \A p \in Below(m) : Rank(m, p) < Cardinality(Below(m))
<1>0. \A p \in Below(m) : p \in InFeed
    BY DEF Below
<1>1. ASSUME NEW p \in Below(m), NEW q \in Below(m), Ahead(p, q)
      PROVE  Rank(m, p) < Rank(m, q)
    <2>1. Preceding(m, p) \in SUBSET Preceding(m, q)
        BY <1>0, <1>1, FeedIsOrdered DEF Preceding
    <2>2. p \in Preceding(m, q) /\ p \notin Preceding(m, p)
        BY <1>0, <1>1, FrontsAreFinite DEF Preceding
    <2>3. IsFiniteSet(Preceding(m, q))
        BY <1>0, FrontsAreFinite
    <2> QED BY <2>1, <2>2, <2>3, ProperSubset DEF Rank
<1>2. ASSUME NEW p \in Below(m) PROVE Rank(m, p) < Cardinality(Below(m))
    <2>1. Preceding(m, p) \in SUBSET Below(m) /\ Preceding(m, p) # Below(m)
        BY <1>0, FrontsAreFinite
    <2> QED BY <2>1, FrontsAreFinite, ProperSubset DEF Rank
<1>3. \A p \in Below(m) : Rank(m, p) \in Nat
    BY <1>0, FrontsAreFinite
<1>4. \A p, q \in Below(m) : p = q \/ Ahead(p, q) \/ Ahead(q, p)
    BY <1>0, FeedIsOrdered
<1> QED BY <1>1, <1>2, <1>3, <1>4

\* The list of the posts up to a score: every rank below its length is taken once.
LEMMA RankedIsTheList ==
    ASSUME FeedOK, NEW m \in Int
    PROVE  LET n == Cardinality(Below(m))
           IN  /\ Len(Ranked(m)) = n
               /\ \A i \in 1..n : Ranked(m)[i] \in Below(m) /\ Rank(m, Ranked(m)[i]) = i - 1
<1> DEFINE n == Cardinality(Below(m))
           rank == [p \in Below(m) |-> Rank(m, p)]
<1>1. n \in Nat /\ IsFiniteSet(Below(m)) /\ \A p \in Below(m) : p \in InFeed
    BY FrontsAreFinite DEF Below
<1>2. \A p \in Below(m) : Rank(m, p) \in 0..(n - 1)
    BY <1>1, FrontsAreFinite, RanksAreOrdered
<1>3. rank \in Injection(Below(m), 0..(n - 1))
    <2>1. rank \in [Below(m) -> 0..(n - 1)]
        BY <1>2
    <2>2. \A p, q \in Below(m) : rank[p] = rank[q] => p = q
        BY RanksAreOrdered
    <2> QED BY <2>1, <2>2 DEF Injection, IsInjective
<1>4. IsFiniteSet(0..(n - 1)) /\ Cardinality(0..(n - 1)) = n
    <2>1. 0 \in Int /\ n - 1 \in Int /\ (n = 0 => 0 > n - 1) /\ (n # 0 => ~ 0 > n - 1)
        BY <1>1
    <2>2. /\ IsFiniteSet(0..(n - 1))
          /\ Cardinality(0..(n - 1)) = IF 0 > n - 1 THEN 0 ELSE (n - 1) - 0 + 1
        BY <2>1, FS_Interval
    <2> QED BY <1>1, <2>1, <2>2
<1>5. rank \in Surjection(Below(m), 0..(n - 1))
    <2> HIDE DEF rank
    <2> QED BY <1>3, <1>4, FS_Injection
<1>6. \A i \in 1..n : \E p \in Below(m) : Rank(m, p) = i - 1
    <2> SUFFICES ASSUME NEW i \in 1..n PROVE \E p \in Below(m) : Rank(m, p) = i - 1
        OBVIOUS
    <2>1. i - 1 \in 0..(n - 1)
        BY <1>1
    <2>2. \A k \in 0..(n - 1) : \E p \in Below(m) : rank[p] = k
        <3> HIDE DEF rank
        <3> QED BY <1>5 DEF Surjection
    <2> QED BY <2>1, <2>2
<1>7. Ranked(m) = [i \in 1..n |-> CHOOSE p \in Below(m) : Rank(m, p) = i - 1]
    <2>1. Below(m) = {p \in DOMAIN scoreOf : scoreOf[p] # NotThere /\ scoreOf[p] <= m}
        BY DEF Below, InFeed, FeedOK
    <2> QED BY <2>1 DEF Ranked, RankedIn, Ahead, AheadIn, Preceding, Rank
<1>8. Len(Ranked(m)) = n
    BY <1>1, <1>7
<1>9. \A i \in 1..n : Ranked(m)[i] \in Below(m) /\ Rank(m, Ranked(m)[i]) = i - 1
    BY <1>6, <1>7
<1> QED BY <1>8, <1>9

\* Where a page that skips offset posts ends in the list.
PageEnd(max, offset) ==
    LET n == Cardinality(Below(max))
    IN  IF n < offset + PageSize THEN n ELSE offset + PageSize

\* A page is the posts whose ranks are between its offset and its end.
LEMMA PageIsARange ==
    ASSUME FeedOK, NEW m \in Int, NEW o \in Nat
    PROVE  LET n == Cardinality(Below(m))
               e == PageEnd(m, o)
           IN  /\ Found(m, o) = <<>> <=> n <= o
               /\ o < n => /\ e \in Nat /\ o < e /\ e <= n
                           /\ Len(Found(m, o)) = e - o
                           /\ DOMAIN Found(m, o) = 1..(e - o)
                           /\ \A i \in 1..(e - o) : /\ Found(m, o)[i] \in Below(m)
                                                    /\ Rank(m, Found(m, o)[i]) = o + i - 1
                           /\ ToSet(Found(m, o)) = {p \in Below(m) : Rank(m, p) \in o..(e - 1)}
                           /\ Last(Found(m, o)) \in Below(m)
                           /\ Rank(m, Last(Found(m, o))) = e - 1
<1> DEFINE n == Cardinality(Below(m))
           e == PageEnd(m, o)
           s == Ranked(m)
           f == Found(m, o)
<1>1. n \in Nat /\ PageSize \in Nat \ {0}
    BY FrontsAreFinite, FeedPagesAssumption
<1>2. Len(s) = n /\ \A i \in 1..n : s[i] \in Below(m) /\ Rank(m, s[i]) = i - 1
    BY RankedIsTheList
<1>3. f = SubSeq(s, o + 1, e)
    BY <1>2 DEF Found, FoundIn, Ranked, PageEnd
<1>4. e \in Nat /\ e <= n /\ (o < n => o < e) /\ (n <= o => e < o + 1)
    BY <1>1 DEF PageEnd
<1> HIDE DEF n, e, s, f
<1>5. CASE n <= o
    BY <1>1, <1>3, <1>4, <1>5, SubSeqEmpty DEF n, e, f
<1>6. CASE o < n
    <2>1. o + 1 \in Int /\ e \in Int /\ o + 1 <= e /\ e - (o + 1) + 1 = e - o
        BY <1>4, <1>6
    <2>2. \A i \in (o + 1)..e : s[i] \in Below(m)
        BY <1>1, <1>2, <1>4
    <2>3. f \in Seq(Below(m)) /\ Len(f) = e - o /\ \A i \in 1..(e - o) : f[i] = s[o + 1 + i - 1]
        BY <1>3, <2>1, <2>2, SubSeqProperties
    <2>4. DOMAIN f = 1..(e - o)
        BY <2>3
    <2>5. \A i \in 1..(e - o) : f[i] \in Below(m) /\ Rank(m, f[i]) = o + i - 1
        <3> SUFFICES ASSUME NEW i \in 1..(e - o)
                     PROVE  f[i] \in Below(m) /\ Rank(m, f[i]) = o + i - 1
            OBVIOUS
        <3>1. o + 1 + i - 1 = o + i /\ o + i \in 1..n
            BY <1>1, <1>4
        <3> QED BY <1>2, <2>3, <3>1
    <2>6. Last(f) = f[e - o] /\ e - o \in 1..(e - o) /\ o + (e - o) - 1 = e - 1
        BY <1>4, <1>6, <2>3 DEF Last
    <2>7. Last(f) \in Below(m) /\ Rank(m, Last(f)) = e - 1
        BY <2>5, <2>6
    <2>8. ToSet(f) = {p \in Below(m) : Rank(m, p) \in o..(e - 1)}
        <3>1. ASSUME NEW p \in ToSet(f) PROVE p \in Below(m) /\ Rank(m, p) \in o..(e - 1)
            <4>1. PICK i \in 1..(e - o) : p = f[i]
                BY <2>4, <3>1 DEF ToSet
            <4>2. o + i - 1 \in o..(e - 1)
                BY <1>4
            <4> QED BY <2>5, <4>1, <4>2
        <3>2. ASSUME NEW p \in Below(m), Rank(m, p) \in o..(e - 1) PROVE p \in ToSet(f)
            <4> DEFINE i == Rank(m, p) - o + 1
            <4>1. i \in 1..(e - o) /\ o + i - 1 = Rank(m, p)
                BY <1>4, <3>2
            <4>2. f[i] \in Below(m) /\ Rank(m, f[i]) = Rank(m, p)
                BY <2>5, <4>1
            <4>3. f[i] = p
                BY <3>2, <4>2, RanksAreOrdered
            <4> QED BY <2>4, <4>1, <4>3 DEF ToSet
        <3> QED BY <3>1, <3>2
    <2>9. f # <<>>
        BY <1>4, <1>6, <2>3
    <2> QED BY <1>4, <1>6, <2>3, <2>4, <2>5, <2>7, <2>8, <2>9, <1>1 DEF n, e, f
<1> QED BY <1>1, <1>5, <1>6

\* A list that starts at a lower score is the longer one without its first posts.
LEMMA LowerLists ==
    ASSUME FeedOK, NEW m \in Int, NEW k \in Int, k <= m
    PROVE  LET D == Below(m) \ Below(k)
           IN  /\ Cardinality(D) \in Nat /\ IsFiniteSet(D)
               /\ \A p \in Below(k) : p \in Below(m) /\ Rank(m, p) = Rank(k, p) + Cardinality(D)
               /\ \A p \in D : Rank(m, p) < Cardinality(D)
               /\ k < m => Cardinality(Scored(m)) <= Cardinality(D)
<1> DEFINE D == Below(m) \ Below(k)
<1>1. \A p \in InFeed : scoreOf[p] \in Int
    BY FeedIsOrdered
<1>2. D \in SUBSET Below(m) /\ IsFiniteSet(D) /\ Cardinality(D) \in Nat
    BY FrontsAreFinite, FS_Subset, FS_CardinalityType
<1>3. \A p \in D : p \in InFeed /\ scoreOf[p] > k /\ scoreOf[p] <= m
    BY <1>1 DEF Below
<1>4. ASSUME NEW p \in Below(k)
      PROVE  p \in Below(m) /\ Rank(m, p) = Rank(k, p) + Cardinality(D)
    <2>1. p \in InFeed /\ scoreOf[p] <= k /\ p \in Below(m)
        BY <1>1 DEF Below
    <2>2. Preceding(m, p) = Preceding(k, p) \cup D
        <3>1. \A q \in D : Ahead(q, p)
            BY <1>1, <1>3, <2>1 DEF Ahead, AheadIn
        <3>2. \A q \in Below(k) : q \in Below(m)
            BY <1>1 DEF Below
        <3> QED BY <3>1, <3>2 DEF Preceding
    <2>3. Preceding(k, p) \cap D = {}
        BY DEF Preceding
    <2>4. IsFiniteSet(Preceding(k, p)) /\ Cardinality(Preceding(k, p)) \in Nat
        BY <2>1, FrontsAreFinite DEF Rank
    <2>5. Cardinality(Preceding(k, p) \cup D) =
            Cardinality(Preceding(k, p)) + Cardinality(D) - Cardinality(Preceding(k, p) \cap D)
        BY <1>2, <2>4, FS_Union
    <2>6. Cardinality(Preceding(k, p) \cap D) = 0
        BY <2>3, FS_EmptySet
    <2> QED BY <1>2, <2>1, <2>2, <2>4, <2>5, <2>6 DEF Rank
<1>5. ASSUME NEW p \in D PROVE Rank(m, p) < Cardinality(D)
    <2>1. Preceding(m, p) \in SUBSET D
        <3>1. \A q \in Preceding(m, p) : q \in Below(m) /\ q \in InFeed /\ scoreOf[q] >= scoreOf[p]
            BY <1>3, FeedIsOrdered DEF Preceding, Below
        <3> QED BY <1>1, <1>3, <3>1 DEF Below
    <2>2. Preceding(m, p) # D
        BY <1>3, FrontsAreFinite
    <2> QED BY <1>2, <2>1, <2>2, ProperSubset DEF Rank
<1>6. k < m => Cardinality(Scored(m)) <= Cardinality(D)
    <2>1. k < m => Scored(m) \in SUBSET D
        BY <1>1 DEF Scored, Below
    <2> QED BY <1>2, <2>1, FS_Subset
<1> QED BY <1>2, <1>4, <1>5, <1>6

\* The next page starts where this one ended: its offset is the number of posts of the last
\* score before the end, no matter on how many pages they were.
LEMMA NextPageStarts ==
    ASSUME FeedOK, NEW m \in Int, NEW o \in Nat,
           o < Cardinality(Below(m)), o <= Cardinality(Scored(m)),
           NEW k, k = scoreOf[Last(Found(m, o))]
    PROVE  LET D == Below(m) \ Below(k)
           IN  /\ k \in 1..MaxScore /\ k <= m
               /\ NextOffset(Found(m, o), m, o) = PageEnd(m, o) - Cardinality(D)
               /\ NextOffset(Found(m, o), m, o) \in Nat
               /\ NextOffset(Found(m, o), m, o) <= Cardinality(Scored(k))
<1> DEFINE f == Found(m, o)
           e == PageEnd(m, o)
           last == Last(f)
           D == Below(m) \ Below(k)
           d == Cardinality(D)
<1>1. /\ e \in Nat /\ o < e /\ DOMAIN f = 1..(e - o)
      /\ \A i \in 1..(e - o) : f[i] \in Below(m) /\ Rank(m, f[i]) = o + i - 1
      /\ last \in Below(m) /\ Rank(m, last) = e - 1
    BY PageIsARange
<1> HIDE DEF f, e
<1>2. /\ \A p \in Below(m) : p \in InFeed /\ scoreOf[p] <= m
      /\ \A p \in InFeed : scoreOf[p] \in Int
    BY FeedIsOrdered DEF Below
<1>3. k \in 1..MaxScore /\ k \in Int /\ k <= m /\ last \in Below(k) /\ k = scoreOf[last]
    BY <1>1, <1>2, FeedIsOrdered DEF Below, f
<1>4. /\ d \in Nat /\ IsFiniteSet(D)
      /\ \A p \in Below(k) : Rank(m, p) = Rank(k, p) + d
      /\ \A p \in D : Rank(m, p) < d
      /\ k < m => Cardinality(Scored(m)) <= d
    BY <1>3, LowerLists
<1> HIDE DEF D, d
<1>5. \A p \in Below(m) : Rank(m, p) \in Nat /\ (p \in Below(k) => Rank(k, p) \in Nat)
    BY <1>2, <1>3, FrontsAreFinite
<1>6. \A p \in Below(m) : Rank(m, p) <= e - 1 => scoreOf[p] >= k
    <2> SUFFICES ASSUME NEW p \in Below(m), Rank(m, p) <= e - 1 PROVE scoreOf[p] >= k
        OBVIOUS
    <2>1. p = last \/ Ahead(p, last)
        BY <1>1, <1>2, <1>5, FeedIsOrdered, RanksAreOrdered
    <2> QED BY <1>1, <1>2, <1>3, <2>1, FeedIsOrdered
<1>7. d <= e - 1
    BY <1>1, <1>3, <1>4, <1>5
<1>8. \A p \in Below(m) : Rank(m, p) <= e - 1 => (scoreOf[p] = k <=> d <= Rank(m, p))
    <2> SUFFICES ASSUME NEW p \in Below(m), Rank(m, p) <= e - 1
                 PROVE  scoreOf[p] = k <=> d <= Rank(m, p)
        OBVIOUS
    <2>1. p \in Below(k) => d <= Rank(m, p)
        BY <1>4, <1>5
    <2>2. p \notin Below(k) => ~ d <= Rank(m, p)
        BY <1>4, <1>5 DEF D
    <2>3. p \in Below(k) <=> scoreOf[p] <= k
        BY <1>2 DEF Below
    <2> QED BY <1>2, <1>3, <1>6, <2>1, <2>2, <2>3
<1>9. SameScore(f) = {i \in 1..(e - o) : d <= o + i - 1}
    <2>1. \A i \in 1..(e - o) : f[i] \in Below(m) /\ Rank(m, f[i]) <= e - 1
        BY <1>1
    <2>2. \A i \in 1..(e - o) : scoreOf[f[i]] = k <=> d <= o + i - 1
        BY <1>1, <1>8, <2>1
    <2> QED BY <1>1, <1>3, <2>2 DEF SameScore, SameScoreIn
<1>10. NextOffset(f, m, o) = e - d
    <2>1. CASE k = m
        <3>1. D = {}
            BY <2>1 DEF D
        <3>2. d = 0
            BY <3>1, FS_EmptySet DEF d
        <3>3. SameScore(f) = 1..(e - o)
            BY <1>1, <1>9, <3>2
        <3>4. Cardinality(SameScore(f)) = e - o
            BY <1>1, <3>3, FS_Interval
        <3> QED BY <1>1, <1>3, <2>1, <3>2, <3>4 DEF NextOffset, NextOffsetIn, SameScore
    <2>2. CASE k # m
        <3>1. o <= d
            <4>1. Cardinality(Scored(m)) \in Nat
                <5>1. Scored(m) \in SUBSET InFeed
                    BY DEF Scored
                <5> QED BY <5>1, FS_Subset, FS_CardinalityType DEF FeedOK
            <4> QED BY <1>3, <1>4, <2>2, <4>1
        <3>2. SameScore(f) = (d - o + 1)..(e - o)
            <4> QED BY <1>1, <1>4, <1>9, <3>1
        <3>3. Cardinality(SameScore(f)) = e - d
            <4>1. d - o + 1 \in Int /\ e - o \in Int /\ ~ d - o + 1 > e - o
                  /\ (e - o) - (d - o + 1) + 1 = e - d
                <5> QED BY <1>1, <1>4, <1>7
            <4> QED BY <3>2, <4>1, FS_Interval
        <3> QED BY <1>1, <1>3, <1>4, <2>2, <3>3 DEF NextOffset, NextOffsetIn, SameScore
    <2> QED BY <2>1, <2>2
<1>11. e - d <= Cardinality(Scored(k))
    <2> DEFINE F == Preceding(m, last)
    <2>1. F \in SUBSET Below(m) /\ IsFiniteSet(F) /\ last \notin F /\ Cardinality(F) = e - 1
        BY <1>1, <1>2, FrontsAreFinite DEF Rank
    <2>2. IsFiniteSet(F \cup {last}) /\ Cardinality(F \cup {last}) = e
        <3>1. IsFiniteSet(F \cup {last}) /\ Cardinality(F \cup {last}) = Cardinality(F) + 1
            BY <2>1, FS_AddElement
        <3> QED BY <1>1, <2>1, <3>1
    <2>3. F \cup {last} \in SUBSET (D \cup Scored(k))
        <3>1. \A p \in F : p \in Below(m) /\ p \in InFeed /\ scoreOf[p] >= k
            BY <1>1, <1>2, <1>3, <2>1, FeedIsOrdered DEF Preceding
        <3>2. \A p \in F : p \in D \/ p \in Scored(k)
            BY <1>2, <1>3, <3>1 DEF D, Below, Scored
        <3>3. last \in Scored(k)
            BY <1>1, <1>2, <1>3 DEF Scored
        <3> QED BY <3>2, <3>3
    <2>4. IsFiniteSet(Scored(k)) /\ Cardinality(Scored(k)) \in Nat
        <3>1. Scored(k) \in SUBSET InFeed
            BY DEF Scored
        <3> QED BY <3>1, FS_Subset, FS_CardinalityType DEF FeedOK
    <2>5. D \cap Scored(k) = {}
        BY <1>3 DEF D, Below, Scored
    <2>6. /\ IsFiniteSet(D \cup Scored(k))
          /\ Cardinality(D \cup Scored(k)) = d + Cardinality(Scored(k)) - Cardinality(D \cap Scored(k))
        BY <1>4, <2>4, FS_Union DEF d
    <2>7. Cardinality(D \cap Scored(k)) = 0
        BY <2>5, FS_EmptySet
    <2>8. e <= Cardinality(D \cup Scored(k))
        <3> HIDE DEF F
        <3> QED BY <2>2, <2>3, <2>6, FS_Subset
    <2> QED BY <1>1, <1>4, <2>4, <2>6, <2>7, <2>8
<1>12. e - d \in Nat
    <2> QED BY <1>1, <1>4, <1>7
<1> QED BY <1>3, <1>10, <1>11, <1>12 DEF e, f, D, d

\* What a reader keeps: it was shown posts of the feed, and one twice only after an arrival.
KeepsInv(r) ==
    /\ r.start \subseteq InFeed /\ r.shown \subseteq InFeed /\ r.again \subseteq r.shown
    /\ \A p \in r.again : scoreOf[p] \in r.shifted

\* The cursor: the offset does not skip a whole score; what was there at the start and was not
\* shown comes at or after it; and what was shown comes before it unless a post arrived.
CursorInv(r) ==
    /\ r.offset <= Cardinality(Scored(r.max))
    /\ \A p \in r.start \ (hidden \cup r.shown) : p \in Below(r.max) /\ Rank(r.max, p) >= r.offset
    /\ \A p \in r.shown : \/ scoreOf[p] \in r.shifted \/ scoreOf[p] > r.max
                          \/ scoreOf[p] = r.max /\ Rank(r.max, p) < r.offset

FeedPagesInv ==
    /\ PagesTypeOK /\ IsFiniteSet(InFeed) /\ KeepsInv(reader)
    /\ reader.at = "reading" => CursorInv(reader)
    /\ reader.at = "end" => reader.start \ hidden \subseteq reader.shown

ReaderRecords == [at : {"idle", "reading", "end"}, max : 1..MaxScore, offset : Nat,
                  start : SUBSET FeedPosts, shown : SUBSET FeedPosts,
                  again : SUBSET FeedPosts, shifted : SUBSET (1..MaxScore)]

LEMMA PagesTypes == PagesTypeOK <=> /\ scoreOf \in [FeedPosts -> 0..MaxScore]
                                    /\ hidden \subseteq FeedPosts /\ reader \in ReaderRecords
BY DEF PagesTypeOK, ReaderRecords

LEMMA NotReadingType == NotReading \in ReaderRecords
BY FeedPagesAssumption DEF NotReading, ReaderRecords

LEMMA PagesInitInv == PagesInit => FeedPagesInv
<1> SUFFICES ASSUME PagesInit PROVE FeedPagesInv
    OBVIOUS
<1>1. InFeed = {} /\ IsFiniteSet(InFeed)
    BY FS_EmptySet DEF PagesInit, InFeed
<1>2. PagesTypeOK
    BY NotReadingType, PagesTypes, FeedPagesAssumption DEF PagesInit, NotThere
<1> QED BY <1>1, <1>2 DEF PagesInit, FeedPagesInv, NotReading, KeepsInv

\* A late post comes before posts of its own score and of lower ones only.
LEMMA ArrivesKeeps ==
    ASSUME FeedPagesInv, NEW p \in FeedPosts, NEW score \in 1..MaxScore, Arrives(p, score)
    PROVE  FeedPagesInv'
<1>1. /\ FeedOK /\ reader \in ReaderRecords /\ hidden \subseteq FeedPosts /\ KeepsInv(reader)
    BY PagesTypes DEF FeedPagesInv, FeedOK
<1>2. /\ p \notin InFeed /\ hidden' = hidden /\ scoreOf' = [scoreOf EXCEPT ![p] = score]
      /\ reader' \in ReaderRecords /\ reader'.at = reader.at /\ reader'.max = reader.max
      /\ reader'.offset = reader.offset /\ reader'.start = reader.start
      /\ reader'.shown = reader.shown /\ reader'.again = reader.again
      /\ reader.shifted \subseteq reader'.shifted
      /\ reader.at = "reading" => score \in reader'.shifted
    BY <1>1 DEF Arrives, ReaderRecords
<1>3. scoreOf' \in [FeedPosts -> 0..MaxScore] /\ scoreOf'[p] = score
    BY <1>1, <1>2, FeedPagesAssumption DEF FeedOK
<1>4. InFeed' = InFeed \cup {p} /\ \A q \in InFeed : scoreOf'[q] = scoreOf[q]
    BY <1>1, <1>2, <1>3, FeedPagesAssumption DEF InFeed, NotThere, FeedOK
<1>5. IsFiniteSet(InFeed')
    BY <1>1, <1>4, FS_AddElement DEF FeedOK
<1>6. PagesTypeOK'
    BY <1>1, <1>2, <1>3 DEF PagesTypeOK, ReaderRecords
<1>7. KeepsInv(reader)'
    BY <1>1, <1>2, <1>4 DEF KeepsInv
<1>8. ASSUME reader.at = "reading" PROVE CursorInv(reader)'
    <2> DEFINE m == reader.max
    <2>0. CursorInv(reader) /\ m \in 1..MaxScore /\ m \in Int /\ reader.offset \in Nat /\ score \in Int
        BY <1>1, <1>8 DEF FeedPagesInv, ReaderRecords
    <2>f. (FeedOK)'
        BY <1>3, <1>5 DEF FeedOK
    <2>1. reader'.offset <= Cardinality(Scored(reader.max)')
        <3>1. Scored(reader.max) \in SUBSET Scored(reader.max)' /\ Scored(reader.max)' \in SUBSET InFeed'
            BY <1>2, <1>4 DEF Scored
        <3>2. /\ IsFiniteSet(Scored(reader.max)') /\ IsFiniteSet(Scored(reader.max))
              /\ Cardinality(Scored(reader.max)) <= Cardinality(Scored(reader.max)')
            BY <1>5, <3>1, FS_Subset
        <3>3. Cardinality(Scored(reader.max)') \in Nat /\ Cardinality(Scored(reader.max)) \in Nat
            BY <3>2, FS_CardinalityType
        <3> QED BY <1>2, <2>0, <3>2, <3>3 DEF CursorInv
    <2>2. ASSUME NEW q \in InFeed
          PROVE  /\ Rank(reader.max, q) \in Nat /\ Rank(reader.max, q)' \in Nat
                 /\ Rank(reader.max, q) <= Rank(reader.max, q)'
                 /\ scoreOf[q] = reader.max /\ score # reader.max =>
                        Rank(reader.max, q)' = Rank(reader.max, q)
        <3>1. Preceding(reader.max, q) \in SUBSET Preceding(reader.max, q)'
            BY <1>2, <1>4 DEF Preceding, Below, Ahead, AheadIn
        <3>2. Preceding(reader.max, q)' \in SUBSET InFeed'
            BY DEF Preceding, Below
        <3>3. IsFiniteSet(Preceding(reader.max, q)') /\ IsFiniteSet(Preceding(reader.max, q))
            BY <1>5, <3>1, <3>2, FS_Subset
        <3>4. Cardinality(Preceding(reader.max, q)) <= Cardinality(Preceding(reader.max, q)')
            BY <3>1, <3>3, FS_Subset
        <3>5. ASSUME scoreOf[q] = reader.max, score # reader.max
              PROVE  Preceding(reader.max, q)' = Preceding(reader.max, q)
            <4>1. p \notin Preceding(reader.max, q)'
                <5>1. scoreOf'[p] <= reader'.max => ~ scoreOf'[p] > scoreOf'[q] /\ scoreOf'[p] # scoreOf'[q]
                    BY <1>2, <1>3, <1>4, <2>0, <3>5
                <5> QED BY <5>1 DEF Preceding, Below, Ahead, AheadIn
            <4>2. \A t \in InFeed : t \in Preceding(reader.max, q)' <=> t \in Preceding(reader.max, q)
                BY <1>2, <1>4 DEF Preceding, Below, Ahead, AheadIn
            <4>3. Preceding(reader.max, q) \in SUBSET InFeed
                BY DEF Preceding, Below
            <4> QED BY <1>4, <3>2, <4>1, <4>2, <4>3
        <3> QED BY <3>3, <3>4, <3>5, FS_CardinalityType DEF Rank
    <2>3. ASSUME NEW q \in reader'.start \ (hidden' \cup reader'.shown)
          PROVE  q \in Below(reader.max)' /\ Rank(reader.max, q)' >= reader'.offset
        <3>1. q \in InFeed /\ q \in Below(reader.max) /\ Rank(reader.max, q) >= reader.offset
            BY <1>1, <1>2, <2>0, <2>3 DEF CursorInv, KeepsInv
        <3>2. q \in Below(reader.max)'
            BY <1>2, <1>4, <3>1 DEF Below
        <3> QED BY <1>2, <2>0, <2>2, <3>1, <3>2
    <2>4. ASSUME NEW q \in reader'.shown
          PROVE  \/ scoreOf'[q] \in reader'.shifted \/ scoreOf'[q] > reader'.max
                 \/ scoreOf'[q] = reader'.max /\ Rank(reader.max, q)' < reader'.offset
        <3>1. q \in InFeed /\ q \in reader.shown
            BY <1>1, <1>2, <2>4 DEF KeepsInv
        <3>2. CASE scoreOf[q] = score
            BY <1>2, <1>4, <1>8, <3>1, <3>2
        <3>3. CASE scoreOf[q] # score
            BY <1>2, <1>4, <2>0, <2>2, <3>1, <3>3 DEF CursorInv
        <3> QED BY <3>2, <3>3
    <2> QED BY <2>1, <2>3, <2>4 DEF CursorInv
<1>9. reader'.at = "end" => reader'.start \ hidden' \subseteq reader'.shown
    BY <1>2 DEF FeedPagesInv
<1> QED BY <1>2, <1>5, <1>6, <1>7, <1>8, <1>9 DEF FeedPagesInv

\* A withdrawn post stays in the set: only fewer posts have to be shown.
LEMMA WithdrawKeeps ==
    ASSUME FeedPagesInv, NEW p \in FeedPosts, WithdrawPost(p)
    PROVE  FeedPagesInv'
<1>1. scoreOf' = scoreOf /\ reader' = reader /\ hidden \subseteq hidden' /\ hidden' \subseteq FeedPosts
    BY DEF WithdrawPost, FeedPagesInv, PagesTypeOK
<1>2. InFeed' = InFeed
    BY <1>1 DEF InFeed
<1>3. KeepsInv(reader)'
    BY <1>1, <1>2 DEF FeedPagesInv, KeepsInv
<1>4. CursorInv(reader) => CursorInv(reader)'
    BY <1>1, <1>2 DEF CursorInv, Scored, Below, Rank, Preceding, Ahead, AheadIn
<1> QED BY <1>1, <1>2, <1>3, <1>4 DEF FeedPagesInv, PagesTypeOK

\* The answer of a page and the cursor the client sends next.
LEMMA PageKeeps ==
    ASSUME FeedPagesInv, NEW r \in ReaderRecords, KeepsInv(r), CursorInv(r), Page(r)
    PROVE  FeedPagesInv'
<1> DEFINE m == r.max
           o == r.offset
           n == Cardinality(Below(m))
           f == Found(m, o)
           e == PageEnd(m, o)
           k == scoreOf[Last(f)]
           visible == ToSet(f) \ hidden
<1>1. FeedOK /\ m \in Int /\ m \in 1..MaxScore /\ o \in Nat /\ hidden \subseteq FeedPosts
    BY PagesTypes DEF FeedPagesInv, FeedOK, ReaderRecords
<1>2. /\ scoreOf' = scoreOf /\ hidden' = hidden /\ InFeed' = InFeed
      /\ reader' = IF f = <<>> THEN [r EXCEPT !.at = "end"]
                   ELSE [r EXCEPT !.at = "reading", !.max = k, !.offset = NextOffset(f, m, o),
                                  !.shown = @ \cup visible,
                                  !.again = @ \cup (r.shown \cap visible)]
    BY DEF Page, InFeed
<1>3. n \in Nat /\ IsFiniteSet(InFeed) /\ \A p \in Below(m) : p \in InFeed /\ scoreOf[p] <= m
    BY <1>1, FrontsAreFinite DEF FeedOK, Below
<1>5. CASE f = <<>>
    <2>1. /\ reader' \in ReaderRecords /\ reader'.at = "end" /\ reader'.start = r.start
          /\ reader'.shown = r.shown /\ reader'.again = r.again /\ reader'.shifted = r.shifted
        BY <1>2, <1>5 DEF ReaderRecords
    <2>2. KeepsInv(reader)' /\ PagesTypeOK' /\ IsFiniteSet(InFeed)'
        <3>1. KeepsInv(reader)'
            BY <1>2, <2>1 DEF KeepsInv
        <3>2. PagesTypeOK'
            BY <1>1, <1>2, <2>1 DEF PagesTypeOK, ReaderRecords, FeedOK
        <3> QED BY <1>2, <1>3, <3>1, <3>2
    <2>3. n <= o
        BY <1>1, <1>5, PageIsARange
    <2>4. ASSUME NEW q \in r.start \ hidden, q \notin r.shown PROVE FALSE
        <3>1. q \in Below(m) /\ Rank(m, q) >= o
            BY <2>4 DEF CursorInv
        <3>2. Rank(m, q) < n /\ Rank(m, q) \in Nat
            BY <1>1, <1>3, <3>1, RanksAreOrdered, FrontsAreFinite
        <3> HIDE DEF n, o
        <3> QED BY <1>1, <1>3, <2>3, <3>1, <3>2
    <2> QED BY <1>2, <2>1, <2>2, <2>4 DEF FeedPagesInv
<1>6. CASE f # <<>>
    <2> DEFINE D == Below(m) \ Below(k)
               d == Cardinality(D)
               o2 == NextOffset(f, m, o)
    <2>1. o < n
        <3>1. ~ n <= o
            BY <1>1, <1>6, PageIsARange
        <3> HIDE DEF n, o
        <3> QED BY <1>1, <1>3, <3>1
    <2>2. /\ e \in Nat /\ o < e
          /\ ToSet(f) = {p \in Below(m) : Rank(m, p) \in o..(e - 1)}
          /\ Last(f) \in Below(m) /\ Rank(m, Last(f)) = e - 1
        BY <1>1, <2>1, PageIsARange
    <2>3. o <= Cardinality(Scored(m))
        BY DEF CursorInv
    <2>4. /\ k \in 1..MaxScore /\ k \in Int /\ k <= m
          /\ o2 = e - d /\ o2 \in Nat /\ o2 <= Cardinality(Scored(k))
        BY <1>1, <2>1, <2>3, NextPageStarts
    <2>5. /\ d \in Nat /\ \A p \in Below(k) : p \in Below(m) /\ Rank(m, p) = Rank(k, p) + d
        BY <1>1, <2>4, LowerLists
    <2>6. /\ reader' \in ReaderRecords /\ reader'.at = "reading" /\ reader'.start = r.start
          /\ reader'.max = k /\ reader'.offset = o2 /\ reader'.shown = r.shown \cup visible
          /\ reader'.again = r.again \cup (r.shown \cap visible) /\ reader'.shifted = r.shifted
        <3>1. visible \in SUBSET FeedPosts
            BY <2>2 DEF Below, InFeed
        <3> HIDE DEF visible, k, o2, f, m, o
        <3>2. reader' = [r EXCEPT !.at = "reading", !.max = k, !.offset = o2,
                                  !.shown = @ \cup visible, !.again = @ \cup (r.shown \cap visible)]
            BY <1>2, <1>6 DEF o2
        <3> QED BY <2>4, <3>1, <3>2 DEF ReaderRecords
    <2> HIDE DEF D, d, o2, e, k, f
    <2>7. \A p \in Below(m) : /\ Rank(m, p) \in Nat
                              /\ Rank(m, p) <= e - 1 => scoreOf[p] >= k
        <3> SUFFICES ASSUME NEW p \in Below(m)
                     PROVE  Rank(m, p) \in Nat /\ (Rank(m, p) <= e - 1 => scoreOf[p] >= k)
            OBVIOUS
        <3>1. Rank(m, p) \in Nat /\ Rank(m, Last(f)) \in Nat /\ p \in InFeed /\ Last(f) \in InFeed
            BY <1>1, <1>3, <2>2, FrontsAreFinite
        <3>2. Rank(m, p) <= e - 1 => p = Last(f) \/ Ahead(p, Last(f))
            BY <1>1, <2>2, <3>1, RanksAreOrdered
        <3>3. scoreOf[Last(f)] \in Int
            BY <1>1, <3>1, FeedIsOrdered
        <3> QED BY <1>1, <3>1, <3>2, <3>3, FeedIsOrdered DEF k
    <2>8. \A p \in InFeed : scoreOf[p] \in Int
        BY <1>1, FeedIsOrdered
    <2>9. KeepsInv(reader)'
        <3>1. visible \subseteq InFeed
            BY <1>3, <2>2
        <3>2. \A p \in r.shown \cap visible : scoreOf[p] \in r.shifted
            <4> SUFFICES ASSUME NEW p \in r.shown, p \in visible PROVE scoreOf[p] \in r.shifted
                OBVIOUS
            <4>1. /\ p \in Below(m) /\ Rank(m, p) >= o /\ Rank(m, p) \in Nat
                  /\ scoreOf[p] <= m /\ scoreOf[p] \in Int
                BY <1>3, <2>2, <2>7, <2>8
            <4>2. ~ scoreOf[p] > m /\ ~ Rank(m, p) < o
                BY <1>1, <4>1
            <4> QED BY <4>2 DEF CursorInv
        <3> HIDE DEF visible
        <3> QED BY <1>2, <2>6, <3>1, <3>2 DEF KeepsInv
    <2>10. ASSUME NEW q \in r.start \ (hidden \cup reader'.shown)
           PROVE  q \in Below(k) /\ Rank(k, q) >= o2
        <3>1. q \in Below(m) /\ Rank(m, q) >= o /\ Rank(m, q) \in Nat
            BY <2>6, <2>7, <2>10 DEF CursorInv
        <3>2. q \notin ToSet(f)
            BY <2>6, <2>10
        <3>3. Rank(m, q) >= e
            BY <1>1, <2>2, <3>1, <3>2
        <3>4. Ahead(Last(f), q)
            BY <1>1, <2>2, <3>1, <3>3, RanksAreOrdered
        <3>5. q \in Below(k)
            BY <1>1, <1>3, <2>2, <3>1, <3>4, FeedIsOrdered DEF Below, k
        <3>6. Rank(m, q) = Rank(k, q) + d /\ Rank(k, q) \in Nat
            BY <1>1, <1>3, <2>4, <2>5, <3>1, <3>5, FrontsAreFinite
        <3> QED BY <2>2, <2>4, <2>5, <3>1, <3>3, <3>5, <3>6
    <2>11. ASSUME NEW p \in reader'.shown
           PROVE  \/ scoreOf[p] \in r.shifted \/ scoreOf[p] > k
                  \/ scoreOf[p] = k /\ Rank(k, p) < o2
        <3>1. \A q \in Below(m) : scoreOf[q] = k /\ Rank(m, q) <= e - 1 => Rank(k, q) < o2
            <4> SUFFICES ASSUME NEW q \in Below(m), scoreOf[q] = k, Rank(m, q) <= e - 1
                         PROVE  Rank(k, q) < o2
                OBVIOUS
            <4>0. q \in InFeed /\ Rank(k, q) \in Nat
                BY <1>1, <1>3, <2>4, FrontsAreFinite
            <4>1. q \in Below(k)
                BY <2>4, <4>0 DEF Below
            <4> QED BY <2>2, <2>4, <2>5, <2>7, <4>0, <4>1
        <3>2. CASE p \in ToSet(f)
            <4>1. p \in Below(m) /\ Rank(m, p) <= e - 1 /\ scoreOf[p] >= k /\ scoreOf[p] \in Int
                BY <1>1, <1>3, <2>2, <2>7, <2>8, <3>2
            <4> QED BY <2>4, <3>1, <4>1
        <3>3. CASE p \in r.shown
            <4>1. p \in InFeed /\ scoreOf[p] \in Int
                BY <2>8, <3>3 DEF KeepsInv
            <4>2. CASE scoreOf[p] > m
                BY <1>1, <2>4, <4>1, <4>2
            <4>3. CASE scoreOf[p] = m /\ Rank(m, p) < o
                <5>1. p \in Below(m) /\ Rank(m, p) \in Nat
                    BY <1>1, <2>7, <4>1, <4>3 DEF Below
                <5>2. Rank(m, p) <= e - 1
                    BY <1>1, <2>2, <4>3, <5>1
                <5> QED BY <1>1, <2>4, <3>1, <4>3, <5>1, <5>2
            <4> QED BY <3>3, <4>2, <4>3 DEF CursorInv
        <3> HIDE DEF m, o
        <3> QED BY <2>6, <2>11, <3>2, <3>3
    <2>12. CursorInv(reader)'
        <3>1. reader'.offset <= Cardinality(Scored(reader'.max))
            BY <2>4, <2>6
        <3>2. \A q \in reader'.start \ (hidden \cup reader'.shown) :
                  q \in Below(reader'.max) /\ Rank(reader'.max, q) >= reader'.offset
            BY <2>6, <2>10
        <3>3. \A p \in reader'.shown :
                  \/ scoreOf[p] \in reader'.shifted \/ scoreOf[p] > reader'.max
                  \/ scoreOf[p] = reader'.max /\ Rank(reader'.max, p) < reader'.offset
            BY <2>6, <2>11
        <3>4. CursorInv(reader)' = CursorInv(reader')
            BY <1>2 DEF CursorInv, Scored, Below, Rank, Preceding, Ahead, AheadIn, InFeed
        <3> QED BY <3>1, <3>2, <3>3, <3>4 DEF CursorInv
    <2>13. PagesTypeOK'
        BY <1>1, <1>2, <2>6 DEF PagesTypeOK, ReaderRecords, FeedOK
    <2>14. reader'.at = "reading" /\ IsFiniteSet(InFeed)'
        BY <1>2, <1>3, <2>6
    <2> QED BY <2>9, <2>12, <2>13, <2>14 DEF FeedPagesInv
<1> QED BY <1>5, <1>6

LEMMA PagesNextInv == FeedPagesInv /\ [PagesNext]_pageVars => FeedPagesInv'
<1> SUFFICES ASSUME FeedPagesInv, [PagesNext]_pageVars PROVE FeedPagesInv'
    OBVIOUS
<1>0. FeedOK /\ reader \in ReaderRecords /\ KeepsInv(reader)
    BY PagesTypes DEF FeedPagesInv, FeedOK
<1>1. CASE FirstPage
    <2> DEFINE r == [NotReading EXCEPT !.start = InFeed]
    <2>1. /\ r \in ReaderRecords /\ r.start = InFeed /\ r.shown = {} /\ r.again = {}
          /\ r.max = MaxScore /\ r.offset = 0
        BY NotReadingType DEF ReaderRecords, NotReading, InFeed
    <2> HIDE DEF r
    <2>2. KeepsInv(r)
        BY <2>1 DEF KeepsInv
    <2>3. IsFiniteSet(Scored(MaxScore)) /\ Cardinality(Scored(MaxScore)) \in Nat
        <3>1. Scored(MaxScore) \in SUBSET InFeed
            BY DEF Scored
        <3> QED BY <1>0, <3>1, FS_Subset, FS_CardinalityType DEF FeedOK
    <2>4. \A q \in InFeed : q \in Below(MaxScore) /\ Rank(MaxScore, q) \in Nat
        <3>1. MaxScore \in Int /\ \A q \in InFeed : scoreOf[q] \in 1..MaxScore
            BY <1>0, FeedIsOrdered, FeedPagesAssumption
        <3>2. \A q \in InFeed : Rank(MaxScore, q) \in Nat
            BY <1>0, <3>1, FrontsAreFinite
        <3> QED BY <3>1, <3>2 DEF Below
    <2>5. CursorInv(r)
        BY <2>1, <2>3, <2>4 DEF CursorInv
    <2> QED BY <1>1, <2>1, <2>2, <2>5, PageKeeps DEF FirstPage, r
<1>2. CASE NextPage
    BY <1>0, <1>2, PageKeeps DEF NextPage, FeedPagesInv
<1>3. CASE StopReading
    <2>1. reader' = NotReading /\ UNCHANGED <<scoreOf, hidden>> /\ InFeed' = InFeed
        BY <1>3 DEF StopReading, InFeed
    <2>2. PagesTypeOK'
        BY <1>0, <2>1, NotReadingType DEF PagesTypeOK, FeedPagesInv, ReaderRecords
    <2> QED BY <2>1, <2>2 DEF FeedPagesInv, KeepsInv, NotReading
<1>4. CASE UNCHANGED pageVars
    BY <1>4 DEF pageVars, FeedPagesInv, PagesTypeOK, InFeed, KeepsInv, CursorInv, Scored, Below,
                Rank, Preceding, Ahead, AheadIn
<1> QED BY <1>1, <1>2, <1>3, <1>4, ArrivesKeeps, WithdrawKeeps DEF PagesNext

\* A reader who pages to the end misses nothing: the inductive invariant of queryBlogOfFollow's
\* cursor.
THEOREM PagingMissesNothing == PagesSpec => []FeedPagesMissNothing
<1>1. FeedPagesInv => FeedPagesMissNothing
    BY DEF FeedPagesInv, FeedPagesMissNothing, KeepsInv
<1> QED BY <1>1, PagesInitInv, PagesNextInv, PTL DEF PagesSpec
=============================================================================
