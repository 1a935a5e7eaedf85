-------------------------------- MODULE Likes --------------------------------
(***************************************************************************)
(* The likes of one post (BlogServiceImpl.likeBlog): the counter           *)
(* tb_blog.liked in MySQL and the sorted set blog:liked:<post> in Redis,   *)
(* and the author's withdrawal of the post.                                *)
(*                                                                         *)
(* A toggle is one MySQL transaction: it locks the visible row, asks Redis *)
(* whether the user is in the set, moves the counter, writes the set and   *)
(* commits.  Redis is not part of the transaction: a call that raises      *)
(* rolls the counter back whether or not Redis executed it, and a commit   *)
(* may raise with or without having happened.                              *)
(***************************************************************************)
EXTENDS Integers, FiniteSets

CONSTANTS
    Likers,         \* accounts
    Toggles,        \* threads in likeBlog
    Nobody,         \* the row lock is free
    MaxLikeFaults   \* bound: failing Redis calls and commits

ASSUME LikesAssumption ==
    /\ Likers # {}
    /\ Nobody \notin Toggles
    /\ MaxLikeFaults \in Nat

VARIABLES
    liked,          \* tb_blog.liked, the committed value
    withdrawn,      \* tb_blog.withdrawn
    likers,         \* blog:liked:<post>
    rowLock,        \* who holds the row lock of the post
    toggle,         \* what each thread is doing
    likeFaults

likeVars == <<liked, withdrawn, likers, rowLock, toggle, likeFaults>>

NoToggle == [at |-> "idle", user |-> CHOOSE u \in Likers : TRUE, step |-> 0]

LikesInit ==
    /\ liked = 0 /\ withdrawn = FALSE
    /\ likers = {}
    /\ rowLock = Nobody
    /\ toggle = [t \in Toggles |-> NoToggle]
    /\ likeFaults = 0

AtLike(t, where) == toggle[t].at = where
MoveTo(t, where) == toggle' = [toggle EXCEPT ![t].at = where]
LikeFault == likeFaults < MaxLikeFaults /\ likeFaults' = likeFaults + 1

\* The transaction ends and gives the row lock back; committed says which
\* counter the next transaction reads.
EndToggle(t, committed) ==
    /\ toggle' = [toggle EXCEPT ![t] = NoToggle]
    /\ rowLock' = IF rowLock = t THEN Nobody ELSE rowLock
    /\ liked' = committed

LikeBlog(t, u) ==
    /\ AtLike(t, "idle")
    /\ toggle' = [toggle EXCEPT ![t] = [NoToggle EXCEPT !.at = "lock", !.user = u]]
    /\ UNCHANGED <<liked, withdrawn, likers, rowLock, likeFaults>>

\* Mutant: the row is read without FOR UPDATE.
ReadRow(t) == rowLock' = rowLock

\* findBlogForAuthorEdit: FOR UPDATE waits for the holder of the row.
TakeRow(t) == rowLock = Nobody /\ rowLock' = t

LockVisible(t) ==
    /\ AtLike(t, "lock") /\ ~withdrawn
    /\ TakeRow(t)
    /\ MoveTo(t, "ask")
    /\ UNCHANGED <<liked, withdrawn, likers, likeFaults>>

NotFound(t) ==
    /\ AtLike(t, "lock") /\ withdrawn /\ rowLock = Nobody
    /\ toggle' = [toggle EXCEPT ![t] = NoToggle]
    /\ UNCHANGED <<liked, withdrawn, likers, rowLock, likeFaults>>

\* ZSCORE and the guarded UPDATE of the counter; without a row to update the
\* set is not written either.
Moves(u) == IF u \notin likers THEN 1 ELSE IF liked > 0 THEN -1 ELSE 0

CountLike(t) ==
    /\ AtLike(t, "ask")
    /\ toggle' = [toggle EXCEPT ![t].step = Moves(toggle[t].user),
                                ![t].at = IF Moves(toggle[t].user) = 0 THEN "commit" ELSE "write"]
    /\ UNCHANGED <<liked, withdrawn, likers, rowLock, likeFaults>>

Written(t) == IF toggle[t].step = 1 THEN likers \cup {toggle[t].user}
              ELSE likers \ {toggle[t].user}

WriteSet(t) ==
    /\ AtLike(t, "write")
    /\ likers' = Written(t)
    /\ MoveTo(t, "commit")
    /\ UNCHANGED <<liked, withdrawn, rowLock, likeFaults>>

\* A Redis call raises: the transaction rolls back, the set may be written.
RedisRaises(t) ==
    /\ toggle[t].at \in {"ask", "write"} /\ LikeFault
    /\ likers' \in IF AtLike(t, "write") THEN {likers, Written(t)} ELSE {likers}
    /\ EndToggle(t, liked)
    /\ UNCHANGED withdrawn

CommitLike(t) ==
    /\ AtLike(t, "commit")
    /\ EndToggle(t, liked + toggle[t].step)
    /\ UNCHANGED <<withdrawn, likers, likeFaults>>

\* The commit raises: it did not happen, or only its answer was lost.
CommitRaises(t) ==
    /\ AtLike(t, "commit") /\ LikeFault
    /\ EndToggle(t, liked) \/ EndToggle(t, liked + toggle[t].step)
    /\ UNCHANGED <<withdrawn, likers>>

\* withdrawBlog, whose own row lock and UPDATE are one transaction; a repeated
\* withdrawal finds the flag set and changes nothing.
Withdraw ==
    /\ rowLock = Nobody /\ ~withdrawn
    /\ withdrawn' = TRUE
    /\ UNCHANGED <<liked, likers, rowLock, toggle, likeFaults>>

ToggleStep(t) ==
    \/ \E u \in Likers : LikeBlog(t, u)
    \/ LockVisible(t) \/ NotFound(t) \/ CountLike(t) \/ WriteSet(t)
    \/ RedisRaises(t) \/ CommitLike(t) \/ CommitRaises(t)

LikesNext == Withdraw \/ \E t \in Toggles : ToggleStep(t)

LikesSpec == LikesInit /\ [][LikesNext]_likeVars
-----------------------------------------------------------------------------
LikesTypeOK ==
    /\ liked \in Nat
    /\ withdrawn \in BOOLEAN
    /\ likers \subseteq Likers
    /\ rowLock \in Toggles \cup {Nobody}
    /\ toggle \in [Toggles -> [at : {"idle", "lock", "ask", "write", "commit"},
                               user : Likers, step : {-1, 0, 1}]]
    /\ likeFaults \in 0..MaxLikeFaults

Distance(m, n) == IF m < n THEN n - m ELSE m - n

\* However often the same account toggles at once, counter and set differ at
\* rest by no more than the calls that failed; without a failure they agree.
CounterDriftsOnlyByFaults ==
    /\ LikesTypeOK
    /\ rowLock = Nobody => Distance(liked, Cardinality(likers)) <= likeFaults
=============================================================================
