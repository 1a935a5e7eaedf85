-------------------------------- MODULE BlogFeed --------------------------------
(***************************************************************************)
(* The posts of one author: publication under a request key                *)
(* (BlogPublicationService, saveBlog) and delivery to the followers' feeds *)
(* through an outbox (BlogFeedDeliveryService).                            *)
(*                                                                         *)
(* A feed is the set of its posts: the score is fixed with the intent, so  *)
(* that a repeated ZADD changes nothing, and nothing in the program takes  *)
(* a post out of a feed.  The outbox is ordered by next_attempt_at; every  *)
(* entry is due by the time of a poll.  A key that returns with another    *)
(* body is a conflict and changes nothing: it is left out.                 *)
(***************************************************************************)
EXTENDS Integers, Sequences, FiniteSets, SequencesExt

CONSTANTS
    Publishers,     \* threads in publish
    Keys,           \* Idempotency keys of the author
    NoKey,          \* a request without one
    Users,          \* who may follow the author
    Broken,         \* users whose feed key refuses ZADD for good
    Workers,        \* recoverPending, one per process
    FastPathLimit,  \* deliveries right after the commit, 32 in the code
    PollLimit,      \* entries a worker reads at once, 32 in the code
    MaxPosts,       \* bound: post ids drawn
    MaxFaults       \* bound: failing calls and dying processes

ASSUME BlogFeedAssumption ==
    /\ NoKey \notin Keys
    /\ IsFiniteSet(Users) /\ Broken \subseteq Users
    /\ FastPathLimit \in Nat
    /\ PollLimit \in Nat \ {0}
    /\ MaxPosts \in Nat /\ MaxFaults \in Nat

Posts == 1..MaxPosts

VARIABLES
    lastId,         \* AUTO_INCREMENT of tb_blog
    post,           \* committed rows of tb_blog with their recipients
    receipt,        \* tb_blog_publication_request: the post of a key, 0 without row
    outbox,         \* tb_blog_feed_delivery, by next_attempt_at
    feed,           \* feed:<user>
    pub,            \* what each publisher is doing
    job,            \* what each worker is doing
    faults,
    answers         \* history: the ids answered for a key

dbVars == <<lastId, post, receipt, answers>>
vars == <<dbVars, outbox, feed, pub, job, faults>>

NoPost == [live |-> FALSE, key |-> NoKey, to |-> {}]
Resting == [at |-> "idle", key |-> NoKey, post |-> 0, to |-> {}]
NoJob == [at |-> "idle", page |-> <<>>]

Init ==
    /\ lastId = 0
    /\ post = [b \in Posts |-> NoPost]
    /\ receipt = [k \in Keys |-> 0]
    /\ outbox = <<>>
    /\ feed = [u \in Users |-> {}]
    /\ pub = [p \in Publishers |-> Resting]
    /\ job = [w \in Workers |-> NoJob]
    /\ faults = 0
    /\ answers = {}

Disturb == faults < MaxFaults /\ faults' = faults + 1
-----------------------------------------------------------------------------
(* publish, one transaction                                                *)

\* Mutant: the key is not unique.
NeverReserved(k) == TRUE

Unreserved(k) == receipt[k] = 0

\* INSERT of the receipt waits for an uncommitted one with the same key.
KeyIsHeld(k) == \E q \in Publishers : pub[q].at = "saved" /\ pub[q].key = k

\* saveBlog: the row, then intents for whoever follows at this moment.  All of it
\* is invisible until the commit, but the id is drawn for good.
Save(p, k) ==
    /\ pub[p].at = "idle"
    /\ lastId < MaxPosts
    /\ lastId' = lastId + 1
    /\ \E followers \in SUBSET Users :
         pub' = [pub EXCEPT ![p] = [at |-> "saved", key |-> k, post |-> lastId + 1,
                                    to |-> followers]]
    /\ UNCHANGED <<post, receipt, answers, outbox, feed, job, faults>>

PublishOnce(p, k) == ~KeyIsHeld(k) /\ Unreserved(k) /\ Save(p, k)

\* Without a key there is no receipt; a repetition publishes again.
PublishUnkeyed(p) == Save(p, NoKey)

\* A duplicate key is answered the first id.
Replay(p, k) ==
    /\ pub[p].at = "idle"
    /\ ~KeyIsHeld(k)
    /\ ~Unreserved(k)
    /\ answers' = answers \cup {<<k, receipt[k]>>}
    /\ UNCHANGED <<lastId, post, receipt, outbox, feed, pub, job, faults>>

Intents(b, to) == SetToSeqs({b} \X to)

\* Post, intents and receipt commit together.  The intents are due when they
\* were inserted: before entries that failed, after older ones.
Commit(p) ==
    /\ pub[p].at = "saved"
    /\ LET b == pub[p].post
           k == pub[p].key
       IN  /\ post' = [post EXCEPT ![b] = [live |-> TRUE, key |-> k, to |-> pub[p].to]]
           /\ receipt' = [j \in Keys |-> IF j = k THEN b ELSE receipt[j]]
           /\ \E new \in Intents(b, pub[p].to), i \in 0..Len(outbox) :
                outbox' = SubSeq(outbox, 1, i) \o new \o SubSeq(outbox, i + 1, Len(outbox))
           /\ answers' = answers \cup (IF k = NoKey THEN {} ELSE {<<k, b>>})
    /\ \E batch \in SUBSET pub[p].to :
         /\ Cardinality(batch) = IF Cardinality(pub[p].to) < FastPathLimit
                                 THEN Cardinality(pub[p].to) ELSE FastPathLimit
         /\ pub' = [pub EXCEPT ![p] = [Resting EXCEPT !.at = "afterCommit",
                                      !.post = pub[p].post, !.to = batch]]
    /\ UNCHANGED <<lastId, feed, job, faults>>

\* A failing statement or commit, or the process dies: nothing remains.
Rollback(p) ==
    /\ pub[p].at = "saved"
    /\ Disturb
    /\ pub' = [pub EXCEPT ![p] = Resting]
    /\ UNCHANGED <<dbVars, outbox, feed, job>>
-----------------------------------------------------------------------------
(* Delivery                                                                *)

\* ZADD with the stored score; repeated, it changes nothing.
Zadd(b, u) == feed' = [feed EXCEPT ![u] = @ \cup {b}]

\* The callback after the commit tries each of its batch once, then ends.
FastDeliver(p) ==
    /\ pub[p].at = "afterCommit"
    /\ \/ \E u \in pub[p].to :
            /\ pub' = [pub EXCEPT ![p].to = @ \ {u}]
            /\ \/ u \notin Broken /\ Zadd(pub[p].post, u) /\ UNCHANGED faults
               \/ u \in Broken /\ UNCHANGED <<feed, faults>>
               \/ Disturb /\ UNCHANGED feed
       \/ /\ pub[p].to = {}
          /\ pub' = [pub EXCEPT ![p] = Resting]
          /\ UNCHANGED <<feed, faults>>
    /\ UNCHANGED <<dbVars, outbox, job>>

\* The process dies: the intents remain.
CallbackDies(p) ==
    /\ pub[p].at = "afterCommit"
    /\ Disturb
    /\ pub' = [pub EXCEPT ![p] = Resting]
    /\ UNCHANGED <<dbVars, outbox, feed, job>>

Poll(w) ==
    /\ job[w].at = "idle"
    /\ outbox # <<>>
    /\ job' = [job EXCEPT ![w] = [at |-> "deliver",
                page |-> SubSeq(outbox, 1, IF Len(outbox) < PollLimit THEN Len(outbox)
                                                                      ELSE PollLimit)]]
    /\ UNCHANGED <<dbVars, outbox, feed, pub, faults>>

\* On to the next entry of the page, or to the next poll.
NextEntry(w) ==
    job' = [job EXCEPT ![w] = IF Len(@.page) = 1 THEN NoJob
                              ELSE [at |-> "deliver", page |-> Tail(@.page)]]

IsQueued(e) == \E i \in DOMAIN outbox : outbox[i] = e

\* The row of a post and a recipient is unique.
Without(e) ==
    IF IsQueued(e) THEN RemoveAt(outbox, CHOOSE i \in DOMAIN outbox : outbox[i] = e) ELSE outbox

\* Mutant: next_attempt_at is left as it was.
PostponeNever(e) == UNCHANGED outbox

\* failed: the entry, if it is still there, moves behind the others.
Postpone(e) ==
    outbox' = IF IsQueued(e) THEN Append(Without(e), e) ELSE outbox

\* recover: a failure is recorded, unless recording it fails as well.
Deliver(w) ==
    /\ job[w].at = "deliver"
    /\ LET e == Head(job[w].page)
       IN  \/ /\ e[2] \notin Broken
              /\ Zadd(e[1], e[2])
              /\ job' = [job EXCEPT ![w].at = "complete"]
              /\ UNCHANGED <<outbox, faults>>
           \/ /\ e[2] \in Broken
              /\ Postpone(e)
              /\ NextEntry(w)
              /\ UNCHANGED <<feed, faults>>
           \/ /\ Disturb
              /\ Postpone(e) \/ UNCHANGED outbox
              /\ UNCHANGED feed \/ (e[2] \notin Broken /\ Zadd(e[1], e[2]))
              /\ NextEntry(w)
    /\ UNCHANGED <<dbVars, pub>>

\* DELETE of this intent; a failure leaves it to the next poll.
Complete(w) ==
    /\ job[w].at = "complete"
    /\ \/ outbox' = Without(Head(job[w].page)) /\ UNCHANGED faults
       \/ Disturb /\ UNCHANGED outbox
    /\ NextEntry(w)
    /\ UNCHANGED <<dbVars, feed, pub>>

WorkerDies(w) ==
    /\ job[w].at # "idle"
    /\ Disturb
    /\ job' = [job EXCEPT ![w] = NoJob]
    /\ UNCHANGED <<dbVars, outbox, feed, pub>>
-----------------------------------------------------------------------------
PublisherStep(p) ==
    \/ \E k \in Keys : PublishOnce(p, k) \/ Replay(p, k)
    \/ PublishUnkeyed(p) \/ Commit(p) \/ Rollback(p) \/ FastDeliver(p) \/ CallbackDies(p)

WorkerStep(w) == Poll(w) \/ Deliver(w) \/ Complete(w)

Next ==
    \/ \E p \in Publishers : PublisherStep(p)
    \/ \E w \in Workers : WorkerStep(w) \/ WorkerDies(w)

Spec == Init /\ [][Next]_vars

\* recoverPending is scheduled every five seconds in every process.
FairSpec == Spec /\ \A w \in Workers : WF_vars(WorkerStep(w))
-----------------------------------------------------------------------------
Keyed == {b \in Posts : post[b].live /\ post[b].key # NoKey}
Intended == {i \in Posts \X Users : i[2] \in post[i[1]].to}

\* Every variable keeps its type; a busy worker has an entry in hand.
TypeOK ==
    /\ lastId \in 0..MaxPosts
    /\ post \in [Posts -> [live : BOOLEAN, key : Keys \cup {NoKey}, to : SUBSET Users]]
    /\ receipt \in [Keys -> 0..MaxPosts]
    /\ outbox \in Seq(Posts \X Users)
    /\ feed \in [Users -> SUBSET Posts]
    /\ pub \in [Publishers -> [at : {"idle", "saved", "afterCommit"},
                               key : Keys \cup {NoKey}, post : 0..MaxPosts,
                               to : SUBSET Users]]
    /\ \A w \in Workers : /\ job[w].at \in {"idle", "deliver", "complete"}
                          /\ job[w].page \in Seq(Posts \X Users)
                          /\ job[w].at = "idle" <=> job[w].page = <<>>
    /\ faults \in 0..MaxFaults
    /\ answers \subseteq Keys \X Posts

\* However often and by however many threads a key is used, it publishes one
\* post, and whoever is answered is answered that post.
KeyPublishesOnce ==
    /\ \A b, c \in Keyed : post[b].key = post[c].key => b = c
    /\ \A a \in answers : receipt[a[1]] = a[2]

\* A post that is not in the feed of one of its recipients still waits for it in
\* the outbox, whatever callbacks, workers and calls were lost.
IntentUntilDelivered ==
    \A i \in Intended : i[1] \in feed[i[2]] \/ IsQueued(i)

\* A publication is one piece: its post, the receipt of its key and the intents
\* for its recipients appear together and none is lost or doubled.
PublicationIsOnePiece == TypeOK /\ KeyPublishesOnce /\ IntentUntilDelivered

\* Every recipient whose feed can be written finally has the post, although
\* entries that always fail come before it and pages are short.
EveryoneIsServed ==
    \A b \in Posts, u \in Users \ Broken : u \in post[b].to ~> b \in feed[u]
=============================================================================
