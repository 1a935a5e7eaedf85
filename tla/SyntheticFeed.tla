---------------------------- MODULE SyntheticFeed ----------------------------
(***************************************************************************)
(* What the application does to the posts of one synthetic author and the  *)
(* Feeds of the author's followers, one request at a time, while a Redis   *)
(* key is of another type or a trigger refuses a statement, with the       *)
(* recovery worker between the requests.  This is the system the           *)
(* publication checks of verify-compose.py question; the interleavings of  *)
(* publishers and workers are the subject of BlogFeed.                     *)
(***************************************************************************)
EXTENDS FeedList

Recipients == {"bad", "good", "late"}

\* Seven posts in a Feed, as FeedPages has them: score 0 is not there.
Posts == 1..7

\* posts: rows saved, numbered; intents: rows of the outbox; failed: intents a
\* worker could not deliver or acknowledge; blocked: mistyped Feed keys;
\* trigger: the statement a trigger refuses; up: the process answers.
EmptyFeed == [feed |-> [p \in Posts |-> 0], withdrawn |-> {},
              posts |-> 0, receipts |-> [k \in {} |-> 0], audience |-> {},
              intents |-> {}, failed |-> {}, feeds |-> [r \in Recipients |-> {}],
              blocked |-> {}, trigger |-> "none", up |-> TRUE]

Reply(status, s) == [status |-> status, store |-> s]
-----------------------------------------------------------------------------
(* POST /blog, with and without Idempotency-Key                            *)

Refuses(s) == s.trigger = "intent" /\ s.audience # {}

\* One transaction for the row and its intents; the callback after the commit
\* writes the Feeds that can be written and never touches the outbox.
SavePost(s) ==
    LET p == s.posts + 1
    IN  IF Refuses(s) THEN Reply(<<500>>, s)
        ELSE Reply(<<200, p>>,
                [s EXCEPT !.posts = p,
                          !.intents = @ \cup {<<p, r>> : r \in s.audience},
                          !.feeds = [r \in Recipients |-> @[r] \cup
                                        IF r \in s.audience \ s.blocked THEN {p} ELSE {}]])

\* The receipt commits with the post, so a refused publication frees its key.
PublishOnce(s, key, body) ==
    IF key \in DOMAIN s.receipts
    THEN Reply(IF s.receipts[key].body = body THEN <<200, s.receipts[key].post>> ELSE <<409>>, s)
    ELSE IF Refuses(s) \/ s.trigger = "receipt" THEN Reply(<<500>>, s)
    ELSE Reply(SavePost(s).status,
            [SavePost(s).store EXCEPT !.receipts =
                [k \in DOMAIN @ \cup {key} |->
                    IF k = key THEN [body |-> body, post |-> s.posts + 1] ELSE @[k]]])

WithdrawOwn(s, p) == Reply(<<200>>, [s EXCEPT !.withdrawn = @ \cup {p}])

ReadPost(s, p) == Reply(IF p \in s.withdrawn THEN <<404>> ELSE <<200>>, s)

\* recover(): deliver, then complete; a refused DELETE leaves the intent.
Recovered(s, i) ==
    LET delivered == [s EXCEPT !.feeds[i[2]] = @ \cup {i[1]}]
    IN  IF i[2] \in s.blocked THEN [s EXCEPT !.failed = @ \cup {i}]
        ELSE IF s.trigger = "ack" THEN [delivered EXCEPT !.failed = @ \cup {i}]
        ELSE [delivered EXCEPT !.intents = @ \ {i}]
-----------------------------------------------------------------------------
(* GET /blog/of/follow                                                     *)

\* Two posts a page.
FeedPage(s, max, offset) ==
    LET found == FoundIn(s.feed, max, offset, 2)
    IN  Reply(IF found = <<>> THEN <<>>
              ELSE <<s.feed[Last(found)], NextOffsetIn(s.feed, found, max, offset),
                     ToSet(found) \ s.withdrawn>>, s)
=============================================================================
