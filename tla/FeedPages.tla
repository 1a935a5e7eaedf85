------------------------------ MODULE FeedPages ------------------------------
(***************************************************************************)
(* Paging through the feed of one account (queryBlogOfFollow).  The feed   *)
(* is the sorted set feed:<user>; a page starts at a score and passes the  *)
(* posts of that score already shown, which the client sends back as an    *)
(* offset.  While somebody pages, posts arrive late with the old scores    *)
(* of their publication, and authors withdraw posts: these stay in the     *)
(* set but their rows are hidden from the answer.                          *)
(***************************************************************************)
EXTENDS FeedList

CONSTANTS
    FeedPosts,      \* post ids; members of equal score are ordered by id
    MaxScore,       \* bound: the scores, publication times up to the first page
    PageSize        \* 2 in the code

ASSUME FeedPagesAssumption ==
    /\ FeedPosts \subseteq Nat
    /\ MaxScore \in Nat \ {0} /\ PageSize \in Nat \ {0}

VARIABLES
    scoreOf,        \* the sorted set: score of a post, NotThere outside of it
    hidden,         \* withdrawn posts
    reader          \* the client: cursor and history of what it was shown

pageVars == <<scoreOf, hidden, reader>>

NotReading == [at |-> "idle", max |-> MaxScore, offset |-> 0, start |-> {},
               shown |-> {}, again |-> {}, shifted |-> {}]

PagesInit ==
    /\ scoreOf = [p \in FeedPosts |-> NotThere]
    /\ hidden = {}
    /\ reader = NotReading

InFeed == {p \in FeedPosts : scoreOf[p] # NotThere}
-----------------------------------------------------------------------------
\* A delivery reaches the set, perhaps long after its publication.  ZADD of a
\* post that is there writes the same score again.
Arrives(p, score) ==
    /\ p \notin InFeed
    /\ scoreOf' = [scoreOf EXCEPT ![p] = score]
    /\ reader' = IF reader.at = "reading" THEN [reader EXCEPT !.shifted = @ \cup {score}]
                 ELSE reader
    /\ UNCHANGED hidden

WithdrawPost(p) ==
    /\ p \in InFeed \ hidden
    /\ hidden' = hidden \cup {p}
    /\ UNCHANGED <<scoreOf, reader>>

Found(max, offset) == FoundIn(scoreOf, max, offset, PageSize)

SameScore(found) == SameScoreIn(scoreOf, found)

\* Mutant: posts the database hides are not counted.
OffsetOfVisible(found, max, offset) ==
    Cardinality({i \in SameScore(found) : found[i] \notin hidden})
        + IF scoreOf[Last(found)] = max THEN offset ELSE 0

NextOffset(found, max, offset) == NextOffsetIn(scoreOf, found, max, offset)

\* The answer of one call, and what the client keeps of it.
Page(r) ==
    LET found == Found(r.max, r.offset)
        visible == ToSet(found) \ hidden
    IN  /\ reader' = IF found = <<>> THEN [r EXCEPT !.at = "end"]
                     ELSE [r EXCEPT !.at = "reading",
                                    !.max = scoreOf[Last(found)],
                                    !.offset = NextOffset(found, r.max, r.offset),
                                    !.shown = @ \cup visible,
                                    !.again = @ \cup (r.shown \cap visible)]
        /\ UNCHANGED <<scoreOf, hidden>>

\* The first page asks for everything up to now.
FirstPage == reader.at = "idle" /\ Page([NotReading EXCEPT !.start = InFeed])

NextPage == reader.at = "reading" /\ Page(reader)

StopReading ==
    /\ reader.at # "idle"
    /\ reader' = NotReading
    /\ UNCHANGED <<scoreOf, hidden>>

PagesNext ==
    \/ \E p \in FeedPosts : WithdrawPost(p) \/ \E score \in 1..MaxScore : Arrives(p, score)
    \/ FirstPage \/ NextPage \/ StopReading

PagesSpec == PagesInit /\ [][PagesNext]_pageVars
-----------------------------------------------------------------------------
PagesTypeOK ==
    /\ scoreOf \in [FeedPosts -> 0..MaxScore]
    /\ hidden \subseteq FeedPosts
    /\ reader \in [at : {"idle", "reading", "end"}, max : 1..MaxScore, offset : Nat,
                   start : SUBSET FeedPosts, shown : SUBSET FeedPosts,
                   again : SUBSET FeedPosts, shifted : SUBSET (1..MaxScore)]

\* Who pages to the end has been shown everything that was in the feed at the
\* start and is still visible, although posts arrive late and shift the offsets
\* and withdrawn posts leave holes in the pages; and a post is shown twice only
\* if another one of the same score arrived meanwhile.
FeedPagesMissNothing ==
    /\ PagesTypeOK
    /\ reader.at = "end" => reader.start \ hidden \subseteq reader.shown
    /\ \A p \in reader.again : scoreOf[p] \in reader.shifted
=============================================================================
