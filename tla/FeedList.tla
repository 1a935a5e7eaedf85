------------------------------ MODULE FeedList -------------------------------
(***************************************************************************)
(* A feed as queryBlogOfFollow reads it: a function from posts to scores,  *)
(* NotThere outside of the sorted set; one page by a score and the number  *)
(* of posts of that score to pass; and the offset of the next page.        *)
(***************************************************************************)
EXTENDS Integers, FiniteSets, Sequences, SequencesExt

NotThere == 0

AheadIn(feed, p, q) == feed[p] > feed[q] \/ (feed[p] = feed[q] /\ p > q)

\* ZREVRANGEBYSCORE: the highest score first, equal scores by member.
RankedIn(feed, max) ==
    LET listed == {p \in DOMAIN feed : feed[p] # NotThere /\ feed[p] <= max}
    IN  [i \in 1..Cardinality(listed) |->
            CHOOSE p \in listed : Cardinality({q \in listed : AheadIn(feed, q, p)}) = i - 1]

\* LIMIT offset size
FoundIn(feed, max, offset, size) ==
    LET ranked == RankedIn(feed, max)
        end == offset + size
    IN  SubSeq(ranked, offset + 1, IF Len(ranked) < end THEN Len(ranked) ELSE end)

SameScoreIn(feed, found) == {i \in DOMAIN found : feed[found[i]] = feed[Last(found)]}

\* How many members of the last score have been passed, over all pages.
NextOffsetIn(feed, found, max, offset) ==
    Cardinality(SameScoreIn(feed, found)) + IF feed[Last(found)] = max THEN offset ELSE 0
=============================================================================
