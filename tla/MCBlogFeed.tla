----------------------------- MODULE MCBlogFeed -----------------------------
(* Small instances of BlogFeed for TLC.                                    *)
EXTENDS BlogFeed

CONSTANTS p1, p2, k1, u1, u2, w1, w2

MCPublishers == {p1, p2}
MCKeys == {k1}
MCUsers == {u1, u2}
MCBroken == {u2}
MCWorkers == {w1, w2}
=============================================================================
