---------------------------- MODULE MCSideBySide -----------------------------
(* Follows, Likes, FeedPages and DeniedCommands in one run.  They share no *)
(* state, so a behaviour takes one of them, chosen at the start, and leaves *)
(* the others at rest: the run explores the state spaces side by side.     *)
EXTENDS Follows, Likes, FeedPages, DeniedCommands

CONSTANTS a1, a2, q1, q2, q3

VARIABLE part

MCAccounts == {a1, a2}
MCRequests == {q1, q2, q3}
MCFeedPosts == 1..4
MCTokens == {1, 2}

sideVars == <<followVars, likeVars, pageVars, deniedVars, part>>

SideInit ==
    /\ FollowInit /\ LikesInit /\ PagesInit /\ DeniedInit
    /\ part \in {"follows", "likes", "pages", "denied"}
    /\ part # "denied" => account.account = "active"

SideNext ==
    /\ UNCHANGED part
    /\ \/ part = "follows" /\ FollowNext /\ UNCHANGED <<likeVars, pageVars, deniedVars>>
       \/ part = "likes" /\ LikesNext /\ UNCHANGED <<followVars, pageVars, deniedVars>>
       \/ part = "pages" /\ PagesNext /\ UNCHANGED <<followVars, likeVars, deniedVars>>
       \/ part = "denied" /\ DeniedNext /\ UNCHANGED <<followVars, likeVars, pageVars>>

SideSpec == SideInit /\ [][SideNext]_sideVars
=============================================================================
