-------------------------- MODULE FlashSaleActivity --------------------------
(***************************************************************************)
(* One flash-sale activity in Redis: the keys initialize-flash-sale.lua    *)
(* creates after the voucher's transaction committed, seckill.lua reserves *)
(* from and release-cancelled-order.lua gives back to.  Each script is one *)
(* atomic step; all keys carry the same absolute expiry.                   *)
(***************************************************************************)
EXTENDS FlashSaleVoucher

VARIABLES
    clock,          \* Redis TIME against beginAt, endAt and expireAt
    activity,       \* "committed" in MySQL, then "live", "failed" or "gone"
    stock,          \* seckill:stock
    participants,   \* seckill:order, the set of participants
    request,        \* seckill:request, user -> accepted order
    released        \* seckill:released, order -> marker

activityVars == <<clock, activity, stock, participants, request, released>>
activityKeys == <<stock, participants, request, released>>

NoRequests == [u \in Users |-> NoOrder]
NoMarkers == [o \in Orders |-> "none"]

ActivityInit ==
    /\ clock = "early"
    /\ activity = "committed"
    /\ stock = 0
    /\ participants = {}
    /\ request = NoRequests
    /\ released = NoMarkers

\* afterCommit runs the script once; an expired activity is refused.
Publish ==
    /\ activity = "committed" /\ clock # "expired"
    /\ activity' = "live"
    /\ stock' = InitialStock
    /\ UNCHANGED <<clock, participants, request, released>>

\* The call raises or is refused: 503, and nothing retries it.
PublishFails ==
    /\ activity = "committed"
    /\ activity' = "failed"
    /\ UNCHANGED <<clock, activityKeys>>

\* Time passes; at expireAt every key of the activity disappears at once.
Tick ==
    \/ /\ clock \in {"early", "open"}
       /\ clock' = IF clock = "early" THEN "open" ELSE "ended"
       /\ UNCHANGED <<activity, activityKeys>>
    \/ /\ clock = "ended"
       /\ clock' = "expired"
       /\ activity' = IF activity = "live" THEN "gone" ELSE activity
       /\ stock' = 0
       /\ participants' = {}
       /\ request' = NoRequests
       /\ released' = NoMarkers
-----------------------------------------------------------------------------
(* seckill.lua.  A replay is answered before time, status and stock are    *)
(* looked at; every refusal leaves the keys alone.                         *)

Replays(u) == request[u] # NoOrder

\* Mutant: a user who has an order is not recognised.
AcceptsAgain(u) == clock = "open" /\ activity = "live" /\ stock > 0

Accepts(u) ==
    /\ request[u] = NoOrder
    /\ u \notin participants
    /\ clock = "open"
    /\ activity = "live"
    /\ stock > 0

Reserve(u, o) ==
    /\ Accepts(u)
    /\ stock' = stock - 1
    /\ participants' = participants \cup {u}
    /\ request' = [request EXCEPT ![u] = o]
    /\ UNCHANGED <<clock, activity, released>>
-----------------------------------------------------------------------------
(* release-cancelled-order.lua                                             *)

\* Mutant: the marker of an earlier release is not looked at.
ReleaseResultUnmarked(u, o) ==
    IF clock = "expired" THEN "EXPIRED"
    ELSE IF activity # "live" \/ request = NoRequests \/ stock >= StockLimit THEN "INVALID"
    ELSE IF request[u] # o THEN "UNMATCHED" ELSE "RELEASED"

ReleaseResult(u, o) ==
    IF clock = "expired" THEN "EXPIRED"
    ELSE IF activity # "live" \/ request = NoRequests THEN "INVALID"
    ELSE IF released[o] # "none"
         THEN IF released[o] = "DONE" THEN "ALREADY_RELEASED" ELSE "INVALID"
    ELSE IF request[u] # o THEN "UNMATCHED"
    ELSE IF stock >= StockLimit THEN "INVALID"
    ELSE "RELEASED"

\* The script's effect; only a first, matching release changes anything.
Release(u, o) ==
    /\ IF ReleaseResult(u, o) = "RELEASED"
       THEN /\ stock' = stock + 1
            /\ released' = [released EXCEPT ![o] = "DONE"]
       ELSE UNCHANGED <<stock, released>>
    /\ UNCHANGED <<clock, activity, participants, request>>

\* Lua does not roll back: a command refused after the PENDING marker leaves
\* it behind, with the increment done or not.
ReleaseDies(u, o) ==
    /\ ReleaseResult(u, o) = "RELEASED"
    /\ stock' \in {stock, stock + 1}
    /\ released' = [released EXCEPT ![o] = "PENDING"]
    /\ UNCHANGED <<clock, activity, participants, request>>
=============================================================================
