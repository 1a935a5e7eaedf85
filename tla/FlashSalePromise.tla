--------------------------- MODULE FlashSalePromise ---------------------------
(***************************************************************************)
(* What a flash sale promises its buyers and its merchant, with no store,  *)
(* queue or process in sight: a number of units on offer, and orders that  *)
(* hold one unit each from the moment they are accepted until they are     *)
(* cancelled.  OrderLifecycle implements this.                             *)
(***************************************************************************)
EXTENDS FlashSaleVoucher

VARIABLES
    offered,    \* units a new order can still get
    holder,     \* the user each order was accepted for
    order       \* what has become of each order

promiseVars == <<offered, holder, order>>

Holding == {o \in Orders : order[o] \in {"accepted", "unpaid", "paid"}}

PromiseInit ==
    /\ offered = 0
    /\ holder = [o \in Orders |-> NoUser]
    /\ order = [o \in Orders |-> "none"]

\* The sale opens once, with nothing taken yet.
Open ==
    /\ offered = 0
    /\ \A o \in Orders : order[o] = "none"
    /\ offered' = InitialStock
    /\ UNCHANGED <<holder, order>>

\* An order takes one unit; a user gets one order, cancelled or not.
Accept(u, o) ==
    /\ offered > 0
    /\ \A p \in Orders : holder[p] # u
    /\ order[o] = "none"
    /\ offered' = offered - 1
    /\ holder' = [holder EXCEPT ![o] = u]
    /\ order' = [order EXCEPT ![o] = "accepted"]

Become(o, before, now) ==
    /\ order[o] = before
    /\ order' = [order EXCEPT ![o] = now]
    /\ UNCHANGED <<offered, holder>>

\* A unit is offered again only if no order holds it.
OfferAgain ==
    /\ offered + Cardinality(Holding) < InitialStock
    /\ offered' = offered + 1
    /\ UNCHANGED <<holder, order>>

Close ==
    /\ offered' = 0
    /\ UNCHANGED <<holder, order>>

PromiseNext ==
    \/ Open \/ OfferAgain \/ Close
    \/ \E u \in Users, o \in Orders : Accept(u, o)
    \/ \E o \in Orders : \/ Become(o, "accepted", "unpaid")
                         \/ Become(o, "unpaid", "paid")
                         \/ Become(o, "unpaid", "cancelled")

PromiseSpec == PromiseInit /\ [][PromiseNext]_promiseVars
=============================================================================
