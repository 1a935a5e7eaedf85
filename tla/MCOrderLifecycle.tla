--------------------------- MODULE MCOrderLifecycle ---------------------------
(* Small instances of OrderLifecycle for TLC.                              *)
EXTENDS OrderLifecycle, TLC

CONSTANTS u1, u2, u3, o1, o2, o3, r1, r2

MCUsers == {u1, u2, u3}
MCOrders == {o1, o2, o3}
MCOneUser == {u1}
MCOneOrder == {o1}
MCReconcilers == {r1, r2}
MCOneReconciler == {r1}
\* Users, order IDs and reconcilers are each interchangeable.
MCSymmetry ==
    Permutations(MCUsers) \cup Permutations(MCOrders) \cup Permutations(MCReconcilers)
=============================================================================
