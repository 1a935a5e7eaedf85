----------------------------- MODULE MCFlashSale -----------------------------
(* Small instances of FlashSale for TLC.                                   *)
EXTENDS FlashSale, TLC

CONSTANTS u1, u2, o1, o2, c1, c2, r1

MCUsers == {u1, u2}
MCOrders == {o1, o2}
MCPayloads == Users \X Orders
MCConsumers == {c1, c2}
MCOneUser == {u1}
MCOneOrder == {o1}
MCOneConsumer == {c1}
MCReconcilers == {r1}
MCConsumerSymmetry == Permutations(MCConsumers)
MCBuyerSymmetry == Permutations(MCUsers) \cup Permutations(MCOrders)
=============================================================================
