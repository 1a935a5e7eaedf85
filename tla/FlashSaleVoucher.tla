--------------------------- MODULE FlashSaleVoucher ---------------------------
(* What the Redis activity and the MySQL rows of one voucher agree on.     *)
EXTENDS Integers, FiniteSets

CONSTANTS
    Users,
    Orders,         \* order IDs RedisIdWorker can issue
    NoUser,
    NoOrder,
    InitialStock,   \* the stock the voucher was created with, in both stores
    StockLimit      \* 2147483647, the largest stock either store accepts

ASSUME VoucherAssumption ==
    /\ NoUser \notin Users
    /\ NoOrder \notin Orders
    /\ InitialStock \in Nat \ {0}
    /\ StockLimit \in Nat
    /\ InitialStock <= StockLimit
    /\ IsFiniteSet(Users) /\ IsFiniteSet(Orders)
=============================================================================
