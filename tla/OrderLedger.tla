----------------------------- MODULE OrderLedger -----------------------------
(***************************************************************************)
(* One voucher's rows in MySQL: tb_seckill_voucher.stock, tb_voucher_order *)
(* and the cancellation outbox tb_order_cancellation.  Each definition is  *)
(* the effect of one committed transaction or one UPDATE of a mapper; its  *)
(* guard is the WHERE clause.                                              *)
(*                                                                         *)
(* A lease token is a fresh UUID per claim.  attempts grows with every     *)
(* claim of an order, so the attempt number stands for the token.          *)
(***************************************************************************)
EXTENDS FlashSaleVoucher

CONSTANT MaxReleases    \* releases of one order the outbox tries, ten in the code

ASSUME LedgerAssumption == MaxReleases \in Nat \ {0}

VARIABLES
    dbStock,        \* tb_seckill_voucher.stock
    buyer,          \* tb_voucher_order: the user of each order row
    status,         \* tb_voucher_order.status of each order row
    outbox          \* tb_order_cancellation

ledgerVars == <<dbStock, buyer, status, outbox>>

NoEntry == [status |-> "NONE", attempts |-> 0, token |-> 0,
            leased |-> FALSE, backoff |-> FALSE]

LedgerInit ==
    /\ dbStock = InitialStock
    /\ buyer = [o \in Orders |-> NoUser]
    /\ status = [o \in Orders |-> "absent"]
    /\ outbox = [o \in Orders |-> NoEntry]

OrdersOf(u) == {o \in Orders : buyer[o] = u}

\* The UPDATE and INSERT of persistVoucherOrder.  The UPDATE locks the stock
\* row until the commit, so the two and the unique key are one step.
CanInsert(u, o) == dbStock > 0 /\ buyer[o] = NoUser /\ OrdersOf(u) = {}

InsertOrder(u, o) ==
    /\ CanInsert(u, o)
    /\ dbStock' = dbStock - 1
    /\ buyer' = [buyer EXCEPT ![o] = u]
    /\ status' = [status EXCEPT ![o] = "unpaid"]
    /\ UNCHANGED outbox

\* Mutant: the stock is not returned.
CancelKeepsStock(u, o) ==
    /\ buyer[o] = u /\ status[o] = "unpaid"
    /\ status' = [status EXCEPT ![o] = "cancelled"]
    /\ outbox' = [outbox EXCEPT ![o] = [NoEntry EXCEPT !.status = "PENDING"]]
    /\ UNCHANGED <<dbStock, buyer>>

\* Mutant: a paid order can be cancelled.
CancelsPaid(u, o) ==
    /\ buyer[o] = u /\ status[o] \in {"unpaid", "paid"} /\ dbStock < StockLimit
    /\ status' = [status EXCEPT ![o] = "cancelled"]
    /\ dbStock' = dbStock + 1
    /\ outbox' = [outbox EXCEPT ![o] = [NoEntry EXCEPT !.status = "PENDING"]]
    /\ UNCHANGED buyer

\* Mutant: the row is deleted instead of marked.
CancelDeletes(u, o) ==
    /\ buyer[o] = u /\ status[o] = "unpaid" /\ dbStock < StockLimit
    /\ status' = [status EXCEPT ![o] = "absent"]
    /\ buyer' = [buyer EXCEPT ![o] = NoUser]
    /\ dbStock' = dbStock + 1
    /\ outbox' = [outbox EXCEPT ![o] = [NoEntry EXCEPT !.status = "PENDING"]]

\* cancelMine, under the row lock: cancelUnpaid, returnStock and the outbox
\* insert commit together or not at all.
CancelOrder(u, o) ==
    /\ buyer[o] = u /\ status[o] = "unpaid"
    /\ dbStock < StockLimit
    /\ outbox[o].status = "NONE"
    /\ status' = [status EXCEPT ![o] = "cancelled"]
    /\ dbStock' = dbStock + 1
    /\ outbox' = [outbox EXCEPT ![o] = [NoEntry EXCEPT !.status = "PENDING"]]
    /\ UNCHANGED buyer

\* Payment is not in this program; cancelUnpaid's WHERE status=1 is for it.
PayOrder(o) ==
    /\ status[o] = "unpaid"
    /\ status' = [status EXCEPT ![o] = "paid"]
    /\ UNCHANGED <<dbStock, buyer, outbox>>
-----------------------------------------------------------------------------
(* OrderCancellationMapper                                                 *)

Due(o) == outbox[o].status = "PENDING" /\ ~outbox[o].backoff /\ ~outbox[o].leased

\* Mutant: WHERE order_id alone, neither status nor token.
HoldsAnyLease(o, token) == outbox[o].status # "NONE"

Holds(o, token) == outbox[o].status = "PENDING" /\ outbox[o].token = token

UpdateOutbox(o, entry) ==
    /\ outbox' = [outbox EXCEPT ![o] = entry]
    /\ UNCHANGED <<dbStock, buyer, status>>

Unleased(o) == [outbox[o] EXCEPT !.token = 0, !.leased = FALSE]

CanClaim(o) == Due(o) /\ outbox[o].attempts < MaxReleases

ClaimEntry(o) ==
    /\ CanClaim(o)
    /\ UpdateOutbox(o, [outbox[o] EXCEPT !.attempts = @ + 1,
                                         !.token = outbox[o].attempts + 1,
                                         !.leased = TRUE])

CompleteEntry(o, token) ==
    /\ Holds(o, token)
    /\ UpdateOutbox(o, [Unleased(o) EXCEPT !.status = "COMPLETED"])

\* Mutant: a release that failed is recorded as done.
RetryCompletes(o, token) ==
    /\ Holds(o, token)
    /\ UpdateOutbox(o, [Unleased(o) EXCEPT !.status = "COMPLETED"])

RetryEntry(o, token) ==
    /\ Holds(o, token)
    /\ UpdateOutbox(o, [Unleased(o) EXCEPT
            !.status = IF outbox[o].attempts >= MaxReleases
                       THEN "REQUIRES_REVIEW" ELSE "PENDING",
            !.backoff = TRUE])

ReviewEntry(o, token) ==
    /\ Holds(o, token)
    /\ UpdateOutbox(o, [Unleased(o) EXCEPT !.status = "REQUIRES_REVIEW"])

\* Mutant: one release too many is waited for.
CanExhaustLater(o) ==
    /\ outbox[o].status = "PENDING" /\ ~outbox[o].leased
    /\ outbox[o].attempts > MaxReleases

CanExhaust(o) ==
    /\ outbox[o].status = "PENDING"
    /\ outbox[o].attempts >= MaxReleases
    /\ ~outbox[o].leased

ExhaustEntry(o) ==
    /\ CanExhaust(o)
    /\ UpdateOutbox(o, [Unleased(o) EXCEPT !.status = "REQUIRES_REVIEW"])

\* lease_until and next_attempt_at pass.
LeaseExpires(o) ==
    /\ outbox[o].leased
    /\ UpdateOutbox(o, [outbox[o] EXCEPT !.leased = FALSE])

BackoffEnds(o) ==
    /\ outbox[o].status = "PENDING" /\ outbox[o].backoff
    /\ UpdateOutbox(o, [outbox[o] EXCEPT !.backoff = FALSE])
=============================================================================
