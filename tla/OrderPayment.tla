----------------------------- MODULE OrderPayment -----------------------------
(***************************************************************************)
(* The Payment Service as the Order Service sees it: at most one payment   *)
(* per order, charged to a wallet or to an external gateway.  Sources:     *)
(* internal/payment/application/service.go and adapter/postgres/           *)
(* repository.go.  Amounts are counted in whole order totals.              *)
(***************************************************************************)
EXTENDS Integers, OrderIds

CONSTANTS
    MaxBalance,         \* bound: order totals a buyer's wallet may hold
    OpeningBalances     \* what the wallet may hold at first

ASSUME BalanceAssumption ==
    /\ MaxBalance \in Nat
    /\ OpeningBalances \subseteq 0..MaxBalance

VARIABLES
    payment,        \* status of the order's payment row, "none" before it exists
    provider,       \* provider of that row
    balance,        \* order totals the buyer of the order can pay from the wallet
    payEvent        \* the payment's outbox holds an event; delivery may repeat

payVars == <<payment, provider, balance, payEvent>>

PaymentStates == {"none", "pending", "succeeded", "failed", "refund_pending", "refunded"}
Providers == {"wallet", "gateway"}

PaymentTypeOK ==
    /\ payment \in [Orders -> PaymentStates]
    /\ provider \in [Orders -> Providers \cup {"none"}]
    /\ balance \in [Orders -> 0..MaxBalance]
    /\ payEvent \in [Orders -> BOOLEAN]

PaymentInit ==
    /\ payment = [o \in Orders |-> "none"]
    /\ provider = [o \in Orders |-> "none"]
    /\ balance \in [Orders -> OpeningBalances]
    /\ payEvent = [o \in Orders |-> FALSE]

-----------------------------------------------------------------------------
\* The part of the wallet CreatePayment after the wallets are locked: the
\* funds are compared before the unique index on order_id can object.
WalletDeclines(o) == balance[o] = 0

WalletCharge(o) ==
    /\ ~WalletDeclines(o) /\ payment[o] = "none"
    /\ payment' = [payment EXCEPT ![o] = "succeeded"]
    /\ provider' = [provider EXCEPT ![o] = "wallet"]
    /\ balance' = [balance EXCEPT ![o] = @ - 1]
    /\ UNCHANGED payEvent

GatewayCheckout(o) ==
    /\ payment[o] = "none"
    /\ payment' = [payment EXCEPT ![o] = "pending"]
    /\ provider' = [provider EXCEPT ![o] = "gateway"]
    /\ UNCHANGED <<balance, payEvent>>

\* A signed webhook or the payment reconciler settles a pending payment.
GatewayResult(o) ==
    /\ payment[o] = "pending"
    /\ \E result \in {"succeeded", "failed"} : payment' = [payment EXCEPT ![o] = result]
    /\ payEvent' = [payEvent EXCEPT ![o] = TRUE]
    /\ UNCHANGED <<provider, balance>>

\* RefundPayment reverses the ledger once; a refunded payment is returned as
\* it is, and a gateway may accept a refund it has not carried out yet.
RefundPossible(o) == payment[o] \in {"succeeded", "refund_pending", "refunded"}

CompleteRefund(o) ==
    /\ payment[o] \in {"succeeded", "refund_pending"}
    /\ payment' = [payment EXCEPT ![o] = "refunded"]
    /\ balance' = IF provider[o] = "wallet" /\ balance[o] < MaxBalance
                  THEN [balance EXCEPT ![o] = @ + 1] ELSE balance
    /\ payEvent' = [payEvent EXCEPT ![o] = TRUE]
    /\ UNCHANGED provider

DeferRefund(o) ==
    /\ provider[o] = "gateway" /\ payment[o] \in {"succeeded", "refund_pending"}
    /\ payment' = [payment EXCEPT ![o] = "refund_pending"]
    /\ UNCHANGED <<provider, balance, payEvent>>

RefundPayment(o) ==
    \/ CompleteRefund(o)
    \/ DeferRefund(o)
    \/ payment[o] = "refunded" /\ UNCHANGED payVars

\* ReconcilePendingPayments learns that the gateway has paid a refund out.
RefundSettles(o) == payment[o] = "refund_pending" /\ CompleteRefund(o)

\* The buyer tops the wallet up or spends from it elsewhere.
UpdateBalance(o) ==
    /\ \E amount \in 0..MaxBalance : balance' = [balance EXCEPT ![o] = amount]
    /\ UNCHANGED <<payment, provider, payEvent>>

-----------------------------------------------------------------------------
PaymentNext ==
    \E o \in Orders :
        \/ WalletCharge(o)
        \/ GatewayCheckout(o)
        \/ GatewayResult(o)
        \/ RefundPayment(o)
        \/ UpdateBalance(o)

PaymentSpec == PaymentInit /\ [][PaymentNext]_payVars
=============================================================================
