----------------------------- MODULE PaymentLedger -----------------------------
(***************************************************************************)
(* The Payment Service, statement by statement: wallets and double-entry   *)
(* ledger, wallet and gateway payments, webhook inbox, payment reconciler, *)
(* refunds.  Sources: internal/payment/application/service.go and          *)
(* adapter/postgres/repository.go.  READ COMMITTED: SELECT ... FOR UPDATE  *)
(* waits for the row and reads its latest version; a transaction's writes  *)
(* become visible in the step that commits.  Refines OrderPayment, the     *)
(* service as the checkout saga sees it.                                   *)
(***************************************************************************)
EXTENDS Integers, OrderIds, Functions

CONSTANTS
    Workers,            \* gRPC, webhook and reconciler goroutines, one transaction each
    Nobody,             \* owner of a row lock nobody holds
    Owners,             \* owners of wallets
    Platform, Clearing, Funding,    \* the three system wallets
    Buyer,              \* Buyer[o]: who pays order o
    Allocation,         \* Allocation[o][w]: cents of order o due to w before fees
    FeeBPS,             \* platform fee in basis points
    Adjustments,        \* idempotency keys of balance adjustments
    Target, Delta,      \* whose balance a key adjusts, by how many cents
    OwnerOrder, IdOrder \* ranks of the wallets by owner_id and by id

Customers == Owners \ {Platform, Clearing, Funding}
AllowNegative(w) == w \in {Clearing, Funding}

ASSUME LedgerAssumption ==
    /\ IsFiniteSet(Owners) /\ {Platform, Clearing, Funding} \subseteq Owners
    /\ Nobody \notin Workers
    /\ Buyer \in [Orders -> Customers]
    /\ Allocation \in [Orders -> [Owners -> Nat]]
    /\ \A o \in Orders : Allocation[o][Buyer[o]] = 0
    /\ FeeBPS \in 0..10000
    /\ IsFiniteSet(Adjustments)
    /\ Target \in [Adjustments -> Customers] /\ Delta \in [Adjustments -> Int]
    /\ OwnerOrder \in [Owners -> Nat] /\ IdOrder \in [Owners -> Nat]

VARIABLES
    status, via,        \* the payment row of each order, "none" before it exists
    announced,          \* the payment's outbox holds an event
    wallet,             \* balance_cents of each wallet
    ledger,             \* committed ledger transactions with their entries
    inbox,              \* webhook events consumed
    gateway,            \* what happened to the buyer's money at the gateway
    tx,                 \* the transaction each worker is in
    walletLock, payLock \* owners of row locks

rows == <<status, via, announced, wallet, ledger, inbox>>
locks == <<walletLock, payLock>>
ledgerVars == <<rows, gateway, tx, locks>>

-----------------------------------------------------------------------------
\* Fees and deltas: integer arithmetic on cents.
Fee(amount) == (amount \div 10000) * FeeBPS + ((amount % 10000) * FeeBPS) \div 10000

Total(o) == SumFunctionOnSet(Allocation[o], Owners)

TotalFee(o) == SumFunctionOnSet([w \in Owners |-> Fee(Allocation[o][w])], Owners)

\* Mutation: the platform's fee is computed on the total, not per allocation.
DeltasFeeOfTotal(o, payer) ==
    [w \in Owners |->
        (IF w = payer THEN -Total(o) ELSE 0) + (Allocation[o][w] - Fee(Allocation[o][w]))
        + (IF w = Platform THEN Fee(Total(o)) ELSE 0)]

\* What the payment of o, paid by payer, does to every wallet.
Deltas(o, payer) ==
    [w \in Owners |->
        (IF w = payer THEN -Total(o) ELSE 0) + (Allocation[o][w] - Fee(Allocation[o][w]))
        + (IF w = Platform THEN TotalFee(o) ELSE 0)]

\* The wallets a payment locks: keys of the deltas, also those whose delta is 0.
Touched(o, payer) == {payer, Platform} \cup {w \in Owners : Allocation[o][w] > 0}

Posted(key) == \E e \in ledger : e.key = key
PaymentEntry(o) == CHOOSE e \in ledger : e.key = <<"payment", o>>


-----------------------------------------------------------------------------
\* A transaction: its operation, the row it is about, the wallets still to be
\* locked, the balances read so far, the gateway's answer and who brought it.
Zero == [w \in Owners |-> 0]
Idle == [op |-> "none", ref |-> Nobody, pc |-> "idle", todo |-> {}, seen |-> Zero,
         answer |-> "none", from |-> "none"]

Begin(t, op, ref, pc, todo) ==
    /\ tx[t].pc = "idle"
    /\ tx' = [tx EXCEPT ![t] = [Idle EXCEPT !.op = op, !.ref = ref, !.pc = pc, !.todo = todo]]
    /\ UNCHANGED <<rows, gateway, locks>>

BeginResult(t, o, answer, from) ==
    /\ tx[t].pc = "idle"
    /\ tx' = [tx EXCEPT ![t] = [Idle EXCEPT !.op = "result", !.ref = o, !.pc = "payment",
                                            !.answer = answer, !.from = from]]
    /\ UNCHANGED <<rows, gateway, locks>>

At(t, op, pc) == tx[t].op = op /\ tx[t].pc = pc
Ready(t, op) == At(t, op, "wallets") /\ tx[t].todo = {}

Finish(t) ==
    /\ tx' = [tx EXCEPT ![t] = Idle]
    /\ walletLock' = [w \in Owners |-> IF walletLock[w] = t THEN Nobody ELSE walletLock[w]]
    /\ payLock' = [o \in Orders |-> IF payLock[o] = t THEN Nobody ELSE payLock[o]]

Rollback(t) == Finish(t) /\ UNCHANGED <<rows, gateway>>

\* A cancelled context, a lost connection, a crash or PostgreSQL's deadlock
\* detector ends a transaction.
Abort(t) == tx[t].pc # "idle" /\ Rollback(t)

\* Mutation: the wallets are read without FOR UPDATE.
ReadWallet(t) ==
    /\ tx[t].pc = "wallets"
    /\ \E w \in tx[t].todo :
        tx' = [tx EXCEPT ![t].todo = @ \ {w}, ![t].seen[w] = wallet[w]]
    /\ UNCHANGED <<rows, gateway, locks>>

\* SELECT ... ORDER BY ... FOR UPDATE: payments and adjustments lock wallets in
\* the order of owner_id, refunds in the order of id.
LockWallet(t) ==
    LET rank == IF tx[t].op = "refund" THEN IdOrder ELSE OwnerOrder IN
    /\ tx[t].pc = "wallets"
    /\ \E w \in tx[t].todo :
        /\ \A v \in tx[t].todo : rank[w] <= rank[v]
        /\ walletLock[w] = Nobody
        /\ walletLock' = [walletLock EXCEPT ![w] = t]
        /\ tx' = [tx EXCEPT ![t].todo = @ \ {w}, ![t].seen[w] = wallet[w]]
    /\ UNCHANGED <<rows, gateway, payLock>>

\* The checks and writes of a posting use the balances read with the locks.
Affordable(t, entries, ws) == \A w \in ws : AllowNegative(w) \/ tx[t].seen[w] + entries[w] >= 0

Post(t, kind, key, entries, ws) ==
    /\ ledger' = ledger \cup {[kind |-> kind, ref |-> tx[t].ref, key |-> key, entries |-> entries]}
    /\ wallet' = [w \in Owners |-> IF w \in ws THEN tx[t].seen[w] + entries[w] ELSE wallet[w]]

-----------------------------------------------------------------------------
\* AdjustBalance: a key already posted is answered without a change.
AdjustBalance(t, k) ==
    /\ ~Posted(<<"adjust", k>>)
    /\ Begin(t, "adjust", k, "wallets", {Target[k], Funding})

AdjustEntries(k) ==
    [w \in Owners |-> CASE w = Target[k] -> Delta[k] [] w = Funding -> -Delta[k] [] OTHER -> 0]

PostAdjustment(t) ==
    LET k == tx[t].ref  touched == {Target[k], Funding} IN
    /\ Ready(t, "adjust")
    /\ IF Posted(<<"adjust", k>>) \/ ~Affordable(t, AdjustEntries(k), {Target[k]})
       THEN Rollback(t)
       ELSE /\ Post(t, "balance_adjustment", <<"adjust", k>>, AdjustEntries(k), touched)
            /\ Finish(t)
            /\ UNCHANGED <<status, via, announced, inbox, gateway>>

\* CreatePayment from the wallet: an existing payment is answered as it is.
CreatePayment(t, o) ==
    /\ status[o] = "none"
    /\ Begin(t, "pay", o, "wallets", Touched(o, Buyer[o]))

\* Mutation: nothing objects to a second payment of an order.
PostPaymentTwice(t) ==
    LET o == tx[t].ref  entries == Deltas(o, Buyer[o])  touched == Touched(o, Buyer[o]) IN
    /\ Ready(t, "pay")
    /\ IF ~Affordable(t, entries, touched)
       THEN Rollback(t)
       ELSE /\ Post(t, "payment", <<"payment", o>>, entries, touched)
            /\ status' = [status EXCEPT ![o] = "succeeded"]
            /\ via' = [via EXCEPT ![o] = "wallet"]
            /\ Finish(t)
            /\ UNCHANGED <<announced, inbox, gateway>>

\* The funds are compared first; UNIQUE (order_id) objects to a second payment.
PostPayment(t) ==
    LET o == tx[t].ref  entries == Deltas(o, Buyer[o])  touched == Touched(o, Buyer[o]) IN
    /\ Ready(t, "pay")
    /\ IF ~Affordable(t, entries, touched) \/ status[o] # "none"
       THEN Rollback(t)
       ELSE /\ Post(t, "payment", <<"payment", o>>, entries, touched)
            /\ status' = [status EXCEPT ![o] = "succeeded"]
            /\ via' = [via EXCEPT ![o] = "wallet"]
            /\ Finish(t)
            /\ UNCHANGED <<announced, inbox, gateway>>

\* CreatePayment at a gateway: the signed checkout URL is made without a call,
\* the row is inserted after the lookup, and the buyer gets the URL.
CreateCheckout(t, o) == status[o] = "none" /\ Begin(t, "checkout", o, "insert", {})

CreateGatewayPayment(t) ==
    LET o == tx[t].ref IN
    /\ At(t, "checkout", "insert")
    /\ IF status[o] # "none" THEN Rollback(t)
       ELSE /\ status' = [status EXCEPT ![o] = "pending"]
            /\ via' = [via EXCEPT ![o] = "gateway"]
            /\ gateway' = [gateway EXCEPT ![o] = "open"]
            /\ Finish(t)
            /\ UNCHANGED <<announced, wallet, ledger, inbox>>

-----------------------------------------------------------------------------
\* The gateway: the buyer pays at the checkout, too little, or not at all; a
\* refund it accepted is carried out or turned down later.
BuyerPays(o) ==
    /\ gateway[o] = "open"
    /\ \E outcome \in {"paid", "short", "failed"} : gateway' = [gateway EXCEPT ![o] = outcome]
    /\ UNCHANGED <<rows, tx, locks>>

GatewaySettlesRefund(o) ==
    /\ gateway[o] = "refunding"
    /\ \E outcome \in {"refunded", "paid"} : gateway' = [gateway EXCEPT ![o] = outcome]
    /\ UNCHANGED <<rows, tx, locks>>

\* Notifications are repeated and speak of the payment only, never of refunds.
Notice(o) ==
    CASE gateway[o] \in {"paid", "refunding", "refunded"} -> {"succeeded"}
      [] gateway[o] \in {"short", "failed"} -> {gateway[o]}
      [] OTHER -> {}

Query(o) ==
    CASE gateway[o] = "open" -> "pending"
      [] gateway[o] = "paid" -> "succeeded"
      [] gateway[o] = "refunding" -> "refund_pending"
      [] OTHER -> gateway[o]

\* ApplyGatewayResult begins by inserting the event; UNIQUE (provider, event_id)
\* makes a repeated event wait for the first one and then be a duplicate.
ProcessWebhook(t, o) ==
    \E notice \in Notice(o) :
        /\ <<o, notice>> \notin inbox
        /\ \A u \in Workers : ~(tx[u].from = "webhook" /\ tx[u].ref = o /\ tx[u].answer = notice)
        /\ BeginResult(t, o, notice, "webhook")

\* The reconciler applies a matching answer that settles what it has listed; the
\* response id of a query is new each time.
ReconcilePendingPayments(t, o) ==
    /\ \/ status[o] = "pending" /\ Query(o) \notin {"pending", "short"}
       \/ status[o] = "refund_pending" /\ Query(o) = "refunded"
    /\ BeginResult(t, o, Query(o), "query")

Consume(t) ==
    inbox' = IF tx[t].from = "webhook" THEN inbox \cup {<<tx[t].ref, tx[t].answer>>} ELSE inbox

LockPaymentAnd(t, op, todo) ==
    /\ payLock' = [payLock EXCEPT ![tx[t].ref] = t]
    /\ tx' = [tx EXCEPT ![t].op = op, ![t].pc = "wallets", ![t].todo = todo]
    /\ UNCHANGED <<rows, gateway, walletLock>>

EntryWallets(o) == {w \in Owners : PaymentEntry(o).entries[w] # 0}

\* Mutation: the amount the gateway reports is not compared.
ApplyAnyAmount(t) ==
    LET o == tx[t].ref IN
    /\ At(t, "result", "payment") /\ payLock[o] = Nobody
    /\ IF status[o] = "pending" /\ tx[t].answer \in {"succeeded", "short"}
       THEN LockPaymentAnd(t, "result", Touched(o, Clearing))
       ELSE Rollback(t)

\* Mutation: the event is recorded before the transaction that applies it.
RecordThenApply(t) ==
    LET o == tx[t].ref IN
    /\ At(t, "result", "payment") /\ payLock[o] = Nobody /\ status[o] = "pending"
    /\ Consume(t)
    /\ payLock' = [payLock EXCEPT ![o] = t]
    /\ tx' = [tx EXCEPT ![t].pc = "wallets", ![t].todo = Touched(o, Clearing)]
    /\ UNCHANGED <<status, via, announced, wallet, ledger, gateway, walletLock>>

\* The rest of ApplyGatewayResult up to the ledger: the payment row is locked and
\* its status now decides what the result means.
ApplyGatewayResult(t) ==
    LET o == tx[t].ref  answer == tx[t].answer IN
    /\ At(t, "result", "payment") /\ payLock[o] = Nobody
    /\ CASE status[o] = "pending" /\ answer = "succeeded" ->
              LockPaymentAnd(t, "result", Touched(o, Clearing))
         [] status[o] = "refund_pending" /\ answer = "refunded" ->
              LockPaymentAnd(t, "refund", EntryWallets(o))
         [] status[o] = "pending" /\ answer = "failed" ->
              /\ status' = [status EXCEPT ![o] = "failed"]
              /\ announced' = [announced EXCEPT ![o] = TRUE]
              /\ Consume(t) /\ Finish(t)
              /\ UNCHANGED <<via, wallet, ledger, gateway>>
         [] OTHER ->
              /\ Consume(t) /\ Finish(t)
              /\ UNCHANGED <<status, via, announced, wallet, ledger, gateway>>

PostGatewayLedger(t) ==
    LET o == tx[t].ref  entries == Deltas(o, Clearing) IN
    /\ Ready(t, "result")
    /\ Post(t, "payment", <<"payment", o>>, entries, Touched(o, Clearing))
    /\ status' = [status EXCEPT ![o] = "succeeded"]
    /\ announced' = [announced EXCEPT ![o] = TRUE]
    /\ Consume(t) /\ Finish(t)
    /\ UNCHANGED <<via, gateway>>

-----------------------------------------------------------------------------
\* RefundPayment reads the payment without a lock and asks the gateway first.
RefundPayment(t, o) ==
    \/ via[o] = "wallet" /\ status[o] = "succeeded" /\ Begin(t, "refund", o, "payment", {})
    \/ via[o] = "gateway" /\ status[o] = "succeeded" /\ Begin(t, "refund", o, "gateway", {})
    \/ /\ via[o] = "gateway" /\ status[o] = "refund_pending" /\ Query(o) = "refunded"
       /\ Begin(t, "refund", o, "payment", {})

\* The call's answer may be lost.  A repeated request has the same RequestId, is
\* recognised (code 94) and counts as accepted.
GatewayRefund(t) ==
    LET o == tx[t].ref IN
    /\ At(t, "refund", "gateway")
    /\ \/ /\ gateway[o] = "paid"
          /\ \E outcome \in {"refunded", "refunding"} :
                /\ gateway' = [gateway EXCEPT ![o] = outcome]
                /\ tx' = [tx EXCEPT ![t].pc = IF outcome = "refunded" THEN "payment" ELSE "mark"]
          /\ UNCHANGED locks
       \/ /\ gateway[o] = "paid"
          /\ \E outcome \in {"refunded", "refunding"} : gateway' = [gateway EXCEPT ![o] = outcome]
          /\ Finish(t)
       \/ /\ gateway[o] \in {"refunding", "refunded"}
          /\ tx' = [tx EXCEPT ![t].pc = "mark"]
          /\ UNCHANGED <<gateway, locks>>
    /\ UNCHANGED rows

\* Mutation: the status is none the table knows.
MarkRefunding(t) ==
    LET o == tx[t].ref IN
    /\ At(t, "refund", "mark") /\ payLock[o] = Nobody
    /\ status' = [status EXCEPT ![o] = IF @ = "succeeded" THEN "refunding" ELSE @]
    /\ Finish(t)
    /\ UNCHANGED <<via, announced, wallet, ledger, inbox, gateway>>

MarkRefundPending(t) ==
    LET o == tx[t].ref IN
    /\ At(t, "refund", "mark") /\ payLock[o] = Nobody
    /\ status' = [status EXCEPT ![o] = IF @ = "succeeded" THEN "refund_pending" ELSE @]
    /\ Finish(t)
    /\ UNCHANGED <<via, announced, wallet, ledger, inbox, gateway>>

RefundKey(t) == <<IF tx[t].from = "query" THEN "gateway-refund" ELSE "refund", tx[t].ref>>

\* Mutation: the status read before the lock is trusted.
LockRefundUnchecked(t) ==
    LET o == tx[t].ref IN
    /\ At(t, "refund", "payment") /\ payLock[o] = Nobody
    /\ IF Posted(RefundKey(t)) THEN Rollback(t) ELSE LockPaymentAnd(t, "refund", EntryWallets(o))

\* RefundPayment of the repository: status and key are looked at under the lock.
LockRefund(t) ==
    LET o == tx[t].ref IN
    /\ At(t, "refund", "payment") /\ payLock[o] = Nobody
    /\ IF status[o] \notin {"succeeded", "refund_pending"} \/ Posted(RefundKey(t))
       THEN Rollback(t)
       ELSE LockPaymentAnd(t, "refund", EntryWallets(o))

\* Mutation: a refund does not ask whether the sellers still have the money.
PostRefundAnyway(t) ==
    LET o == tx[t].ref  entries == [w \in Owners |-> -PaymentEntry(o).entries[w]] IN
    /\ Ready(t, "refund")
    /\ Post(t, "refund", RefundKey(t), entries, EntryWallets(o))
    /\ status' = [status EXCEPT ![o] = "refunded"]
    /\ announced' = [announced EXCEPT ![o] = TRUE]
    /\ Finish(t)
    /\ UNCHANGED <<via, inbox, gateway>>

\* reversePaymentLedger: the entries of the payment with the other sign, if every
\* wallet that may not be negative can pay.
PostRefund(t) ==
    LET o == tx[t].ref  entries == [w \in Owners |-> -PaymentEntry(o).entries[w]] IN
    /\ Ready(t, "refund")
    /\ IF ~Affordable(t, entries, EntryWallets(o)) THEN Rollback(t)
       ELSE /\ Post(t, "refund", RefundKey(t), entries, EntryWallets(o))
            /\ status' = [status EXCEPT ![o] = "refunded"]
            /\ announced' = [announced EXCEPT ![o] = TRUE]
            /\ Finish(t)
            /\ UNCHANGED <<via, inbox, gateway>>

-----------------------------------------------------------------------------
\* At first customers may have topped their wallets up.
LedgerInit ==
    /\ status = [o \in Orders |-> "none"]
    /\ via = [o \in Orders |-> "none"]
    /\ announced = [o \in Orders |-> FALSE]
    /\ \E funded \in SUBSET {k \in Adjustments : Delta[k] > 0} :
        /\ ledger = {[kind |-> "balance_adjustment", ref |-> k, key |-> <<"adjust", k>>,
                      entries |-> AdjustEntries(k)] : k \in funded}
        /\ wallet = [w \in Owners |-> SumFunctionOnSet([k \in Adjustments |-> AdjustEntries(k)[w]], funded)]
    /\ inbox = {}
    /\ gateway = [o \in Orders |-> "none"]
    /\ tx = [t \in Workers |-> Idle]
    /\ walletLock = [w \in Owners |-> Nobody]
    /\ payLock = [o \in Orders |-> Nobody]

Request(t) ==
    \/ \E k \in Adjustments : AdjustBalance(t, k)
    \/ \E o \in Orders :
        \/ CreatePayment(t, o)
        \/ CreateCheckout(t, o)
        \/ ProcessWebhook(t, o)
        \/ ReconcilePendingPayments(t, o)
        \/ RefundPayment(t, o)

Statement(t) ==
    \/ LockWallet(t)
    \/ PostAdjustment(t)
    \/ PostPayment(t)
    \/ CreateGatewayPayment(t)
    \/ ApplyGatewayResult(t)
    \/ PostGatewayLedger(t)
    \/ GatewayRefund(t)
    \/ MarkRefundPending(t)
    \/ LockRefund(t)
    \/ PostRefund(t)

LedgerNext ==
    \/ \E t \in Workers : Request(t) \/ Statement(t) \/ Abort(t)
    \/ \E o \in Orders : BuyerPays(o) \/ GatewaySettlesRefund(o)

LedgerSpec == LedgerInit /\ [][LedgerNext]_ledgerVars

-----------------------------------------------------------------------------
Ops == {"none", "adjust", "pay", "checkout", "result", "refund"}
TxPcs == {"idle", "insert", "payment", "gateway", "mark", "wallets"}

\* Type invariant of the rows, the gateway and the open transactions.
LedgerTypeOK ==
    /\ status \in [Orders -> {"none", "pending", "succeeded", "failed", "refund_pending", "refunded"}]
    /\ via \in [Orders -> {"none", "wallet", "gateway"}]
    /\ announced \in [Orders -> BOOLEAN]
    /\ wallet \in [Owners -> Int]
    /\ \A e \in ledger : e.kind \in {"payment", "refund", "balance_adjustment"} /\ e.entries \in [Owners -> Int]
    /\ inbox \subseteq Orders \X {"succeeded", "failed", "short"}
    /\ gateway \in [Orders -> {"none", "open", "paid", "short", "failed", "refunding", "refunded"}]
    /\ \A t \in Workers :
        /\ tx[t].op \in Ops /\ tx[t].pc \in TxPcs /\ tx[t].todo \subseteq Owners
        /\ tx[t].seen \in [Owners -> Int]
    /\ walletLock \in [Owners -> Workers \cup {Nobody}]
    /\ payLock \in [Orders -> Workers \cup {Nobody}]

\* The entries of every ledger transaction add up to zero, whatever is rounded
\* off by fees, shared between sellers or sold by the platform itself.
TransactionsBalance == \A e \in ledger : SumFunctionOnSet(e.entries, Owners) = 0

\* A wallet holds exactly what its ledger entries say, although balances are
\* written as absolute numbers computed from an earlier read.
WalletsMatchLedger ==
    \A w \in Owners :
        wallet[w] = SumFunctionOnSet([e \in ledger |-> e.entries[w]], ledger)

\* No customer, seller or platform wallet is ever overdrawn.
NoOverdraft == \A w \in Owners : AllowNegative(w) \/ wallet[w] >= 0

\* The status of a payment tells what was posted: its payment once when it
\* succeeded, and its refund once, under whichever key, when it is refunded.
PostedAsStatusSays ==
    \A o \in Orders :
        LET posted(kind) == Cardinality({e \in ledger : e.kind = kind /\ e.ref = o}) IN
        /\ posted("payment") = IF status[o] \in {"succeeded", "refund_pending", "refunded"} THEN 1 ELSE 0
        /\ posted("refund") = IF status[o] = "refunded" THEN 1 ELSE 0

\* The ledger never runs ahead of the gateway: a gateway payment is posted only
\* when the buyer has paid the whole amount there, refunded only when the money is back.
GatewayMoneyIsReal ==
    \A o \in Orders : via[o] = "gateway" =>
        /\ status[o] \in {"succeeded", "refund_pending"} => gateway[o] \in {"paid", "refunding", "refunded"}
        /\ status[o] = "refunded" => gateway[o] = "refunded"

\* A webhook event is consumed only together with its effect: after the event of
\* a payment is in the inbox, that payment is no longer open.
ConsumedIsApplied ==
    \A o \in Orders : \A answer \in {"succeeded", "failed"} :
        <<o, answer>> \in inbox => status[o] \notin {"none", "pending"}

\* What the checkout saga assumes of payments is what these transactions do: the
\* abstract payment module, with the buyer's balance in whole order totals.
SagaView == INSTANCE OrderPayment WITH
    payment <- status,
    provider <- via,
    balance <- [o \in Orders |-> wallet[Buyer[o]] \div Total(o)],
    payEvent <- announced,
    MaxBalance <- SumFunctionOnSet([k \in Adjustments |-> IF Delta[k] > 0 THEN Delta[k] ELSE 0], Adjustments),
    OpeningBalances <- 0..SumFunctionOnSet([k \in Adjustments |-> IF Delta[k] > 0 THEN Delta[k] ELSE 0], Adjustments)

\* PaymentLedger implements the payment service that OrderSaga composes.
SagaPaymentSpec == SagaView!PaymentSpec
=============================================================================
