------------------------------ MODULE OrderSaga ------------------------------
(***************************************************************************)
(* The checkout saga of the Order Service: several requests of a customer  *)
(* and several reconcilers work on an order at once, each a sequence of    *)
(* calls to the Book Service, the Payment Service and the orders database, *)
(* any of which may fail with the effect done, not done or still to come.  *)
(* Source: internal/order/application/service.go and                       *)
(* internal/order/adapter/postgres/repository.go.                          *)
(***************************************************************************)
EXTENDS StockContract, OrderPayment, Sequences

CONSTANTS
    Clients,            \* requests of customers that may be in progress at once
    Workers,            \* reconcilers and payment-event consumers
    Quantity,           \* copies of each book in each order
    MaxFaults,          \* bound: failed calls and lost handlers
    PromptCalls,        \* no timer runs out while a customer's request is in progress
    Overlapping,        \* requests customers make while another one is in progress
    BalanceChanges,     \* customers use their wallets for other things too
    Vias                \* providers the customer of each order tries

ASSUME SagaAssumption ==
    /\ Clients \cap Workers = {}
    /\ Quantity \in [Orders -> [Books -> 0..MaxQuantity]]
    /\ MaxFaults \in Nat
    /\ Overlapping \subseteq {"create", "cancel", "pay"}
    /\ PromptCalls \in BOOLEAN /\ BalanceChanges \in BOOLEAN
    /\ Vias \in [Orders -> SUBSET Providers]

VARIABLES
    status,         \* column status, "none" before the order exists
    paymentRef,     \* column payment_id is set
    expired,        \* reservation_expires_at has passed
    grace,          \* updated_at is older than the payment grace period
    events,         \* statuses announced through the outbox, in order
    cart,           \* the order's lines in the customer's cart
    proc,           \* where each request or reconciler is
    inflight,       \* calls whose caller gave up and which may still take effect
    faults          \* failures so far

orderVars == <<status, paymentRef, expired, grace, events>>
vars == <<stockVars, payVars, orderVars, cart, proc, inflight, faults>>

Procs == Clients \cup Workers
Statuses == {"none", "pending", "stock_reserved", "payment_pending", "confirmed",
             "cancelled", "compensation_pending"}
Pcs == {"idle", "reserve", "undo", "reject", "reserved", "clear_cart", "claim", "inspect",
        "begin", "charge", "debit", "lookup", "commit", "confirm", "refund", "release",
        "restore", "close"}
\* Why stock is given back: the compensation of a claimed order, a payment
\* nobody made, a failed one, a declined one, or a paid order that cannot be met;
\* for "undo", whether the order is to be cancelled after it.
Modes == {"none", "comp", "expire", "failed", "decline", "paid", "reject", "abandon"}
Requests == {"reserve", "commit", "release"} \X Orders \X Books
            \cup {"charge"} \X Orders \X Providers \cup {"refund"} \X Orders \X {"none"}

Items(o) == {b \in Books : Quantity[o][b] > 0}
Idle == [pc |-> "idle", o |-> CHOOSE o \in Orders : TRUE, mode |-> "none", todo |-> {},
         errs |-> {}, seen |-> "none", via |-> "none"]

SagaTypeOK ==
    /\ StockTypeOK /\ PaymentTypeOK
    /\ status \in [Orders -> Statuses]
    /\ paymentRef \in [Orders -> BOOLEAN]
    /\ expired \in [Orders -> BOOLEAN] /\ grace \in [Orders -> BOOLEAN]
    /\ \A o \in Orders : events[o] \in Seq(Statuses \ {"none"})
    /\ cart \in [Orders -> {"ordered", "restored", "absent"}]
    /\ proc \in [Procs -> [pc: Pcs, o: Orders, mode: Modes, todo: SUBSET Books,
                           errs: SUBSET {"refund", "release", "restore"},
                           seen: Statuses, via: Providers \cup {"none"}]]
    /\ inflight \subseteq Requests
    /\ faults \in 0..MaxFaults

Init ==
    /\ listed = Books
    /\ stock \in [Books -> 0..MaxStock]
    /\ supply = stock
    /\ resState = [o \in Orders |-> [b \in Books |-> "none"]]
    /\ resQuantity = [o \in Orders |-> [b \in Books |-> 0]]
    /\ PaymentInit
    /\ status = [o \in Orders |-> "none"]
    /\ paymentRef = [o \in Orders |-> FALSE]
    /\ expired = [o \in Orders |-> FALSE]
    /\ grace = [o \in Orders |-> FALSE]
    /\ events = [o \in Orders |-> <<>>]
    /\ cart = [o \in Orders |-> "ordered"]
    /\ proc = [p \in Procs |-> Idle]
    /\ inflight = {}
    /\ faults = 0

-----------------------------------------------------------------------------
(* Where a handler goes next.  r is the handler's record.                  *)

At(p, pc) == proc[p].pc = pc
Step(p, r) == proc' = [proc EXCEPT ![p] = r]
To(p, pc) == [proc[p] EXCEPT !.pc = pc]
Handler(o, pc) == [Idle EXCEPT !.pc = pc, !.o = o]

Reserving(o) == [Handler(o, "reserve") EXCEPT !.todo = Items(o)]
Undoing(r, mode, lines) == [r EXCEPT !.pc = "undo", !.mode = mode, !.todo = lines]
Releasing(r, mode) ==
    [r EXCEPT !.pc = "release", !.mode = mode, !.todo = Items(r.o), !.via = "none"]
Compensating(r) ==
    IF paymentRef[r.o] THEN [r EXCEPT !.pc = "refund", !.mode = "comp"] ELSE Releasing(r, "comp")
CompensatingPaid(r) == [r EXCEPT !.pc = "refund", !.mode = "paid"]
Committing(r) == [r EXCEPT !.pc = "commit", !.todo = Items(r.o), !.via = "none"]

\* After the payment is known: pending is answered to the customer, succeeded
\* commits the stock, anything else is reported as declined.
AfterPayment(r) == IF payment[r.o] = "succeeded" THEN Committing(r) ELSE Idle

AfterUndo(r) == IF r.todo # {} THEN r
                ELSE IF r.mode = "reject" THEN [r EXCEPT !.pc = "reject"] ELSE Idle

AfterRelease(r) ==
    IF r.todo # {} THEN r
    ELSE IF "release" \in r.errs
    THEN IF r.mode = "paid" THEN [r EXCEPT !.pc = "close"] ELSE Idle
    ELSE [r EXCEPT !.pc = IF r.mode \in {"comp", "paid"} THEN "restore" ELSE "close"]

-----------------------------------------------------------------------------
(* The three kinds of call, each of which may fail.                        *)

Fault == faults < MaxFaults /\ faults' = faults + 1

SetStatus(o, target, paid) ==
    /\ status' = [status EXCEPT ![o] = target]
    /\ paymentRef' = [paymentRef EXCEPT ![o] = @ \/ paid]
    /\ grace' = [grace EXCEPT ![o] = FALSE]
    /\ events' = [events EXCEPT ![o] = Append(@, target)]
    /\ UNCHANGED expired

\* Mutation: the status is written without looking at the current one.
UpdateOrderStateUnchecked(p, allowed, target, paid, onOk, onErr) ==
    /\ SetStatus(proc[p].o, target, paid) /\ Step(p, onOk)
    /\ UNCHANGED <<stockVars, payVars, cart, inflight, faults>>

\* UpdateOrderState: an order already in the target status is a success.
UpdateOrderState(p, allowed, target, paid, onOk, onErr) ==
    LET o == proc[p].o IN
    /\ \/ status[o] = target /\ UNCHANGED <<orderVars, faults>> /\ Step(p, onOk)
       \/ status[o] # target /\ status[o] \in allowed /\ SetStatus(o, target, paid)
          /\ UNCHANGED faults /\ Step(p, onOk)
       \/ status[o] \notin allowed \cup {target} /\ UNCHANGED <<orderVars, faults>> /\ Step(p, onErr)
       \/ /\ Fault /\ Step(p, onErr)
          /\ \/ UNCHANGED orderVars
             \/ status[o] # target /\ status[o] \in allowed /\ SetStatus(o, target, paid)
    /\ UNCHANGED <<stockVars, payVars, cart, inflight>>

Accepted(m) ==
    CASE m[1] = "reserve" -> ReserveAccepted(m[2], m[3], Quantity[m[2]][m[3]])
      [] m[1] = "commit"  -> CommitAccepted(m[2], m[3])
      [] m[1] = "release" -> ReleaseAccepted(m[2], m[3])

Perform(m) ==
    \/ m[1] = "reserve" /\ ReserveStock(m[2], m[3], Quantity[m[2]][m[3]])
    \/ m[1] = "commit" /\ CommitStock(m[2], m[3])
    \/ m[1] = "release" /\ ReleaseStock(m[2], m[3])

CallBookService(p, m, onOk, onErr) ==
    /\ \/ Accepted(m) /\ Perform(m) /\ Step(p, onOk) /\ UNCHANGED <<inflight, faults>>
       \/ ~Accepted(m) /\ Step(p, onErr) /\ UNCHANGED <<stockVars, inflight, faults>>
       \/ /\ Fault /\ inflight' = inflight \cup {m} /\ Step(p, onErr)
          /\ UNCHANGED stockVars
    /\ UNCHANGED <<payVars, orderVars, cart>>

\* A call to the Payment Service that fails may still take effect later.
LosePayment(p, m, onErr) ==
    /\ Fault /\ inflight' = inflight \cup {m} /\ Step(p, onErr)
    /\ UNCHANGED <<stockVars, payVars, orderVars, cart>>

-----------------------------------------------------------------------------
(* Requests and timers that start work on an order.                        *)

NoRequest(o) == \A c \in Clients : At(c, "idle") \/ proc[c].o # o
MayRequest(kind, c, o) == At(c, "idle") /\ (kind \in Overlapping \/ NoRequest(o))

\* A repeated request (same Idempotency-Key) takes a pending order up again.
CreateOrder(c, o) ==
    /\ MayRequest("create", c, o)
    /\ \/ status[o] = "none" /\ SetStatus(o, "pending", FALSE)
       \/ status[o] = "pending" /\ UNCHANGED orderVars
    /\ Step(c, Reserving(o))
    /\ UNCHANGED <<stockVars, payVars, cart, inflight, faults>>

CancelOrder(c, o) ==
    /\ MayRequest("cancel", c, o) /\ status[o] \in {"pending", "stock_reserved"}
    /\ Step(c, [Handler(o, "claim") EXCEPT !.seen = status[o]])
    /\ UNCHANGED <<stockVars, payVars, orderVars, cart, inflight, faults>>

PayOrder(c, o, via) ==
    /\ MayRequest("pay", c, o)
    /\ \/ status[o] = "stock_reserved" /\ Step(c, [Handler(o, "begin") EXCEPT !.via = via])
       \/ status[o] = "payment_pending" /\ Step(c, [Handler(o, "charge") EXCEPT !.via = via])
    /\ UNCHANGED <<stockVars, payVars, orderVars, cart, inflight, faults>>

\* Mutation: the pass lists timed-out orders only.
ReconcileTimersOnly(w, o) ==
    /\ At(w, "idle")
    /\ \/ /\ status[o] \in {"pending", "stock_reserved"} /\ expired[o]
          /\ Step(w, [Handler(o, "claim") EXCEPT !.seen = status[o]])
       \/ status[o] = "payment_pending" /\ grace[o] /\ Step(w, Handler(o, "inspect"))
    /\ UNCHANGED <<stockVars, payVars, orderVars, cart, inflight, faults>>

\* One order of a pass of the reconciler, with the status the pass has read.
Reconcile(w, o) ==
    /\ At(w, "idle")
    /\ \/ status[o] = "compensation_pending" /\ Step(w, Compensating(Handler(o, "idle")))
       \/ /\ status[o] \in {"pending", "stock_reserved"} /\ expired[o]
          /\ Step(w, [Handler(o, "claim") EXCEPT !.seen = status[o]])
       \/ status[o] = "payment_pending" /\ grace[o] /\ Step(w, Handler(o, "inspect"))
    /\ UNCHANGED <<stockVars, payVars, orderVars, cart, inflight, faults>>

\* A payment event, delivered at least once.
HandlePaymentEvent(w, o) ==
    /\ At(w, "idle") /\ payEvent[o]
    /\ \/ status[o] = "compensation_pending" /\ Step(w, Compensating(Handler(o, "idle")))
       \/ status[o] = "payment_pending" /\ Step(w, Handler(o, "inspect"))
    /\ UNCHANGED <<stockVars, payVars, orderVars, cart, inflight, faults>>

-----------------------------------------------------------------------------
(* reserveOrder                                                            *)

Reserve(p) ==
    LET o == proc[p].o  todo == proc[p].todo IN
    /\ At(p, "reserve")
    /\ \E b \in todo :
        CallBookService(p, <<"reserve", o, b>>,
            IF todo = {b} THEN [To(p, "reserved") EXCEPT !.todo = {}]
                          ELSE [proc[p] EXCEPT !.todo = @ \ {b}],
            Undoing(proc[p], "reject", (Items(o) \ todo) \cup {b}))

\* releaseItems ignores the answer.
Undo(p) ==
    /\ At(p, "undo")
    /\ \E b \in proc[p].todo :
        LET next == AfterUndo([proc[p] EXCEPT !.todo = @ \ {b}]) IN
        CallBookService(p, <<"release", proc[p].o, b>>, next, next)

Reject(p) ==
    At(p, "reject") /\ UpdateOrderState(p, {"pending"}, "cancelled", FALSE, Idle, Idle)

Reserved(p) ==
    /\ At(p, "reserved")
    /\ UpdateOrderState(p, {"pending"}, "stock_reserved", FALSE, To(p, "clear_cart"),
                        Undoing(proc[p], "abandon", Items(proc[p].o)))

\* Mutation: the lines are deleted by book, whatever has become of them.
ClearAnyCartItems(p) ==
    /\ At(p, "clear_cart") /\ Step(p, Idle)
    /\ cart' = [cart EXCEPT ![proc[p].o] = "absent"]
    /\ UNCHANGED <<stockVars, payVars, orderVars, inflight, faults>>

\* Only the exact lines the order was priced from are deleted; failures are
\* swallowed.
ClearOrderedCartItems(p) ==
    LET o == proc[p].o IN
    /\ At(p, "clear_cart") /\ Step(p, Idle)
    /\ \/ /\ cart' = [cart EXCEPT ![o] = IF @ = "ordered" THEN "absent" ELSE @]
          /\ UNCHANGED faults
       \/ Fault /\ UNCHANGED cart
    /\ UNCHANGED <<stockVars, payVars, orderVars, inflight>>

-----------------------------------------------------------------------------
(* PayOrder                                                                *)

BeginPayment(p) ==
    LET o == proc[p].o IN
    /\ At(p, "begin")
    /\ IF status[o] = "stock_reserved" /\ expired[o]
       THEN /\ Step(p, [To(p, "claim") EXCEPT !.seen = "stock_reserved", !.via = "none"])
            /\ UNCHANGED <<stockVars, payVars, orderVars, cart, inflight, faults>>
       ELSE UpdateOrderState(p, {"stock_reserved"}, "payment_pending", FALSE, To(p, "charge"), Idle)

\* CreatePayment up to the lookup of an earlier payment of the order.  A wallet
\* payment goes on to lock the wallets; a gateway refuses the other provider's row.
Charge(p) ==
    LET o == proc[p].o  via == proc[p].via IN
    /\ At(p, "charge")
    /\ \/ /\ UNCHANGED <<stockVars, orderVars, cart, inflight, faults>>
          /\ \/ /\ payment[o] = "none" /\ via = "wallet"
                /\ Step(p, To(p, "debit")) /\ UNCHANGED payVars
             \/ via = "gateway" /\ GatewayCheckout(o) /\ Step(p, Idle)
             \/ /\ payment[o] # "none"
                /\ Step(p, IF via \in {"wallet", provider[o]} THEN AfterPayment(proc[p]) ELSE To(p, "lookup"))
                /\ UNCHANGED payVars
       \/ LosePayment(p, <<"charge", o, via>>, To(p, "lookup"))

\* Mutation: the error of the unique index is taken for a declined payment.
DebitDuplicateDeclined(p) ==
    LET o == proc[p].o IN
    /\ At(p, "debit")
    /\ \/ /\ WalletDeclines(o) \/ payment[o] # "none"
          /\ Step(p, Releasing(proc[p], "decline")) /\ UNCHANGED payVars
       \/ WalletCharge(o) /\ Step(p, Committing(proc[p]))
    /\ UNCHANGED <<stockVars, orderVars, cart, inflight, faults>>

\* The rest of the wallet CreatePayment.  Insufficient funds are found before
\* the unique index on order_id can report a payment made in the meantime.
Debit(p) ==
    LET o == proc[p].o IN
    /\ At(p, "debit")
    /\ \/ /\ WalletDeclines(o) /\ Step(p, Releasing(proc[p], "decline"))
          /\ UNCHANGED <<stockVars, payVars, orderVars, cart, inflight, faults>>
       \/ /\ WalletCharge(o) /\ Step(p, Committing(proc[p]))
          /\ UNCHANGED <<stockVars, orderVars, cart, inflight, faults>>
       \/ /\ ~WalletDeclines(o) /\ payment[o] # "none" /\ Step(p, To(p, "lookup"))
          /\ UNCHANGED <<stockVars, payVars, orderVars, cart, inflight, faults>>
       \/ LosePayment(p, <<"charge", o, "wallet">>, To(p, "lookup"))

\* The result of CreatePayment is unknown: ask for the payment by order.
Lookup(p) ==
    /\ At(p, "lookup") /\ Step(p, AfterPayment(proc[p]))
    /\ UNCHANGED <<stockVars, payVars, orderVars, cart, inflight, faults>>

\* Mutation: the error of CommitStock is ignored.
CommitIgnoringErrors(p) ==
    LET o == proc[p].o  todo == proc[p].todo
        next(b) == IF todo = {b} THEN [To(p, "confirm") EXCEPT !.todo = {}]
                                 ELSE [proc[p] EXCEPT !.todo = @ \ {b}] IN
    /\ At(p, "commit")
    /\ \E b \in todo : CallBookService(p, <<"commit", o, b>>, next(b), next(b))

Commit(p) ==
    LET o == proc[p].o  todo == proc[p].todo IN
    /\ At(p, "commit")
    /\ \E b \in todo :
        CallBookService(p, <<"commit", o, b>>,
            IF todo = {b} THEN [To(p, "confirm") EXCEPT !.todo = {}]
                          ELSE [proc[p] EXCEPT !.todo = @ \ {b}],
            CompensatingPaid([proc[p] EXCEPT !.todo = {}]))

Confirm(p) ==
    /\ At(p, "confirm")
    /\ UpdateOrderState(p, {"payment_pending"}, "confirmed", TRUE, Idle,
                        IF p \in Clients THEN CompensatingPaid(proc[p]) ELSE Idle)

-----------------------------------------------------------------------------
(* Reconciliation and compensation                                         *)

Claim(p) ==
    /\ At(p, "claim")
    /\ UpdateOrderState(p, {proc[p].seen}, "compensation_pending", FALSE,
                        Compensating([proc[p] EXCEPT !.seen = "none"]), Idle)

\* Mutation: a pending payment is treated like a missing one.
InspectImpatient(p) ==
    LET o == proc[p].o IN
    /\ At(p, "inspect")
    /\ Step(p, CASE payment[o] \in {"none", "pending"} -> Releasing(proc[p], "expire")
                 [] payment[o] = "failed"    -> Releasing(proc[p], "failed")
                 [] payment[o] = "succeeded" -> Committing(proc[p])
                 [] OTHER                    -> Idle)
    /\ UNCHANGED <<stockVars, payVars, orderVars, cart, inflight, faults>>

\* reconcilePaymentPending
Inspect(p) ==
    LET o == proc[p].o IN
    /\ At(p, "inspect")
    /\ Step(p, CASE payment[o] = "none"      -> Releasing(proc[p], "expire")
                 [] payment[o] = "failed"    -> Releasing(proc[p], "failed")
                 [] payment[o] = "succeeded" -> Committing(proc[p])
                 [] OTHER                    -> Idle)
    /\ UNCHANGED <<stockVars, payVars, orderVars, cart, inflight, faults>>

\* Mutation: a refund the gateway has only accepted counts as paid out.
RefundAssumed(p) ==
    /\ At(p, "refund") /\ RefundPayment(proc[p].o)
    /\ Step(p, Releasing(proc[p], proc[p].mode))
    /\ UNCHANGED <<stockVars, orderVars, cart, inflight, faults>>

\* reconcileCompensation stops when the refund is not complete;
\* compensatePaidOrder goes on and leaves the order to be compensated.
Refund(p) ==
    LET o == proc[p].o
        failed == IF proc[p].mode = "comp" THEN Idle
                  ELSE Releasing([proc[p] EXCEPT !.errs = {"refund"}], "paid") IN
    /\ At(p, "refund")
    /\ \/ /\ RefundPayment(o)
          /\ Step(p, IF payment'[o] = "refunded" THEN Releasing(proc[p], proc[p].mode) ELSE failed)
          /\ UNCHANGED <<stockVars, orderVars, cart, inflight, faults>>
       \/ ~RefundPossible(o) /\ Step(p, failed)
          /\ UNCHANGED <<stockVars, payVars, orderVars, cart, inflight, faults>>
       \/ LosePayment(p, <<"refund", o, "none">>, failed)

\* Mutation: the release before a cancellation is best effort.
ReleaseBestEffort(p) ==
    /\ At(p, "release")
    /\ \E b \in proc[p].todo :
        LET next == AfterRelease([proc[p] EXCEPT !.todo = @ \ {b}]) IN
        CallBookService(p, <<"release", proc[p].o, b>>, next, next)

\* releaseItemsStrict tries every line and remembers that one failed.
Release(p) ==
    /\ At(p, "release")
    /\ \E b \in proc[p].todo :
        LET next == [proc[p] EXCEPT !.todo = @ \ {b}] IN
        CallBookService(p, <<"release", proc[p].o, b>>, AfterRelease(next),
                        AfterRelease([next EXCEPT !.errs = @ \cup {"release"}]))

RestoreCartItems(p) ==
    LET o == proc[p].o  last == proc[p].mode = "decline" IN
    /\ At(p, "restore")
    /\ \/ /\ cart' = [cart EXCEPT ![o] = "restored"]
          /\ Step(p, IF last THEN Idle ELSE To(p, "close"))
          /\ UNCHANGED faults
       \/ /\ Fault /\ cart' \in {cart, [cart EXCEPT ![o] = "restored"]}
          /\ Step(p, IF proc[p].mode = "paid"
                     THEN [To(p, "close") EXCEPT !.errs = @ \cup {"restore"}] ELSE Idle)
    /\ UNCHANGED <<stockVars, payVars, orderVars, inflight>>

Close(p) ==
    LET mode == proc[p].mode
        target == IF mode = "paid" /\ proc[p].errs # {} THEN "compensation_pending" ELSE "cancelled"
        next == IF mode = "decline" THEN To(p, "restore") ELSE Idle IN
    /\ At(p, "close")
    /\ UpdateOrderState(p, IF mode = "comp" THEN {"compensation_pending"} ELSE {"payment_pending"},
                        target, mode \in {"failed", "paid"}, next, next)

-----------------------------------------------------------------------------
(* The rest of the world.                                                  *)

\* The process dies, or the deadline of the request has passed, after which
\* every further call of the handler fails at once.
Crash(p) ==
    /\ ~At(p, "idle") /\ Fault /\ Step(p, Idle)
    /\ UNCHANGED <<stockVars, payVars, orderVars, cart, inflight>>

\* A call whose caller gave up takes effect after all, or never.
Deliver(m) ==
    /\ m \in inflight /\ inflight' = inflight \ {m}
    /\ \/ Perform(m) /\ UNCHANGED payVars
       \/ /\ \/ m[1] = "charge" /\ m[3] = "wallet" /\ WalletCharge(m[2])
             \/ m[1] = "charge" /\ m[3] = "gateway" /\ GatewayCheckout(m[2])
             \/ m[1] = "refund" /\ RefundPayment(m[2])
          /\ UNCHANGED stockVars
       \/ UNCHANGED <<stockVars, payVars>>
    /\ UNCHANGED <<orderVars, cart, proc, faults>>

Quiet(o) == PromptCalls => NoRequest(o)

\* The 15 minutes of the reservation and the grace period after which the
\* reconciler looks at an unfinished payment.
Expire(o) ==
    /\ status[o] \in {"pending", "stock_reserved"} /\ ~expired[o] /\ Quiet(o)
    /\ expired' = [expired EXCEPT ![o] = TRUE]
    /\ UNCHANGED <<stockVars, payVars, status, paymentRef, grace, events, cart, proc, inflight, faults>>

GraceEnds(o) ==
    /\ status[o] = "payment_pending" /\ ~grace[o] /\ Quiet(o)
    /\ grace' = [grace EXCEPT ![o] = TRUE]
    /\ UNCHANGED <<stockVars, payVars, status, paymentRef, expired, events, cart, proc, inflight, faults>>

Payments(o) ==
    /\ GatewayResult(o) \/ RefundSettles(o) \/ (BalanceChanges /\ UpdateBalance(o))
    /\ UNCHANGED <<stockVars, orderVars, cart, proc, inflight, faults>>

Work(p) ==
    \/ Reserve(p) \/ Undo(p) \/ Reject(p) \/ Reserved(p) \/ ClearOrderedCartItems(p)
    \/ BeginPayment(p) \/ Charge(p) \/ Debit(p) \/ Lookup(p) \/ Commit(p) \/ Confirm(p)
    \/ Claim(p) \/ Inspect(p) \/ Refund(p) \/ Release(p) \/ RestoreCartItems(p) \/ Close(p)

Next ==
    \/ \E p \in Procs : Work(p) \/ Crash(p)
    \/ \E c \in Clients, o \in Orders :
        CreateOrder(c, o) \/ CancelOrder(c, o) \/ \E via \in Vias[o] : PayOrder(c, o, via)
    \/ \E w \in Workers, o \in Orders : Reconcile(w, o) \/ HandlePaymentEvent(w, o)
    \/ \E m \in inflight : Deliver(m)
    \/ \E o \in Orders : Expire(o) \/ GraceEnds(o) \/ Payments(o)

Spec == Init /\ [][Next]_vars

\* A handler that has started makes its next call; the ticker reaches every
\* order it lists; time passes; a gateway settles what it was asked to settle.
Fairness ==
    /\ \A p \in Procs : WF_vars(Work(p))
    /\ \A w \in Workers, o \in Orders : SF_vars(Reconcile(w, o))
    /\ \A o \in Orders : SF_vars(Expire(o)) /\ SF_vars(GraceEnds(o))
    /\ \A o \in Orders : WF_vars(GatewayResult(o) /\ Payments(o)) /\ WF_vars(RefundSettles(o) /\ Payments(o))

FairSpec == Spec /\ Fairness

-----------------------------------------------------------------------------
(* Whatever fails and however the handlers interleave.                     *)

(* An order is confirmed only after its payment succeeded and every line   *)
(* of it was committed, even when several requests and reconcilers drive   *)
(* the saga at once (PayOrder, reconcilePaymentPending).                   *)
PaidBeforeConfirmed ==
    \A o \in Orders : status[o] = "confirmed" =>
        /\ payment[o] \in {"succeeded", "refund_pending", "refunded"}
        /\ \A b \in Items(o) : resState[o][b] \in {"committed", "released"}

(* Once an order has reached stock_reserved, it is cancelled only with     *)
(* every line given back, and no late call takes stock for it again        *)
(* (releaseItemsStrict before every cancellation).                         *)
CancelledHoldsNothing ==
    \A o \in Orders :
        status[o] = "cancelled" /\ (\E i \in 1..Len(events[o]) : events[o][i] = "stock_reserved")
            => \A b \in Items(o) : resState[o][b] \notin Holding

(* A cancelled order that names its payment has it refunded or failed: a   *)
(* compensation is closed only after the refund (reconcileCompensation,    *)
(* compensatePaidOrder, BR-ORDER-008).                                     *)
RefundedBeforeClosed ==
    \A o \in Orders : status[o] = "cancelled" /\ paymentRef[o] => payment[o] \in {"refunded", "failed"}

(* A compensated order is back in the cart, and the cart cleanup of a slow *)
(* checkout does not remove it again (RestoreCartItems,                    *)
(* ClearOrderedCartItems).                                                 *)
CompensatedInCart ==
    \A o \in Orders :
        status[o] = "cancelled" /\ (\E i \in 1..Len(events[o]) : events[o][i] = "compensation_pending")
            => cart[o] = "restored"

(* The handlers together move an order along the life its readers expect.  *)
Lifecycle == INSTANCE OrderLifecycle
LifecycleSpec == Lifecycle!Spec

-----------------------------------------------------------------------------
(* Orders nobody is working on, where calls do not fail.                   *)

AtRest(o) ==
    /\ \A p \in Procs : At(p, "idle") \/ proc[p].o # o
    /\ \A m \in inflight : m[2] # o

(* A confirmed order has been paid, is not refunded, and its copies are    *)
(* its own (BR-ORDER-006; docs: "Payment success + commit stock").         *)
ConfirmedIsDelivered ==
    \A o \in Orders : status[o] = "confirmed" /\ AtRest(o) =>
        payment[o] = "succeeded" /\ \A b \in Items(o) : resState[o][b] = "committed"

(* A cancelled order keeps neither stock nor money (AC-ORDER-02,           *)
(* AC-ORDER-03, BR-ORDER-007).                                             *)
CancelledIsUndone ==
    \A o \in Orders : status[o] = "cancelled" /\ AtRest(o) =>
        /\ payment[o] \in {"none", "failed", "refunded"}
        /\ \A b \in Items(o) : resState[o][b] \notin Holding

(* The shop never sells more copies of a book than it has.                 *)
NeverOversold ==
    \A b \in Books :
        Cardinality({c \in Orders \X (1..MaxQuantity) :
            status[c[1]] = "confirmed" /\ c[2] <= Quantity[c[1]][b]}) <= supply[b]

(* Every order is eventually confirmed or cancelled, whatever the customer *)
(* and the gateway do (Reconcile, runReconciler).                          *)
OrdersFinish ==
    \A o \in Orders : status[o] # "none" ~> status[o] \in {"confirmed", "cancelled"}

-----------------------------------------------------------------------------
(* What the documentation says and the code does not keep.                 *)

(* BA/04-business-flows.md: payment_pending is confirmed with "Payment     *)
(* success + commit stock": the stock of a confirmed order stays committed.*)
ConfirmedStaysCommitted ==
    \A o \in Orders : status[o] = "confirmed" => \A b \in Items(o) : resState[o][b] = "committed"

(* The flow chart: payment_pending is cancelled with "Payment failed +     *)
(* release stock": nobody pays for a cancelled order.                      *)
CancelledKeepsNoMoney ==
    \A o \in Orders : status[o] = "cancelled" /\ AtRest(o) => payment[o] # "succeeded"

(* BA/03-business-rules.md, BR-ORDER-008: after a failed commit of a paid  *)
(* order the system refunds, releases the stock and ends in cancelled: a   *)
(* refunded order does not wait for its payment for ever.                  *)
RefundedOrdersClose ==
    \A o \in Orders :
        status[o] = "payment_pending" /\ payment[o] = "refunded" ~> status[o] # "payment_pending"
=============================================================================
