------------------------------ MODULE SagaProofs ------------------------------
(***************************************************************************)
(* The checkout saga, for any number of orders, books, requests and        *)
(* reconcilers and any number of failed calls and crashes: what each       *)
(* handler has achieved so far stays true while the others go on, and so   *)
(* an order is confirmed, cancelled and compensated only as it should be.  *)
(***************************************************************************)
EXTENDS OrderSaga, StockProofs

HandlerRecord ==
    [pc: Pcs, o: Orders, mode: Modes, todo: SUBSET Books,
     errs: SUBSET {"refund", "release", "restore"},
     seen: Statuses, via: Providers \cup {"none"}]

SagaTypes ==
    /\ PaymentTypeOK
    /\ status \in [Orders -> Statuses]
    /\ paymentRef \in [Orders -> BOOLEAN]
    /\ expired \in [Orders -> BOOLEAN] /\ grace \in [Orders -> BOOLEAN]
    /\ events \in [Orders -> Seq(Statuses \ {"none"})]
    /\ cart \in [Orders -> {"ordered", "restored", "absent"}]
    /\ faults \in 0..MaxFaults

\* Only lines of an order are ever asked for.
CallsOK == inflight \subseteq Requests /\ \A m \in inflight : m[1] = "reserve" => m[3] \in Items(m[2])

Paid == {"succeeded", "refund_pending", "refunded"}
Settled == {"committed", "released"}
\* The statuses an order never leaves backwards: its payment was begun or it was
\* given up; and those of an order that was given up.
Late == {"payment_pending", "confirmed", "cancelled", "compensation_pending"}
GivenUp == {"compensation_pending", "cancelled"}

Announced(o, s) == \E i \in 1..Len(events[o]) : events[o][i] = s
Freed(o, lines) == Announced(o, "stock_reserved") => \A b \in lines : resState[o][b] \notin Holding

\* What is true of an order, whoever works on it.
OrderOK(o) ==
    /\ status[o] = "confirmed" => payment[o] \in Paid /\ \A b \in Items(o) : resState[o][b] \in Settled
    /\ status[o] = "cancelled" =>
           /\ Freed(o, Items(o))
           /\ paymentRef[o] => payment[o] \in {"refunded", "failed"}
           /\ Announced(o, "compensation_pending") => cart[o] = "restored"
    /\ Announced(o, "stock_reserved") => \A b \in Items(o) : resState[o][b] # "none"
    /\ status[o] \in {"none", "pending"} => ~Announced(o, "stock_reserved")
    /\ status[o] \in {"none", "pending", "stock_reserved", "payment_pending"} =>
           ~paymentRef[o] /\ ~Announced(o, "compensation_pending")

LatePcs == {"charge", "debit", "lookup", "inspect", "commit", "confirm", "refund", "release", "restore", "close"}
GivingBack == {"release", "restore", "close"}

\* What a handler knows of its order at each of its steps.
HandlerOK(r) ==
    /\ r.todo \subseteq Items(r.o)
    /\ r.pc \in {"reserve", "reserved"} => \A b \in Items(r.o) \ r.todo : resState[r.o][b] # "none"
    /\ r.pc \in {"begin", "charge", "debit"} => r.via \in Providers
    /\ r.pc = "claim" => r.seen \in {"pending", "stock_reserved"}
    /\ r.pc \in LatePcs => status[r.o] \in Late
    /\ r.pc \in {"commit", "confirm"} =>
           payment[r.o] \in Paid /\ \A b \in Items(r.o) \ r.todo : resState[r.o][b] \in Settled
    /\ r.pc \in {"reserved", "confirm", "restore", "close"} => r.todo = {}
    /\ r.pc = "refund" => r.mode \in {"comp", "paid"}
    /\ r.pc \in GivingBack =>
           /\ r.mode \in {"comp", "expire", "failed", "decline", "paid"}
           /\ "release" \notin r.errs => Freed(r.o, Items(r.o) \ r.todo)
           /\ r.mode = "failed" => payment[r.o] = "failed"
           /\ r.mode = "paid" /\ "refund" \notin r.errs => payment[r.o] = "refunded"
           /\ r.mode = "comp" /\ paymentRef[r.o] => payment[r.o] = "refunded"
    /\ r.pc \in {"restore", "close"} /\ r.mode # "paid" => "release" \notin r.errs
    /\ r.pc \in GivingBack \cup {"refund"} /\ r.mode = "comp" => status[r.o] \in GivenUp
    /\ r.pc = "close" /\ r.mode = "comp" => cart[r.o] = "restored"

CoreInv == StockInv /\ SagaTypes /\ CallsOK /\ \A o \in Orders : OrderOK(o)
HandlersOK == proc \in [Procs -> HandlerRecord] /\ \A p \in Procs : HandlerOK(proc[p])
SagaInv == CoreInv /\ HandlersOK

-----------------------------------------------------------------------------
(* What no step takes back.                                                *)

StockOnward(o) ==
    \A b \in Books :
        /\ resState[o][b] # "none" => resState'[o][b] # "none"
        /\ resState[o][b] \in Settled => resState'[o][b] \in Settled
        /\ resState[o][b] = "released" => resState'[o][b] = "released"

PaymentOnward(o) ==
    /\ payment[o] \in Paid => payment'[o] \in Paid
    /\ payment[o] \in {"failed", "refunded"} => payment'[o] = payment[o]

StatusOnward(o) ==
    /\ status[o] \in Late => status'[o] \in Late /\ (Announced(o, "stock_reserved")' <=> Announced(o, "stock_reserved"))
    /\ status[o] \in GivenUp => status'[o] \in GivenUp /\ paymentRef'[o] = paymentRef[o]

Onward(o) ==
    /\ StockOnward(o) /\ PaymentOnward(o) /\ StatusOnward(o)
    /\ cart[o] = "restored" => cart'[o] = "restored"

LifeStep == [Lifecycle!Next]_(Lifecycle!lifecycleVars)

\* A step as the orders see it, whatever its handler goes on to do.
CoreStep == CoreInv' /\ LifeStep /\ \A o \in Orders : Onward(o)

(* The operations of the Book Service only move a reservation forward.     *)
LEMMA StockForward ==
    ASSUME StockInv, [StockNext]_stockVars, NEW o \in Orders
    PROVE  StockInv' /\ StockOnward(o)
<1>1. StockInv'
    BY StockTypeStep, ConservedStep, ListedStep DEF StockInv
<1>2. StockOnward(o)
    <2> SUFFICES ASSUME NEW c \in Books
                 PROVE  /\ resState[o][c] # "none" => resState'[o][c] # "none"
                        /\ resState[o][c] \in Settled => resState'[o][c] \in Settled
                        /\ resState[o][c] = "released" => resState'[o][c] = "released"
        BY DEF StockOnward
    <2> USE DEF StockInv, StockTypeOK, ReservationStates, Holding, Settled
    <2>1. ASSUME NEW p \in Orders, NEW b \in Books, NEW q \in 1..MaxQuantity, ReserveStock(p, b, q)
          PROVE  resState[o][c] # "none" => resState'[o][c] = resState[o][c]
        BY <2>1 DEF ReserveStock, stockVars
    <2>2. ASSUME NEW p \in Orders, NEW b \in Books, CommitStock(p, b)
          PROVE  resState'[o][c] = resState[o][c] \/ (resState[o][c] \in Holding /\ resState'[o][c] = "committed")
        BY <2>2 DEF CommitStock, CommitAccepted
    <2>3. ASSUME NEW p \in Orders, NEW b \in Books, ReleaseStock(p, b)
          PROVE  resState'[o][c] = resState[o][c] \/ (resState[o][c] \in Holding /\ resState'[o][c] = "released")
        BY <2>3 DEF ReleaseStock, stockVars
    <2>4. UNCHANGED resState => resState'[o][c] = resState[o][c]
        OBVIOUS
    <2> QED
        BY <2>1, <2>2, <2>3, <2>4 DEF StockNext, CreateBook, UpdateBook, DeleteBook, stockVars
<1> QED
    BY <1>1, <1>2

(* The operations of the Payment Service: a payment that succeeded is      *)
(* refunded at most, one that failed or was refunded stays so.             *)
LEMMA PaymentForward ==
    ASSUME PaymentTypeOK, [PaymentNext]_payVars, NEW o \in Orders
    PROVE  PaymentTypeOK' /\ PaymentOnward(o)
<1> USE BalanceAssumption DEF PaymentTypeOK, PaymentStates, Providers, PaymentOnward, Paid
<1>1. ASSUME NEW p \in Orders, WalletCharge(p)
      PROVE  PaymentTypeOK' /\ PaymentOnward(o)
    BY <1>1 DEF WalletCharge, WalletDeclines
<1>2. ASSUME NEW p \in Orders, GatewayCheckout(p) \/ GatewayResult(p)
      PROVE  PaymentTypeOK' /\ PaymentOnward(o)
    BY <1>2 DEF GatewayCheckout, GatewayResult
<1>3. ASSUME NEW p \in Orders, RefundPayment(p)
      PROVE  PaymentTypeOK' /\ PaymentOnward(o)
    <2>1. CASE CompleteRefund(p)
        <3>1. payment' \in [Orders -> PaymentStates] /\ payEvent' \in [Orders -> BOOLEAN] /\ PaymentOnward(o)
            BY <2>1 DEF CompleteRefund
        <3>2. balance' \in [Orders -> 0..MaxBalance]
            BY <2>1 DEF CompleteRefund
        <3> QED
            BY <2>1, <3>1, <3>2 DEF CompleteRefund
    <2>2. CASE DeferRefund(p)
        BY <2>2 DEF DeferRefund
    <2>3. CASE UNCHANGED payVars
        BY <2>3 DEF payVars
    <2> QED
        BY <1>3, <2>1, <2>2, <2>3 DEF RefundPayment
<1>4. ASSUME NEW p \in Orders, UpdateBalance(p)
      PROVE  PaymentTypeOK' /\ PaymentOnward(o)
    BY <1>4 DEF UpdateBalance
<1>5. CASE UNCHANGED payVars
    BY <1>5 DEF payVars
<1> QED
    BY <1>1, <1>2, <1>3, <1>4, <1>5 DEF PaymentNext

(* A step of the Book or Payment Service, of a cart or of a timer.         *)
LEMMA QuietMoves ==
    ASSUME CoreInv, [StockNext]_stockVars, [PaymentNext]_payVars,
           UNCHANGED <<status, paymentRef, events>>,
           expired' \in [Orders -> BOOLEAN], grace' \in [Orders -> BOOLEAN],
           cart' \in [Orders -> {"ordered", "restored", "absent"}],
           \A o \in Orders : cart[o] = "restored" => cart'[o] = "restored",
           faults' \in 0..MaxFaults, CallsOK'
    PROVE  CoreStep
<1> USE DEF CoreInv
<1>1. \A o \in Orders : StockOnward(o) /\ PaymentOnward(o)
    BY StockForward, PaymentForward DEF SagaTypes
<1>2. StockInv' /\ PaymentTypeOK'
    BY OrdersAssumption, StockForward, PaymentForward DEF SagaTypes
<1>3. \A o, s : Announced(o, s)' = Announced(o, s)
    BY DEF Announced
<1>4. \A o \in Orders : Onward(o)
    BY <1>1, <1>3 DEF Onward, StatusOnward
<1>5. ASSUME NEW o \in Orders
      PROVE  OrderOK(o)'
    <2>1. Items(o) \subseteq Books /\ \A b \in Books : resState[o][b] \in ReservationStates
        BY DEF Items, StockInv, StockTypeOK
    <2>2. Freed(o, Items(o)) => Freed(o, Items(o))'
        BY <1>1, <1>3, <2>1 DEF Freed, OrderOK, StockOnward, ReservationStates, Holding
    <2> QED
        BY <1>1, <1>3, <2>1, <2>2 DEF OrderOK, StockOnward, PaymentOnward, Paid
<1>6. SagaTypes'
    BY <1>2 DEF SagaTypes
<1>7. LifeStep
    BY DEF LifeStep, Lifecycle!lifecycleVars
<1> QED
    BY <1>2, <1>4, <1>5, <1>6, <1>7 DEF CoreStep

\* The moves of an order, and what must hold for each.
MayBecome(o, target, paid) ==
    \/ status[o] = "none" /\ target = "pending" /\ ~paid
    \/ status[o] = "pending" /\ target = "stock_reserved" /\ ~paid
       /\ \A b \in Items(o) : resState[o][b] # "none"
    \/ status[o] = "stock_reserved" /\ target = "payment_pending" /\ ~paid
    \/ status[o] = "payment_pending" /\ target = "confirmed"
       /\ payment[o] \in Paid /\ \A b \in Items(o) : resState[o][b] \in Settled
    \/ status[o] = "pending" /\ target = "cancelled" /\ ~paid
    \/ status[o] = "payment_pending" /\ target = "cancelled"
       /\ Freed(o, Items(o)) /\ (paid => payment[o] \in {"refunded", "failed"})
    \/ status[o] = "compensation_pending" /\ target = "cancelled" /\ ~paid
       /\ Freed(o, Items(o)) /\ (paymentRef[o] => payment[o] = "refunded") /\ cart[o] = "restored"
    \/ status[o] \in {"pending", "stock_reserved"} /\ target = "compensation_pending" /\ ~paid
    \/ status[o] = "payment_pending" /\ target = "compensation_pending"

(* A status that is written: the order's row and its event.                *)
LEMMA StatusMoves ==
    ASSUME CoreInv, NEW o \in Orders, NEW target \in Statuses \ {"none"}, NEW paid \in BOOLEAN,
           MayBecome(o, target, paid), SetStatus(o, target, paid),
           UNCHANGED <<stockVars, payVars, cart, inflight>>, faults' \in 0..MaxFaults
    PROVE  CoreStep /\ status'[o] = target /\ paymentRef'[o] = (paymentRef[o] \/ paid)
<1> USE DEF CoreInv
<1>1. /\ status' = [status EXCEPT ![o] = target] /\ status \in [Orders -> Statuses]
      /\ paymentRef' = [paymentRef EXCEPT ![o] = paymentRef[o] \/ paid] /\ paymentRef \in [Orders -> BOOLEAN]
      /\ events' = [events EXCEPT ![o] = Append(events[o], target)]
      /\ events \in [Orders -> Seq(Statuses \ {"none"})]
      /\ grace' = [grace EXCEPT ![o] = FALSE] /\ expired' = expired
    BY DEF SetStatus, SagaTypes
<1>2. /\ status' \in [Orders -> Statuses] /\ status'[o] = target
      /\ paymentRef' \in [Orders -> BOOLEAN] /\ paymentRef'[o] = (paymentRef[o] \/ paid)
      /\ grace' \in [Orders -> BOOLEAN] /\ expired' \in [Orders -> BOOLEAN]
      /\ \A q \in Orders : q # o => /\ status'[q] = status[q] /\ paymentRef'[q] = paymentRef[q]
                                    /\ events'[q] = events[q]
    BY <1>1 DEF SagaTypes
<1>3. /\ events' \in [Orders -> Seq(Statuses \ {"none"})]
      /\ Len(events[o]) \in Nat /\ Len(events'[o]) = Len(events[o]) + 1 /\ events'[o][Len(events[o]) + 1] = target
      /\ \A i \in 1..Len(events[o]) : events'[o][i] = events[o][i]
    BY <1>1
<1>4. \A s : (Announced(o, s)' <=> (Announced(o, s) \/ s = target))
    <2> SUFFICES ASSUME NEW s
                 PROVE  (\E i \in 1..(Len(events[o]) + 1) : events'[o][i] = s)
                            <=> (\E i \in 1..Len(events[o]) : events[o][i] = s) \/ s = target
        BY <1>3 DEF Announced
    <2>1. 1..(Len(events[o]) + 1) = 1..Len(events[o]) \cup {Len(events[o]) + 1}
        BY <1>3
    <2> QED
        BY <1>3, <2>1
<1>5. \A q \in Orders : q # o => \A s : Announced(q, s)' = Announced(q, s)
    BY <1>2 DEF Announced
<1>6. UNCHANGED <<listed, stock, resState, resQuantity, supply, payment, provider, balance, payEvent, cart>>
    BY DEF stockVars, payVars
<1>7. StockInv' /\ SagaTypes' /\ CallsOK'
    <2>1. StockInv'
        BY <1>6 DEF StockInv, StockTypeOK, StockConserved, ReservedBooksListed, HeldCopies
    <2> QED
        BY <1>2, <1>3, <1>6, <2>1 DEF SagaTypes, PaymentTypeOK, CallsOK
<1>8. \A q \in Orders : Onward(q)
    <2>1. StatusOnward(o)
        <3>1. ~paid => paymentRef'[o] = paymentRef[o]
            BY <1>1, <1>2
        <3>2. status[o] \in GivenUp => target \in GivenUp /\ ~paid
            BY DEF MayBecome, GivenUp
        <3>3. status[o] \in Late => target \in Late
            BY DEF MayBecome, Late
        <3>4. target = "stock_reserved" => status[o] = "pending"
            BY DEF MayBecome
        <3>5. "pending" \notin Late /\ "stock_reserved" \notin Late
            BY DEF Late
        <3> QED
            BY <1>2, <1>4, <3>1, <3>2, <3>3, <3>5 DEF StatusOnward
    <2>2. \A q \in Orders : q # o => StatusOnward(q)
        BY <1>2, <1>5 DEF StatusOnward
    <2> QED
        BY <1>6, <2>1, <2>2 DEF Onward, StockOnward, PaymentOnward
<1>9. OrderOK(o)'
    <2>0. OrderOK(o)
        OBVIOUS
    <2>1. Freed(o, Items(o))' = (Announced(o, "stock_reserved")' => \A b \in Items(o) : resState[o][b] \notin Holding)
        BY <1>6 DEF Freed
    <2>2. \/ status[o] = "none" /\ target = "pending" /\ ~paid
          \/ status[o] = "pending" /\ target = "stock_reserved" /\ ~paid /\ \A b \in Items(o) : resState[o][b] # "none"
          \/ status[o] = "stock_reserved" /\ target = "payment_pending" /\ ~paid
          => OrderOK(o)'
        BY <1>2, <1>4, <1>6, <2>0 DEF OrderOK
    <2>3. status[o] = "payment_pending" /\ target = "confirmed"
              /\ payment[o] \in Paid /\ (\A b \in Items(o) : resState[o][b] \in Settled) => OrderOK(o)'
        BY <1>2, <1>4, <1>6, <2>0 DEF OrderOK
    <2>4. status[o] = "pending" /\ target = "cancelled" /\ ~paid => OrderOK(o)'
        BY <1>2, <1>4, <1>6, <2>0, <2>1 DEF OrderOK
    <2>5. status[o] = "payment_pending" /\ target = "cancelled"
              /\ Freed(o, Items(o)) /\ (paid => payment[o] \in {"refunded", "failed"}) => OrderOK(o)'
        BY <1>2, <1>4, <1>6, <2>0, <2>1 DEF OrderOK, Freed
    <2>6. status[o] = "compensation_pending" /\ target = "cancelled" /\ ~paid
              /\ Freed(o, Items(o)) /\ (paymentRef[o] => payment[o] = "refunded") /\ cart[o] = "restored" => OrderOK(o)'
        BY <1>2, <1>4, <1>6, <2>0, <2>1 DEF OrderOK, Freed
    <2>7. target = "compensation_pending" => OrderOK(o)'
        BY <1>2, <1>4, <1>6, <2>0 DEF OrderOK
    <2> QED
        BY <2>2, <2>3, <2>4, <2>5, <2>6, <2>7 DEF MayBecome
<1>10. \A q \in Orders : q # o => OrderOK(q)'
    BY <1>2, <1>5, <1>6 DEF OrderOK, Freed
<1>11. LifeStep
    <2>1. <<status[o], target>> \in Lifecycle!Edges
        BY DEF MayBecome, Lifecycle!Edges
    <2>2. Lifecycle!Advance(o, target)
        BY <1>1, <2>1 DEF Lifecycle!Advance
    <2>3. \E edge \in Lifecycle!Edges : Lifecycle!Advance(o, edge[2])
        BY <2>1, <2>2
    <2> QED
        BY <2>3 DEF LifeStep, Lifecycle!Next
<1> QED
    BY <1>2, <1>7, <1>8, <1>9, <1>10, <1>11 DEF CoreStep

-----------------------------------------------------------------------------
(* What a handler has achieved stays true whatever the others do.          *)
LEMMA AchievedStays ==
    ASSUME CoreInv, NEW r \in HandlerRecord, HandlerOK(r), Onward(r.o)
    PROVE  HandlerOK(r)'
<1>1. /\ r.o \in Orders /\ Items(r.o) \subseteq Books
      /\ \A b \in Books : resState[r.o][b] \in ReservationStates
    BY DEF HandlerRecord, Items, CoreInv, StockInv, StockTypeOK
<1>2. r.pc \in LatePcs /\ Freed(r.o, Items(r.o) \ r.todo) => Freed(r.o, Items(r.o) \ r.todo)'
    BY <1>1 DEF HandlerOK, Onward, StatusOnward, StockOnward, Freed, CoreInv, OrderOK, ReservationStates, Holding
<1>3. r.pc \in LatePcs => \/ r.pc \in {"commit", "confirm", "refund"} \cup GivingBack
                           \/ r.pc \in {"charge", "debit", "lookup", "inspect"}
    BY DEF LatePcs, GivingBack
<1>4. GivingBack \subseteq LatePcs /\ "refund" \in LatePcs
    BY DEF LatePcs, GivingBack
<1> QED
    BY <1>1, <1>2, <1>4 DEF HandlerOK, Onward, StatusOnward, StockOnward, PaymentOnward

(* One handler goes on; the others keep what they have.                    *)
LEMMA HandlerMoves ==
    ASSUME SagaInv, CoreStep, NEW p \in Procs, NEW r \in HandlerRecord, Step(p, r),
           HandlerOK(r) \/ HandlerOK(r)'
    PROVE  SagaInv'
<1>1. /\ proc \in [Procs -> HandlerRecord] /\ proc' = [proc EXCEPT ![p] = r]
      /\ \A q \in Procs : HandlerOK(proc[q])
    BY DEF SagaInv, HandlersOK, Step
<1>2. \A h \in HandlerRecord : h.o \in Orders
    BY DEF HandlerRecord
<1>3. \A h \in HandlerRecord : HandlerOK(h) => HandlerOK(h)'
    BY <1>2, AchievedStays DEF CoreStep, SagaInv
<1>4. HandlerOK(r)'
    BY <1>3
<1>5. \A q \in Procs : HandlerOK(proc[q])'
    <2> TAKE q \in Procs
    <2>1. CASE q = p
        <3>1. proc'[q] = r
            BY <1>1, <2>1
        <3> QED
            BY <1>4, <3>1
    <2>2. CASE q # p
        <3>1. PICK h \in HandlerRecord : h = proc[q]
            BY <1>1
        <3>2. proc'[q] = h /\ HandlerOK(h)'
            BY <1>1, <1>3, <2>2, <3>1
        <3> QED
            BY <3>2
    <2> QED
        BY <2>1, <2>2
<1> QED
    BY <1>1, <1>5 DEF SagaInv, HandlersOK, CoreStep

(* A step that leaves every handler where it was.                          *)
LEMMA NobodyMoves ==
    ASSUME SagaInv, CoreStep, UNCHANGED proc
    PROVE  SagaInv'
<1>1. /\ proc \in [Procs -> HandlerRecord] /\ proc' = proc
      /\ \A q \in Procs : HandlerOK(proc[q])
    BY DEF SagaInv, HandlersOK
<1>2. \A h \in HandlerRecord : h.o \in Orders
    BY DEF HandlerRecord
<1>3. \A h \in HandlerRecord : HandlerOK(h) => HandlerOK(h)'
    BY <1>2, AchievedStays DEF CoreStep, SagaInv
<1>5. \A q \in Procs : HandlerOK(proc[q])'
    <2> TAKE q \in Procs
    <2>1. PICK h \in HandlerRecord : h = proc[q]
        BY <1>1
    <2>2. proc'[q] = h /\ HandlerOK(h)'
        BY <1>1, <1>3, <2>1
    <2> QED
        BY <2>2
<1> QED
    BY <1>1, <1>5 DEF SagaInv, HandlersOK, CoreStep

(* One more call may take effect later.                                    *)
LEMMA FaultMoves ==
    ASSUME CoreInv, Fault
    PROVE  faults' \in 0..MaxFaults
BY SagaAssumption DEF CoreInv, SagaTypes, Fault

(* A handler's step that changes nothing else.                             *)
LEMMA StillMoves ==
    ASSUME CoreInv, UNCHANGED <<stockVars, payVars, orderVars, cart, inflight>>,
           UNCHANGED faults \/ Fault
    PROVE  CoreStep
<1>1. faults' \in 0..MaxFaults
    BY FaultMoves DEF CoreInv, SagaTypes
<1>2. CallsOK'
    BY DEF CoreInv, CallsOK
<1> QED
    BY <1>1, <1>2, QuietMoves DEF orderVars, CoreInv, SagaTypes

(* A call to the Book Service: it takes effect, or the caller is told that *)
(* it did not, and it may take effect later.                               *)
LEMMA PerformMoves ==
    ASSUME CoreInv, NEW m \in Requests, Perform(m), m[1] = "reserve" => m[3] \in Items(m[2])
    PROVE  [StockNext]_stockVars
<1>1. m[1] \in {"reserve", "commit", "release"}
    BY DEF Perform
<1>2. m[2] \in Orders /\ m[3] \in Books
    BY <1>1 DEF Requests
<1>3. m[1] = "reserve" => Quantity[m[2]][m[3]] \in 1..MaxQuantity
    BY <1>2, SagaAssumption, StockAssumption DEF Items
<1> QED
    BY <1>2, <1>3 DEF Perform, StockNext

(* What a handler learns from a call: told of success, the operation was   *)
(* carried out; told of a failure, it may be or not.                       *)
LEMMA CallMoves ==
    ASSUME SagaInv, NEW p \in Procs, NEW kind \in {"reserve", "commit", "release"},
           NEW o \in Orders, NEW b \in Items(o), NEW onOk, NEW onErr,
           CallBookService(p, <<kind, o, b>>, onOk, onErr)
    PROVE  /\ CoreStep /\ UNCHANGED <<payVars, orderVars, cart>>
           /\ \/ Step(p, onErr)
              \/ /\ Step(p, onOk)
                 /\ \/ kind = "reserve" /\ ReserveStock(o, b, Quantity[o][b])
                    \/ kind = "commit" /\ CommitStock(o, b)
                    \/ kind = "release" /\ ReleaseStock(o, b)
<1> DEFINE m == <<kind, o, b>>
<1>1. m \in Requests /\ m[1] = kind /\ m[2] = o /\ m[3] = b
    BY DEF Requests, Items
<1>2. CoreInv /\ CallsOK /\ faults \in 0..MaxFaults
    BY DEF SagaInv, CoreInv, SagaTypes
<1>3. UNCHANGED <<payVars, orderVars, cart>>
    BY DEF CallBookService
<1>4. ASSUME Perform(m), Step(p, onOk), UNCHANGED <<inflight, faults>>
      PROVE  CoreStep /\ Step(p, onOk) /\ (\/ kind = "reserve" /\ ReserveStock(o, b, Quantity[o][b])
                                           \/ kind = "commit" /\ CommitStock(o, b)
                                           \/ kind = "release" /\ ReleaseStock(o, b))
    <2>1. [StockNext]_stockVars
        BY <1>1, <1>2, <1>4, PerformMoves
    <2>2. CallsOK'
        BY <1>2, <1>4 DEF CallsOK
    <2>3. CoreStep
        BY <1>2, <1>3, <1>4, <2>1, <2>2, QuietMoves DEF orderVars, CoreInv, SagaTypes
    <2> QED
        BY <1>4, <2>3 DEF Perform
<1>5. ASSUME UNCHANGED <<stockVars, inflight, faults>>
      PROVE  CoreStep
    BY <1>2, <1>3, <1>5, StillMoves
<1>6. ASSUME Fault, inflight' = inflight \cup {m}, UNCHANGED stockVars
      PROVE  CoreStep
    <2>1. CallsOK'
        BY <1>1, <1>2, <1>6 DEF CallsOK
    <2> QED
        BY <1>2, <1>3, <1>6, <2>1, FaultMoves, QuietMoves DEF orderVars, CoreInv, SagaTypes
<1> HIDE DEF m
<1> QED
    BY <1>3, <1>4, <1>5, <1>6 DEF CallBookService, m

(* A call to the Payment Service: an operation of it, and nothing else.    *)
LEMMA PaymentMoves ==
    ASSUME CoreInv, [PaymentNext]_payVars, UNCHANGED <<stockVars, orderVars, cart, inflight, faults>>
    PROVE  CoreStep
<1>1. CallsOK' /\ faults' \in 0..MaxFaults
    BY DEF CoreInv, CallsOK, SagaTypes
<1> QED
    BY <1>1, QuietMoves DEF orderVars, CoreInv, SagaTypes

(* Such a call that fails and may take effect later.                       *)
LEMMA LoseMoves ==
    ASSUME CoreInv, NEW p \in Procs, NEW m \in Requests, m[1] # "reserve", NEW onErr, LosePayment(p, m, onErr)
    PROVE  CoreStep /\ Step(p, onErr) /\ UNCHANGED <<stockVars, payVars, orderVars, cart>>
<1>1. CallsOK'
    BY DEF CoreInv, CallsOK, LosePayment
<1>2. faults' \in 0..MaxFaults
    BY FaultMoves DEF LosePayment
<1> QED
    BY <1>1, <1>2, QuietMoves DEF LosePayment, orderVars, CoreInv, SagaTypes

(* UpdateOrderState: the order is in the target status and its handler     *)
(* goes on, or the handler is told of a failure.                           *)
LEMMA UpdateMoves ==
    ASSUME CoreInv, NEW p \in Procs, NEW o \in Orders, o = proc[p].o, NEW allowed \in SUBSET Statuses,
           NEW target \in Statuses \ {"none"}, NEW paid \in BOOLEAN, NEW onOk, NEW onErr,
           UpdateOrderState(p, allowed, target, paid, onOk, onErr),
           status[o] \in allowed /\ status[o] # target => MayBecome(o, target, paid)
    PROVE  /\ CoreStep /\ UNCHANGED <<stockVars, payVars, cart, inflight>>
           /\ \/ Step(p, onErr)
              \/ /\ Step(p, onOk) /\ status'[o] = target
                 /\ UNCHANGED orderVars \/ paymentRef'[o] = (paymentRef[o] \/ paid)
<1>1. UNCHANGED <<stockVars, payVars, cart, inflight>>
    BY DEF UpdateOrderState
<1>2. ASSUME UNCHANGED orderVars, UNCHANGED faults \/ Fault
      PROVE  CoreStep
    BY <1>1, <1>2, StillMoves
<1>3. ASSUME status[o] # target, status[o] \in allowed, SetStatus(o, target, paid), UNCHANGED faults \/ Fault
      PROVE  CoreStep /\ status'[o] = target /\ paymentRef'[o] = (paymentRef[o] \/ paid)
    <2>1. faults' \in 0..MaxFaults
        BY <1>3, FaultMoves DEF CoreInv, SagaTypes
    <2> QED
        BY <1>1, <1>3, <2>1, StatusMoves
<1>4. UNCHANGED orderVars => status' = status
    BY DEF orderVars
<1> QED
    BY <1>1, <1>2, <1>3, <1>4 DEF UpdateOrderState

-----------------------------------------------------------------------------
(* Where the handlers go next, field by field.                             *)
LEMMA FieldTypes ==
    ASSUME NEW r \in HandlerRecord
    PROVE  /\ r.pc \in Pcs /\ r.o \in Orders /\ r.mode \in Modes /\ r.todo \in SUBSET Books
           /\ r.errs \in SUBSET {"refund", "release", "restore"} /\ r.seen \in Statuses
           /\ r.via \in Providers \cup {"none"} /\ Items(r.o) \in SUBSET Books
BY DEF HandlerRecord, Items

(* A handler that rests has no line in hand.                               *)
LEMMA IdleFields ==
    Idle \in HandlerRecord /\ Idle.pc = "idle" /\ Idle.todo = {} /\ Idle.mode = "none" /\ Idle.errs = {}
    /\ Idle.via = "none" /\ Idle.seen = "none"
<1>1. (CHOOSE o \in Orders : TRUE) \in Orders
    BY OrdersAssumption
<1> QED
    BY <1>1 DEF Idle, HandlerRecord, Pcs, Modes, Statuses

(* A handler that starts has no line in hand and no error.                 *)
LEMMA HandlerFields ==
    ASSUME NEW o \in Orders, NEW pc \in Pcs
    PROVE  /\ Handler(o, pc) \in HandlerRecord /\ Handler(o, pc).pc = pc /\ Handler(o, pc).o = o
           /\ Handler(o, pc).todo = {} /\ Handler(o, pc).mode = "none" /\ Handler(o, pc).errs = {}
<1> DEFINE r == Idle
<1>1. r \in HandlerRecord /\ r.todo = {} /\ r.mode = "none" /\ r.errs = {}
    BY IdleFields
<1>2. Handler(o, pc) = [[r EXCEPT !.pc = pc] EXCEPT !.o = o]
    BY DEF Handler
<1> HIDE DEF r
<1> QED
    BY <1>1, <1>2 DEF HandlerRecord

(* A handler that goes to its next step.                                   *)
LEMMA ToFields ==
    ASSUME NEW r \in HandlerRecord, NEW pc \in Pcs, NEW x, x = [r EXCEPT !.pc = pc]
    PROVE  /\ x \in HandlerRecord /\ x.pc = pc /\ x.o = r.o /\ x.mode = r.mode /\ x.todo = r.todo
           /\ x.errs = r.errs /\ x.seen = r.seen /\ x.via = r.via
BY DEF HandlerRecord

(* A handler that has done some of its lines.                              *)
LEMMA TodoFields ==
    ASSUME NEW r \in HandlerRecord, NEW lines \in SUBSET Books, NEW x, x = [r EXCEPT !.todo = lines]
    PROVE  /\ x \in HandlerRecord /\ x.pc = r.pc /\ x.o = r.o /\ x.mode = r.mode /\ x.todo = lines
           /\ x.errs = r.errs /\ x.seen = r.seen /\ x.via = r.via
BY DEF HandlerRecord

(* A handler that has done one more of its lines.                          *)
LEMMA LineDone ==
    ASSUME NEW r \in HandlerRecord, NEW b, NEW x, x = [r EXCEPT !.todo = r.todo \ {b}]
    PROVE  /\ x \in HandlerRecord /\ x.pc = r.pc /\ x.o = r.o /\ x.mode = r.mode /\ x.todo = r.todo \ {b}
           /\ x.errs = r.errs
<1>1. r.todo \ {b} \in SUBSET Books
    BY FieldTypes
<1> QED
    BY <1>1, TodoFields

(* A handler that goes to its next step once it has done all of its lines. *)
LEMMA LineGoesOn ==
    ASSUME NEW r \in HandlerRecord, NEW b, NEW pc \in Pcs, NEW x,
           r.todo = {b} => x = [[r EXCEPT !.pc = pc] EXCEPT !.todo = {}],
           r.todo # {b} => x = [r EXCEPT !.todo = r.todo \ {b}]
    PROVE  /\ x \in HandlerRecord /\ x.o = r.o /\ x.todo = r.todo \ {b} /\ x.errs = r.errs
           /\ x.pc \in {pc, r.pc}
<1>1. CASE r.todo = {b}
    <2> DEFINE y == [r EXCEPT !.pc = pc]
    <2>1. y \in HandlerRecord /\ y.pc = pc /\ y.o = r.o /\ y.errs = r.errs
        BY ToFields
    <2>2. x = [y EXCEPT !.todo = {}]
        BY <1>1
    <2>3. {} \in SUBSET Books /\ r.todo \ {b} = {}
        BY <1>1
    <2> HIDE DEF y
    <2>4. x \in HandlerRecord /\ x.pc = y.pc /\ x.o = y.o /\ x.todo = {} /\ x.errs = y.errs
        BY <2>1, <2>2, <2>3, TodoFields
    <2> QED
        BY <1>1, <2>1, <2>3, <2>4
<1>2. CASE r.todo # {b}
    BY <1>2, LineDone
<1> QED
    BY <1>1, <1>2

(* A handler that remembers the status it read.                            *)
LEMMA SeenFields ==
    ASSUME NEW r \in HandlerRecord, NEW seen \in Statuses, NEW x, x = [r EXCEPT !.seen = seen]
    PROVE  /\ x \in HandlerRecord /\ x.pc = r.pc /\ x.o = r.o /\ x.mode = r.mode /\ x.todo = r.todo
           /\ x.errs = r.errs /\ x.seen = seen /\ x.via = r.via
BY DEF HandlerRecord

(* A handler that remembers the provider the customer chose.               *)
LEMMA ViaFields ==
    ASSUME NEW r \in HandlerRecord, NEW via \in Providers \cup {"none"}, NEW x, x = [r EXCEPT !.via = via]
    PROVE  /\ x \in HandlerRecord /\ x.pc = r.pc /\ x.o = r.o /\ x.mode = r.mode /\ x.todo = r.todo
           /\ x.errs = r.errs /\ x.seen = r.seen /\ x.via = via
BY DEF HandlerRecord

(* A handler that gives back the lines of an order it could not place.     *)
LEMMA UndoingFields ==
    ASSUME NEW r \in HandlerRecord, NEW mode \in Modes, NEW lines \in SUBSET Books,
           NEW x, x = Undoing(r, mode, lines)
    PROVE  /\ x \in HandlerRecord /\ x.pc = "undo" /\ x.o = r.o /\ x.mode = mode /\ x.todo = lines
           /\ x.errs = r.errs
BY DEF HandlerRecord, Undoing, Pcs

(* A handler that gives back every line of its order, for the reason given *)
(* by the mode.                                                            *)
LEMMA ReleasingFields ==
    ASSUME NEW r \in HandlerRecord, NEW mode \in Modes, NEW x, x = Releasing(r, mode)
    PROVE  /\ x \in HandlerRecord /\ x.pc = "release" /\ x.o = r.o /\ x.mode = mode
           /\ x.todo = Items(r.o) /\ x.errs = r.errs
BY FieldTypes DEF HandlerRecord, Releasing, Pcs

(* A handler that commits every line of its order.                         *)
LEMMA CommittingFields ==
    ASSUME NEW r \in HandlerRecord, NEW x, x = Committing(r)
    PROVE  /\ x \in HandlerRecord /\ x.pc = "commit" /\ x.o = r.o /\ x.todo = Items(r.o) /\ x.errs = r.errs
BY FieldTypes DEF HandlerRecord, Committing, Pcs

(* A handler that refunds a paid order it cannot meet.                     *)
LEMMA CompensatingPaidFields ==
    ASSUME NEW r \in HandlerRecord, NEW x, x = CompensatingPaid(r)
    PROVE  /\ x \in HandlerRecord /\ x.pc = "refund" /\ x.o = r.o /\ x.mode = "paid"
           /\ x.todo = r.todo /\ x.errs = r.errs
BY DEF HandlerRecord, Pcs, Modes, CompensatingPaid

(* A record that has been through AfterPayment, AfterUndo, Compensating or *)
(* AfterRelease: it rests, or it goes on with the same order.              *)
LEMMA PayingFields ==
    ASSUME NEW r \in HandlerRecord, NEW x, x = AfterPayment(r)
    PROVE  /\ x \in HandlerRecord
           /\ \/ x.pc = "idle" /\ x.todo = {}
              \/ payment[r.o] = "succeeded" /\ x.pc = "commit" /\ x.o = r.o /\ x.todo = Items(r.o)
BY IdleFields, CommittingFields DEF AfterPayment

(* After a line of an order that was not placed is given back: the next    *)
(* line, the cancellation, or the end.                                     *)
LEMMA AfterUndoFields ==
    ASSUME NEW r \in HandlerRecord, r.pc = "undo", r.todo \subseteq Items(r.o), NEW x, x = AfterUndo(r)
    PROVE  x \in HandlerRecord /\ x.pc \in {"undo", "reject", "idle"} /\ x.todo \subseteq Items(x.o)
<1>1. CASE r.todo # {}
    BY <1>1 DEF AfterUndo
<1>2. CASE r.todo = {} /\ r.mode = "reject"
    BY <1>2, ToFields DEF AfterUndo, Pcs
<1>3. CASE r.todo = {} /\ r.mode # "reject"
    BY <1>3, IdleFields DEF AfterUndo
<1> QED
    BY <1>1, <1>2, <1>3

(* A compensation starts with the refund of an order that names a payment, *)
(* with the lines of one that does not.                                    *)
LEMMA CompensatingFields ==
    ASSUME NEW r \in HandlerRecord, NEW x, x = Compensating(r)
    PROVE  /\ x \in HandlerRecord /\ x.o = r.o /\ x.mode = "comp" /\ x.errs = r.errs
           /\ \/ paymentRef[r.o] /\ x.pc = "refund" /\ x.todo = r.todo
              \/ ~paymentRef[r.o] /\ x.pc = "release" /\ x.todo = Items(r.o)
<1>1. "comp" \in Modes
    BY DEF Modes
<1>2. CASE paymentRef[r.o]
    <2>1. x = [r EXCEPT !.pc = "refund", !.mode = "comp"]
        BY <1>2 DEF Compensating
    <2> QED
        BY <1>2, <2>1 DEF HandlerRecord, Pcs, Modes
<1>3. CASE ~paymentRef[r.o]
    BY <1>1, <1>3, ReleasingFields DEF Compensating
<1> QED
    BY <1>2, <1>3

(* After a line is given back: the next line, or the cart and the end of   *)
(* the order once none is left and none failed; a paid order is closed in  *)
(* any case.                                                               *)
LEMMA AfterReleaseFields ==
    ASSUME NEW r \in HandlerRecord, r.pc = "release", r.todo \subseteq Items(r.o),
           NEW x, x = AfterRelease(r)
    PROVE  /\ x \in HandlerRecord
           /\ \/ x = r /\ r.todo # {}
              \/ x.pc = "idle" /\ x.todo = {} /\ "release" \in r.errs
              \/ /\ x.pc \in {"restore", "close"} /\ x.todo = {} /\ r.todo = {}
                 /\ x.o = r.o /\ x.mode = r.mode /\ x.errs = r.errs
                 /\ r.mode # "paid" => "release" \notin r.errs
                 /\ x.pc = "restore" <=> r.mode \in {"comp", "paid"} /\ "release" \notin r.errs
<1>1. {"restore", "close"} \subseteq Pcs
    BY DEF Pcs
<1>2. CASE r.todo # {}
    BY <1>2 DEF AfterRelease
<1>3. CASE r.todo = {} /\ "release" \in r.errs /\ r.mode = "paid"
    BY <1>1, <1>3, ToFields DEF AfterRelease
<1>4. CASE r.todo = {} /\ "release" \in r.errs /\ r.mode # "paid"
    BY <1>4, IdleFields DEF AfterRelease
<1>5. CASE r.todo = {} /\ "release" \notin r.errs
    <2> DEFINE pc == IF r.mode \in {"comp", "paid"} THEN "restore" ELSE "close"
    <2>1. pc \in {"restore", "close"} /\ (pc = "restore" <=> r.mode \in {"comp", "paid"})
        OBVIOUS
    <2>2. x = [r EXCEPT !.pc = pc]
        BY <1>5 DEF AfterRelease
    <2> HIDE DEF pc
    <2> QED
        BY <1>1, <1>5, <2>1, <2>2, ToFields
<1> QED
    BY <1>2, <1>3, <1>4, <1>5

-----------------------------------------------------------------------------
(* The handlers' steps, one by one.                                        *)

(* A handler between two steps.                                            *)
LEMMA Working ==
    ASSUME SagaInv, NEW p \in Procs
    PROVE  /\ CoreInv /\ \E r \in HandlerRecord : r = proc[p] /\ HandlerOK(r)
BY DEF SagaInv, HandlersOK

(* At these steps a handler claims nothing but the lines it has in hand.   *)
LEMMA NothingClaimed ==
    ASSUME NEW r \in HandlerRecord, r.pc \in {"idle", "undo", "reject", "clear_cart"},
           r.todo \subseteq Items(r.o)
    PROVE  HandlerOK(r)
BY DEF HandlerOK, LatePcs, GivingBack

(* A handler that gives up.                                                *)
LEMMA GivesUp ==
    ASSUME SagaInv, CoreStep, NEW p \in Procs, Step(p, Idle)
    PROVE  SagaInv' /\ LifeStep
<1>1. Idle \in HandlerRecord /\ HandlerOK(Idle)
    BY IdleFields, NothingClaimed
<1> QED
    BY <1>1, HandlerMoves DEF CoreStep

(* Each line is reserved before the order may say so.                      *)
LEMMA ReserveKeeps ==
    ASSUME SagaInv, NEW p \in Procs, Reserve(p)
    PROVE  SagaInv' /\ LifeStep
<1>1. PICK r \in HandlerRecord : r = proc[p] /\ HandlerOK(r)
    BY Working
<1>2. r.pc = "reserve" /\ r.o \in Orders /\ r.todo \subseteq Items(r.o) /\ Items(r.o) \subseteq Books
    BY <1>1, FieldTypes DEF Reserve, At, HandlerOK
<1>3. PICK b \in r.todo : CallBookService(p, <<"reserve", r.o, b>>,
            IF r.todo = {b} THEN [To(p, "reserved") EXCEPT !.todo = {}]
                            ELSE [proc[p] EXCEPT !.todo = @ \ {b}],
            Undoing(proc[p], "reject", (Items(r.o) \ r.todo) \cup {b}))
    BY <1>1 DEF Reserve
<1> DEFINE ok == IF r.todo = {b} THEN [[r EXCEPT !.pc = "reserved"] EXCEPT !.todo = {}]
                                 ELSE [r EXCEPT !.todo = r.todo \ {b}]
           err == Undoing(r, "reject", (Items(r.o) \ r.todo) \cup {b})
<1>4. CallBookService(p, <<"reserve", r.o, b>>, ok, err)
    BY <1>1, <1>3 DEF To
<1>5. /\ ok \in HandlerRecord /\ ok.pc \in {"reserve", "reserved"} /\ ok.o = r.o /\ ok.todo = r.todo \ {b}
      /\ ok.pc = "reserved" => ok.todo = {}
    <2>1. CASE r.todo = {b}
        <3> DEFINE y == [r EXCEPT !.pc = "reserved"]
        <3>1. y \in HandlerRecord /\ y.pc = "reserved" /\ y.o = r.o
            BY ToFields DEF Pcs
        <3> HIDE DEF y
        <3>2. ok = [y EXCEPT !.todo = {}]
            BY <2>1 DEF y
        <3> QED
            BY <2>1, <3>1, <3>2, TodoFields
    <2>2. CASE r.todo # {b}
        BY <1>2, <2>2, TodoFields
    <2> QED
        BY <2>1, <2>2
<1>6. err \in HandlerRecord /\ err.pc = "undo" /\ err.o = r.o /\ err.todo \subseteq Items(r.o)
    BY <1>2, UndoingFields DEF Modes
<1> HIDE DEF ok, err
<1>7. /\ CoreStep
      /\ Step(p, err) \/ (Step(p, ok) /\ ReserveStock(r.o, b, Quantity[r.o][b]))
    <2>1. "reserve" \in {"reserve", "commit", "release"} /\ b \in Items(r.o)
        BY <1>2
    <2> QED
        BY <1>2, <1>4, <2>1, CallMoves
<1>8. CASE Step(p, err)
    BY <1>6, <1>7, <1>8, NothingClaimed, HandlerMoves DEF CoreStep
<1>9. CASE Step(p, ok) /\ ReserveStock(r.o, b, Quantity[r.o][b])
    <2>1. resState'[r.o][b] # "none"
        BY <1>2, <1>9 DEF ReserveStock, ReserveAccepted, stockVars, SagaInv, CoreInv, StockInv, StockTypeOK
    <2>2. \A c \in Items(r.o) \ r.todo : resState'[r.o][c] # "none"
        BY <1>1, <1>2, <1>7 DEF HandlerOK, CoreStep, Onward, StockOnward
    <2>3. HandlerOK(ok)'
        BY <1>2, <1>5, <2>1, <2>2 DEF HandlerOK, LatePcs, GivingBack
    <2> QED
        BY <1>5, <1>7, <1>9, <2>3, HandlerMoves DEF CoreStep
<1> QED
    BY <1>7, <1>8, <1>9

(* The lines of a rejected order are given back as far as they go.         *)
LEMMA UndoKeeps ==
    ASSUME SagaInv, NEW p \in Procs, Undo(p)
    PROVE  SagaInv' /\ LifeStep
<1>1. PICK r \in HandlerRecord : r = proc[p] /\ HandlerOK(r)
    BY Working
<1>2. r.pc = "undo" /\ r.o \in Orders /\ r.todo \subseteq Items(r.o) /\ Items(r.o) \subseteq Books
    BY <1>1, FieldTypes DEF Undo, At, HandlerOK
<1>3. PICK b \in r.todo : LET next == AfterUndo([proc[p] EXCEPT !.todo = @ \ {b}]) IN
            CallBookService(p, <<"release", r.o, b>>, next, next)
    BY <1>1 DEF Undo
<1> DEFINE y == [r EXCEPT !.todo = r.todo \ {b}]
           x == AfterUndo(y)
<1>4. CallBookService(p, <<"release", r.o, b>>, x, x)
    BY <1>1, <1>3
<1>5. y \in HandlerRecord /\ y.pc = "undo" /\ y.o = r.o /\ y.todo \subseteq Items(r.o)
    BY <1>2, TodoFields
<1> HIDE DEF y
<1>6. x \in HandlerRecord /\ x.pc \in {"undo", "reject", "idle"} /\ x.todo \subseteq Items(x.o)
    BY <1>5, AfterUndoFields
<1> HIDE DEF x
<1>7. CoreStep /\ Step(p, x)
    BY <1>2, <1>4, CallMoves
<1>8. HandlerOK(x)
    BY <1>6, NothingClaimed
<1> QED
    BY <1>6, <1>7, <1>8, HandlerMoves DEF CoreStep

(* An order that could not be reserved is cancelled while still pending.   *)
LEMMA RejectKeeps ==
    ASSUME SagaInv, NEW p \in Procs, Reject(p)
    PROVE  SagaInv' /\ LifeStep
<1>1. PICK r \in HandlerRecord : r = proc[p] /\ HandlerOK(r)
    BY Working
<1>2. r.o \in Orders /\ CoreInv
    BY <1>1, FieldTypes, Working
<1>3. UpdateOrderState(p, {"pending"}, "cancelled", FALSE, Idle, Idle)
    BY DEF Reject
<1>4. status[r.o] \in {"pending"} /\ status[r.o] # "cancelled" => MayBecome(r.o, "cancelled", FALSE)
    BY DEF MayBecome
<1>5. {"pending"} \in SUBSET Statuses /\ "cancelled" \in Statuses \ {"none"}
    BY DEF Statuses
<1>6. CoreStep /\ Step(p, Idle)
    BY <1>1, <1>2, <1>3, <1>4, <1>5, UpdateMoves
<1> QED
    BY <1>6, GivesUp

(* The order becomes stock_reserved once every line of it is reserved.     *)
LEMMA ReservedKeeps ==
    ASSUME SagaInv, NEW p \in Procs, Reserved(p)
    PROVE  SagaInv' /\ LifeStep
<1>1. PICK r \in HandlerRecord : r = proc[p] /\ HandlerOK(r)
    BY Working
<1>2. r.o \in Orders /\ CoreInv /\ r.pc = "reserved" /\ r.todo \subseteq Items(r.o) /\ Items(r.o) \in SUBSET Books
    BY <1>1, FieldTypes, Working DEF Reserved, At, HandlerOK
<1> DEFINE ok == [r EXCEPT !.pc = "clear_cart"]
           err == Undoing(r, "abandon", Items(r.o))
<1>3. UpdateOrderState(p, {"pending"}, "stock_reserved", FALSE, ok, err)
    BY <1>1 DEF Reserved, To
<1>4. ok \in HandlerRecord /\ ok.pc = "clear_cart" /\ ok.todo = r.todo /\ ok.o = r.o
    BY ToFields DEF Pcs
<1>5. err \in HandlerRecord /\ err.pc = "undo" /\ err.todo = Items(r.o) /\ err.o = r.o
    BY <1>2, UndoingFields DEF Modes
<1> HIDE DEF ok, err
<1>6. HandlerOK(ok) /\ HandlerOK(err)
    BY <1>2, <1>4, <1>5, NothingClaimed
<1>7. status[r.o] \in {"pending"} /\ status[r.o] # "stock_reserved" => MayBecome(r.o, "stock_reserved", FALSE)
    BY <1>1, <1>2 DEF MayBecome, HandlerOK
<1>8. {"pending"} \in SUBSET Statuses /\ "stock_reserved" \in Statuses \ {"none"}
    BY DEF Statuses
<1>9. CoreStep /\ (Step(p, ok) \/ Step(p, err))
    BY <1>1, <1>2, <1>3, <1>7, <1>8, UpdateMoves
<1> QED
    BY <1>4, <1>5, <1>6, <1>9, HandlerMoves DEF CoreStep

(* The cleanup of the cart spares lines that are back in it.               *)
LEMMA ClearOrderedCartItemsKeeps ==
    ASSUME SagaInv, NEW p \in Procs, ClearOrderedCartItems(p)
    PROVE  SagaInv' /\ LifeStep
<1>1. PICK r \in HandlerRecord : r = proc[p]
    BY Working
<1>2. CoreInv /\ r.o \in Orders /\ cart \in [Orders -> {"ordered", "restored", "absent"}]
    BY <1>1, FieldTypes, Working DEF CoreInv, SagaTypes
<1>3. /\ \/ cart' = [cart EXCEPT ![r.o] = IF cart[r.o] = "ordered" THEN "absent" ELSE cart[r.o]]
         \/ UNCHANGED cart
      /\ Step(p, Idle) /\ UNCHANGED <<stockVars, payVars, orderVars, inflight>>
      /\ UNCHANGED faults \/ Fault
    BY <1>1 DEF ClearOrderedCartItems
<1>4. /\ cart' \in [Orders -> {"ordered", "restored", "absent"}]
      /\ \A o \in Orders : cart[o] = "restored" => cart'[o] = "restored"
    BY <1>2, <1>3
<1>5. faults' \in 0..MaxFaults /\ CallsOK'
    BY <1>2, <1>3, FaultMoves DEF CoreInv, SagaTypes, CallsOK
<1>6. CoreStep
    BY <1>2, <1>3, <1>4, <1>5, QuietMoves DEF orderVars, CoreInv, SagaTypes
<1> QED
    BY <1>3, <1>6, GivesUp

(* BeginPayment, or the end of a reservation that has run out.             *)
LEMMA BeginPaymentKeeps ==
    ASSUME SagaInv, NEW p \in Procs, BeginPayment(p)
    PROVE  SagaInv' /\ LifeStep
<1>1. PICK r \in HandlerRecord : r = proc[p] /\ HandlerOK(r)
    BY Working
<1>2. /\ r.o \in Orders /\ CoreInv /\ r.pc = "begin" /\ r.todo \subseteq Items(r.o) /\ r.via \in Providers
    BY <1>1, FieldTypes, Working DEF BeginPayment, At, HandlerOK
<1> DEFINE y == [r EXCEPT !.pc = "claim"]
           z == [y EXCEPT !.seen = "stock_reserved"]
           x == [z EXCEPT !.via = "none"]
           ok == [r EXCEPT !.pc = "charge"]
<1>3. \/ /\ Step(p, x)
         /\ UNCHANGED <<stockVars, payVars, orderVars, cart, inflight, faults>>
      \/ UpdateOrderState(p, {"stock_reserved"}, "payment_pending", FALSE, ok, Idle)
    BY <1>1 DEF BeginPayment, To
<1>4. ok \in HandlerRecord /\ ok.pc = "charge" /\ ok.todo = r.todo /\ ok.o = r.o /\ ok.via = r.via
    BY ToFields DEF Pcs
<1> HIDE DEF ok
<1>5. y \in HandlerRecord /\ y.pc = "claim" /\ y.todo = r.todo /\ y.o = r.o
    BY ToFields DEF Pcs
<1> HIDE DEF y
<1>6. z \in HandlerRecord /\ z.pc = "claim" /\ z.todo = r.todo /\ z.o = r.o /\ z.seen = "stock_reserved"
    BY <1>5, SeenFields DEF Statuses
<1> HIDE DEF z
<1>7. x \in HandlerRecord /\ x.pc = "claim" /\ x.todo = r.todo /\ x.o = r.o /\ x.seen = "stock_reserved"
    BY <1>6, ViaFields
<1> HIDE DEF x
<1>8. CASE Step(p, x) /\ UNCHANGED <<stockVars, payVars, orderVars, cart, inflight, faults>>
    <2>1. CoreStep
        BY <1>2, <1>8, StillMoves
    <2>2. HandlerOK(x)
        BY <1>2, <1>7 DEF HandlerOK, LatePcs, GivingBack
    <2> QED
        BY <1>7, <1>8, <2>1, <2>2, HandlerMoves DEF CoreStep
<1>9. CASE UpdateOrderState(p, {"stock_reserved"}, "payment_pending", FALSE, ok, Idle)
    <2>1. status[r.o] \in {"stock_reserved"} /\ status[r.o] # "payment_pending" => MayBecome(r.o, "payment_pending", FALSE)
        BY DEF MayBecome
    <2>2. {"stock_reserved"} \in SUBSET Statuses /\ "payment_pending" \in Statuses \ {"none"}
        BY DEF Statuses
    <2>3. CoreStep /\ (Step(p, Idle) \/ (Step(p, ok) /\ status'[r.o] = "payment_pending"))
        BY <1>1, <1>2, <1>9, <2>1, <2>2, UpdateMoves, ZenonT(30)
    <2>4. ASSUME Step(p, ok), status'[r.o] = "payment_pending"
          PROVE  SagaInv' /\ LifeStep
        <3>1. HandlerOK(ok)'
            BY <1>2, <1>4, <2>4 DEF HandlerOK, LatePcs, GivingBack, Late
        <3> QED
            BY <1>4, <2>3, <2>4, <3>1, HandlerMoves DEF CoreStep
    <2> QED
        BY <2>3, <2>4, GivesUp
<1> QED
    BY <1>3, <1>8, <1>9

(* What is known of the payment decides: a succeeded one is committed.     *)
LEMMA PaidGoesOn ==
    ASSUME NEW r \in HandlerRecord, status[r.o] \in Late, NEW x, x = AfterPayment(r)
    PROVE  x \in HandlerRecord /\ HandlerOK(x)
<1>1. /\ x \in HandlerRecord
      /\ \/ x.pc = "idle" /\ x.todo = {}
         \/ payment[r.o] = "succeeded" /\ x.pc = "commit" /\ x.o = r.o /\ x.todo = Items(r.o)
    BY PayingFields
<1>2. CASE x.pc = "idle" /\ x.todo = {}
    BY <1>1, <1>2, NothingClaimed
<1>3. CASE payment[r.o] = "succeeded" /\ x.pc = "commit" /\ x.o = r.o /\ x.todo = Items(r.o)
    <2>1. /\ x.todo = Items(x.o) /\ payment[x.o] \in Paid /\ status[x.o] \in Late
          /\ Items(x.o) \ x.todo = {}
        BY <1>3 DEF Paid
    <2> QED
        BY <1>1, <1>3, <2>1 DEF HandlerOK, LatePcs, GivingBack
<1> QED
    BY <1>1, <1>2, <1>3

(* The first half of CreatePayment.                                        *)
LEMMA ChargeKeeps ==
    ASSUME SagaInv, NEW p \in Procs, Charge(p)
    PROVE  SagaInv' /\ LifeStep
<1>1. PICK r \in HandlerRecord : r = proc[p] /\ HandlerOK(r)
    BY Working
<1>2. /\ r.o \in Orders /\ CoreInv /\ r.pc = "charge" /\ r.todo \subseteq Items(r.o) /\ r.via \in Providers
      /\ status[r.o] \in Late
    BY <1>1, FieldTypes, Working DEF Charge, At, HandlerOK, LatePcs
<1> DEFINE debit == [r EXCEPT !.pc = "debit"]
           lookup == [r EXCEPT !.pc = "lookup"]
           x == AfterPayment(r)
           m == <<"charge", r.o, r.via>>
<1>3. \/ /\ UNCHANGED <<stockVars, orderVars, cart, inflight, faults>>
         /\ \/ Step(p, debit) /\ UNCHANGED payVars
            \/ GatewayCheckout(r.o) /\ Step(p, Idle)
            \/ (Step(p, x) \/ Step(p, lookup)) /\ UNCHANGED payVars
      \/ LosePayment(p, m, lookup)
    BY <1>1 DEF Charge, To
<1>4. debit \in HandlerRecord /\ debit.pc = "debit" /\ debit.todo = r.todo /\ debit.o = r.o /\ debit.via = r.via
    BY ToFields DEF Pcs
<1>5. lookup \in HandlerRecord /\ lookup.pc = "lookup" /\ lookup.todo = r.todo /\ lookup.o = r.o
    BY ToFields DEF Pcs
<1>6. m \in Requests /\ m[1] # "reserve"
    BY <1>2 DEF Requests
<1> HIDE DEF debit, lookup, m
<1>7. HandlerOK(debit) /\ HandlerOK(lookup)
    BY <1>2, <1>4, <1>5 DEF HandlerOK, LatePcs, GivingBack
<1>8. x \in HandlerRecord /\ HandlerOK(x)
    BY <1>2, PaidGoesOn
<1> HIDE DEF x
<1>9. \/ UNCHANGED <<stockVars, orderVars, cart, inflight, faults>> /\ [PaymentNext]_payVars
      \/ LosePayment(p, m, lookup)
    BY <1>2, <1>3 DEF PaymentNext
<1>10. CoreStep /\ (LosePayment(p, m, lookup) => Step(p, lookup))
    BY <1>2, <1>6, <1>9, PaymentMoves, LoseMoves
<1>11. Step(p, debit) \/ Step(p, lookup) \/ Step(p, x) \/ Step(p, Idle)
    BY <1>3, <1>10
<1>12. ASSUME NEW h \in HandlerRecord, HandlerOK(h), Step(p, h)
       PROVE  SagaInv' /\ LifeStep
    BY <1>10, <1>12, HandlerMoves DEF CoreStep
<1> QED
    BY <1>4, <1>5, <1>7, <1>8, <1>10, <1>11, <1>12, GivesUp

(* The second half of a wallet's CreatePayment.                            *)
LEMMA DebitKeeps ==
    ASSUME SagaInv, NEW p \in Procs, Debit(p)
    PROVE  SagaInv' /\ LifeStep
<1>1. PICK r \in HandlerRecord : r = proc[p] /\ HandlerOK(r)
    BY Working
<1>2. /\ r.o \in Orders /\ CoreInv /\ r.pc = "debit" /\ r.todo \subseteq Items(r.o)
      /\ status[r.o] \in Late /\ payment \in [Orders -> PaymentStates]
    BY <1>1, FieldTypes, Working DEF Debit, At, HandlerOK, LatePcs, CoreInv, SagaTypes, PaymentTypeOK
<1> DEFINE declined == Releasing(r, "decline")
           lookup == [r EXCEPT !.pc = "lookup"]
           x == Committing(r)
           m == <<"charge", r.o, "wallet">>
<1>3. \/ /\ UNCHANGED <<stockVars, orderVars, cart, inflight, faults>>
         /\ \/ (Step(p, declined) \/ Step(p, lookup)) /\ UNCHANGED payVars
            \/ WalletCharge(r.o) /\ Step(p, x)
      \/ LosePayment(p, m, lookup)
    BY <1>1 DEF Debit, To
<1>4. /\ declined \in HandlerRecord /\ declined.pc = "release" /\ declined.o = r.o
      /\ declined.mode = "decline" /\ declined.todo = Items(r.o)
    BY ReleasingFields DEF Modes
<1>5. lookup \in HandlerRecord /\ lookup.pc = "lookup" /\ lookup.todo = r.todo /\ lookup.o = r.o
    BY ToFields DEF Pcs
<1>6. m \in Requests /\ m[1] # "reserve"
    BY <1>2 DEF Requests, Providers
<1>7. x \in HandlerRecord /\ x.pc = "commit" /\ x.o = r.o /\ x.todo = Items(r.o)
    BY CommittingFields
<1> HIDE DEF declined, lookup, m, x
<1>8. HandlerOK(declined) /\ HandlerOK(lookup)
    BY <1>2, <1>4, <1>5 DEF HandlerOK, LatePcs, GivingBack, Freed
<1>9. \/ UNCHANGED <<stockVars, orderVars, cart, inflight, faults>> /\ [PaymentNext]_payVars
      \/ LosePayment(p, m, lookup)
    BY <1>2, <1>3 DEF PaymentNext
<1>10. CoreStep /\ (LosePayment(p, m, lookup) => Step(p, lookup))
    BY <1>2, <1>6, <1>9, PaymentMoves, LoseMoves
<1>11. ASSUME WalletCharge(r.o), Step(p, x), UNCHANGED <<stockVars, orderVars, cart, inflight, faults>>
       PROVE  SagaInv' /\ LifeStep
    <2>1. payment'[r.o] = "succeeded" /\ status' = status
        BY <1>2, <1>11 DEF WalletCharge, orderVars
    <2>2. HandlerOK(x)'
        BY <1>2, <1>7, <2>1 DEF HandlerOK, LatePcs, GivingBack, Paid
    <2> QED
        BY <1>7, <1>10, <1>11, <2>2, HandlerMoves DEF CoreStep
<1>12. ASSUME NEW h \in HandlerRecord, HandlerOK(h), Step(p, h)
       PROVE  SagaInv' /\ LifeStep
    BY <1>10, <1>12, HandlerMoves DEF CoreStep
<1> QED
    BY <1>3, <1>4, <1>5, <1>8, <1>10, <1>11, <1>12

(* A handler that does not know the answer asks for the payment.           *)
LEMMA LookupKeeps ==
    ASSUME SagaInv, NEW p \in Procs, Lookup(p)
    PROVE  SagaInv' /\ LifeStep
<1>1. PICK r \in HandlerRecord : r = proc[p] /\ HandlerOK(r)
    BY Working
<1>2. CoreInv /\ r.pc = "lookup" /\ status[r.o] \in Late
    BY <1>1, Working DEF Lookup, At, HandlerOK, LatePcs
<1> DEFINE x == AfterPayment(r)
<1>3. Step(p, x) /\ UNCHANGED <<stockVars, payVars, orderVars, cart, inflight, faults>>
    BY <1>1 DEF Lookup
<1>4. x \in HandlerRecord /\ HandlerOK(x)
    BY <1>2, PaidGoesOn
<1> HIDE DEF x
<1>5. CoreStep
    BY <1>2, <1>3, StillMoves
<1> QED
    BY <1>3, <1>4, <1>5, HandlerMoves DEF CoreStep

(* Each line is committed before the order may be confirmed; an order that *)
(* cannot be is refunded.                                                  *)
LEMMA CommitKeeps ==
    ASSUME SagaInv, NEW p \in Procs, Commit(p)
    PROVE  SagaInv' /\ LifeStep
<1>1. PICK r \in HandlerRecord : r = proc[p] /\ HandlerOK(r)
    BY Working
<1>2. /\ CoreInv /\ r.pc = "commit" /\ r.o \in Orders /\ r.todo \subseteq Items(r.o) /\ Items(r.o) \subseteq Books
      /\ status[r.o] \in Late /\ payment[r.o] \in Paid
      /\ \A c \in Items(r.o) \ r.todo : resState[r.o][c] \in Settled
    BY <1>1, FieldTypes, Working DEF Commit, At, HandlerOK, LatePcs
<1>3. PICK b \in r.todo : CallBookService(p, <<"commit", r.o, b>>,
            IF r.todo = {b} THEN [To(p, "confirm") EXCEPT !.todo = {}]
                            ELSE [proc[p] EXCEPT !.todo = @ \ {b}],
            CompensatingPaid([proc[p] EXCEPT !.todo = {}]))
    BY <1>1 DEF Commit
<1> DEFINE ok == IF r.todo = {b} THEN [[r EXCEPT !.pc = "confirm"] EXCEPT !.todo = {}]
                                 ELSE [r EXCEPT !.todo = r.todo \ {b}]
           z == [r EXCEPT !.todo = {}]
           err == CompensatingPaid(z)
<1>4. CallBookService(p, <<"commit", r.o, b>>, ok, err)
    BY <1>1, <1>3 DEF To
<1>5. /\ ok \in HandlerRecord /\ ok.pc \in {"commit", "confirm"} /\ ok.o = r.o /\ ok.todo = r.todo \ {b}
      /\ ok.pc = "confirm" => ok.todo = {}
    <2>1. CASE r.todo = {b}
        <3> DEFINE y == [r EXCEPT !.pc = "confirm"]
        <3>1. y \in HandlerRecord /\ y.pc = "confirm" /\ y.o = r.o
            BY ToFields DEF Pcs
        <3> HIDE DEF y
        <3>2. ok = [y EXCEPT !.todo = {}]
            BY <2>1 DEF y
        <3> QED
            BY <2>1, <3>1, <3>2, TodoFields
    <2>2. CASE r.todo # {b}
        BY <1>2, <2>2, TodoFields
    <2> QED
        BY <2>1, <2>2
<1>6. z \in HandlerRecord /\ z.o = r.o /\ z.todo = {}
    BY TodoFields
<1> HIDE DEF z
<1>7. err \in HandlerRecord /\ err.pc = "refund" /\ err.o = r.o /\ err.mode = "paid" /\ err.todo = {}
    BY <1>6, CompensatingPaidFields
<1> HIDE DEF ok, err
<1>8. b \in Items(r.o) /\ "commit" \in {"reserve", "commit", "release"}
    BY <1>2
<1>9. /\ CoreStep /\ UNCHANGED <<payVars, orderVars, cart>>
      /\ Step(p, err) \/ (Step(p, ok) /\ CommitStock(r.o, b))
    BY <1>2, <1>4, <1>8, CallMoves
<1>10. CASE Step(p, err)
    <2>1. HandlerOK(err)
        BY <1>2, <1>7 DEF HandlerOK, LatePcs, GivingBack
    <2> QED
        BY <1>7, <1>9, <1>10, <2>1, HandlerMoves DEF CoreStep
<1>11. CASE Step(p, ok) /\ CommitStock(r.o, b)
    <2>1. resState'[r.o][b] \in Settled
        BY <1>2, <1>8, <1>11 DEF CommitStock, CoreInv, StockInv, StockTypeOK, Settled
    <2>2. /\ \A c \in Items(r.o) \ r.todo : resState'[r.o][c] \in Settled
          /\ status'[r.o] \in Late /\ payment'[r.o] \in Paid
        BY <1>2, <1>9 DEF CoreStep, Onward, StockOnward, StatusOnward, PaymentOnward
    <2>3. HandlerOK(ok)'
        BY <1>2, <1>5, <2>1, <2>2 DEF HandlerOK, LatePcs, GivingBack
    <2> QED
        BY <1>5, <1>9, <1>11, <2>3, HandlerMoves DEF CoreStep
<1> QED
    BY <1>9, <1>10, <1>11

(* A paid order whose lines are all committed is confirmed.                *)
LEMMA ConfirmKeeps ==
    ASSUME SagaInv, NEW p \in Procs, Confirm(p)
    PROVE  SagaInv' /\ LifeStep
<1>1. PICK r \in HandlerRecord : r = proc[p] /\ HandlerOK(r)
    BY Working
<1>2. /\ CoreInv /\ r.pc = "confirm" /\ r.o \in Orders /\ r.todo = {} /\ status[r.o] \in Late
      /\ payment[r.o] \in Paid /\ \A c \in Items(r.o) : resState[r.o][c] \in Settled
    BY <1>1, FieldTypes, Working DEF Confirm, At, HandlerOK, LatePcs
<1> DEFINE refund == CompensatingPaid(r)
           err == IF p \in Clients THEN refund ELSE Idle
<1>3. UpdateOrderState(p, {"payment_pending"}, "confirmed", TRUE, Idle, err)
    BY <1>1 DEF Confirm
<1>4. refund \in HandlerRecord /\ refund.pc = "refund" /\ refund.o = r.o /\ refund.mode = "paid" /\ refund.todo = r.todo
    BY CompensatingPaidFields
<1> HIDE DEF refund
<1>5. HandlerOK(refund)
    BY <1>2, <1>4 DEF HandlerOK, LatePcs, GivingBack
<1>6. status[r.o] \in {"payment_pending"} /\ status[r.o] # "confirmed" => MayBecome(r.o, "confirmed", TRUE)
    BY <1>2 DEF MayBecome
<1>7. {"payment_pending"} \in SUBSET Statuses /\ "confirmed" \in Statuses \ {"none"}
    BY DEF Statuses
<1>8. CoreStep /\ (Step(p, Idle) \/ Step(p, err))
    <2>1. /\ CoreStep
          /\ \/ Step(p, err)
             \/ Step(p, Idle) /\ status'[r.o] = "confirmed"
                /\ (UNCHANGED orderVars \/ paymentRef'[r.o] = (paymentRef[r.o] \/ TRUE))
        BY <1>1, <1>2, <1>3, <1>6, <1>7, UpdateMoves, ZenonT(30)
    <2> QED
        BY <2>1
<1>9. Step(p, Idle) \/ Step(p, refund)
    BY <1>8
<1>10. CASE Step(p, refund)
    BY <1>4, <1>5, <1>8, <1>10, HandlerMoves DEF CoreStep
<1> QED
    BY <1>8, <1>9, <1>10, GivesUp

(* An order that timed out or is cancelled is claimed before anything is   *)
(* given back.                                                             *)
LEMMA ClaimKeeps ==
    ASSUME SagaInv, NEW p \in Procs, Claim(p)
    PROVE  SagaInv' /\ LifeStep
<1>1. PICK r \in HandlerRecord : r = proc[p] /\ HandlerOK(r)
    BY Working
<1>2. /\ CoreInv /\ r.pc = "claim" /\ r.o \in Orders /\ r.todo \subseteq Items(r.o)
      /\ r.seen \in {"pending", "stock_reserved"}
    BY <1>1, FieldTypes, Working DEF Claim, At, HandlerOK
<1> DEFINE y == [r EXCEPT !.seen = "none"]
<1>3. UpdateOrderState(p, {r.seen}, "compensation_pending", FALSE, Compensating(y), Idle)
    BY <1>1 DEF Claim
<1>4. y \in HandlerRecord /\ y.o = r.o /\ y.todo = r.todo
    BY SeenFields DEF Statuses
<1> HIDE DEF y
<1>5. PICK ok \in HandlerRecord :
        /\ ok = Compensating(y) /\ ok.o = r.o /\ ok.mode = "comp"
        /\ \/ paymentRef[r.o] /\ ok.pc = "refund" /\ ok.todo = r.todo
           \/ ~paymentRef[r.o] /\ ok.pc = "release" /\ ok.todo = Items(r.o)
    BY <1>4, CompensatingFields
<1>6. status[r.o] \in {r.seen} /\ status[r.o] # "compensation_pending" => MayBecome(r.o, "compensation_pending", FALSE)
    BY <1>2 DEF MayBecome
<1>7. {r.seen} \in SUBSET Statuses /\ "compensation_pending" \in Statuses \ {"none"}
    BY <1>2 DEF Statuses
<1>8. /\ CoreStep
      /\ \/ Step(p, Idle)
         \/ /\ Step(p, ok) /\ status'[r.o] = "compensation_pending"
            /\ UNCHANGED orderVars \/ paymentRef'[r.o] = (paymentRef[r.o] \/ FALSE)
    <2>1. UpdateOrderState(p, {r.seen}, "compensation_pending", FALSE, ok, Idle)
        BY <1>3, <1>5
    <2> QED
        BY <1>1, <1>2, <1>6, <1>7, <2>1, UpdateMoves
<1>9. ASSUME Step(p, ok), status'[r.o] = "compensation_pending",
             UNCHANGED orderVars \/ paymentRef'[r.o] = (paymentRef[r.o] \/ FALSE)
      PROVE  SagaInv' /\ LifeStep
    <2>1. ~paymentRef[r.o] => ~paymentRef'[r.o]
        BY <1>9 DEF orderVars
    <2>2. CASE ok.pc = "refund" /\ ok.todo = r.todo
        <3>1. HandlerOK(ok)'
            BY <1>2, <1>5, <1>9, <2>2 DEF HandlerOK, LatePcs, GivingBack, Late, GivenUp
        <3> QED
            BY <1>5, <1>8, <1>9, <3>1, HandlerMoves DEF CoreStep
    <2>3. CASE ~paymentRef[r.o] /\ ok.pc = "release" /\ ok.todo = Items(r.o)
        <3>1. HandlerOK(ok)'
            BY <1>2, <1>5, <1>9, <2>1, <2>3 DEF HandlerOK, LatePcs, GivingBack, Late, GivenUp, Freed
        <3> QED
            BY <1>5, <1>8, <1>9, <3>1, HandlerMoves DEF CoreStep
    <2> QED
        BY <1>5, <2>2, <2>3
<1> QED
    BY <1>8, <1>9, GivesUp

(* An unfinished payment: what the Payment Service says of it decides.     *)
LEMMA InspectKeeps ==
    ASSUME SagaInv, NEW p \in Procs, Inspect(p)
    PROVE  SagaInv' /\ LifeStep
<1>1. PICK r \in HandlerRecord : r = proc[p] /\ HandlerOK(r)
    BY Working
<1>2. CoreInv /\ r.pc = "inspect" /\ status[r.o] \in Late
    BY <1>1, Working DEF Inspect, At, HandlerOK, LatePcs
<1> DEFINE expire == Releasing(r, "expire")
           failed == Releasing(r, "failed")
           paid == Committing(r)
<1>3. /\ \/ Step(p, expire)
         \/ Step(p, failed) /\ payment[r.o] = "failed"
         \/ Step(p, paid) /\ payment[r.o] = "succeeded"
         \/ Step(p, Idle)
      /\ UNCHANGED <<stockVars, payVars, orderVars, cart, inflight, faults>>
    BY <1>1 DEF Inspect
<1>4. /\ expire \in HandlerRecord /\ expire.pc = "release" /\ expire.o = r.o
      /\ expire.mode = "expire" /\ expire.todo = Items(r.o)
    BY ReleasingFields DEF Modes
<1>5. /\ failed \in HandlerRecord /\ failed.pc = "release" /\ failed.o = r.o
      /\ failed.mode = "failed" /\ failed.todo = Items(r.o)
    BY ReleasingFields DEF Modes
<1>6. paid \in HandlerRecord /\ paid.pc = "commit" /\ paid.o = r.o /\ paid.todo = Items(r.o)
    BY CommittingFields
<1> HIDE DEF expire, failed, paid
<1>7. HandlerOK(expire)
    BY <1>2, <1>4 DEF HandlerOK, LatePcs, GivingBack, Freed
<1>8. payment[r.o] = "failed" => HandlerOK(failed)
    BY <1>2, <1>5 DEF HandlerOK, LatePcs, GivingBack, Freed
<1>9. payment[r.o] = "succeeded" => HandlerOK(paid)
    BY <1>2, <1>6 DEF HandlerOK, LatePcs, GivingBack, Paid
<1>10. CoreStep
    BY <1>2, <1>3, StillMoves
<1>11. ASSUME NEW h \in HandlerRecord, HandlerOK(h), Step(p, h)
       PROVE  SagaInv' /\ LifeStep
    BY <1>10, <1>11, HandlerMoves DEF CoreStep
<1> QED
    BY <1>3, <1>4, <1>5, <1>6, <1>7, <1>8, <1>9, <1>10, <1>11, GivesUp

(* Nothing of a compensation goes on before the refund is complete; a paid *)
(* order that cannot be met goes on and remembers.                         *)
LEMMA RefundKeeps ==
    ASSUME SagaInv, NEW p \in Procs, Refund(p)
    PROVE  SagaInv' /\ LifeStep
<1>1. PICK r \in HandlerRecord : r = proc[p] /\ HandlerOK(r)
    BY Working
<1>2. /\ CoreInv /\ r.pc = "refund" /\ r.o \in Orders /\ status[r.o] \in Late /\ r.mode \in {"comp", "paid"}
      /\ r.mode = "comp" => status[r.o] \in GivenUp
    BY <1>1, FieldTypes, Working DEF Refund, At, HandlerOK, LatePcs
<1> DEFINE y == [r EXCEPT !.errs = {"refund"}]
           late == Releasing(y, "paid")
           failed == IF r.mode = "comp" THEN Idle ELSE late
           done == Releasing(r, r.mode)
           m == <<"refund", r.o, "none">>
<1>3. \/ /\ RefundPayment(r.o) /\ UNCHANGED <<stockVars, orderVars, cart, inflight, faults>>
         /\ Step(p, IF payment'[r.o] = "refunded" THEN done ELSE failed)
      \/ Step(p, failed) /\ UNCHANGED <<stockVars, payVars, orderVars, cart, inflight, faults>>
      \/ LosePayment(p, m, failed)
    BY <1>1 DEF Refund
<1>4. y \in HandlerRecord /\ y.o = r.o /\ y.errs = {"refund"}
    BY DEF HandlerRecord
<1> HIDE DEF y
<1>5. /\ late \in HandlerRecord /\ late.pc = "release" /\ late.o = r.o /\ late.mode = "paid"
      /\ late.todo = Items(r.o) /\ late.errs = {"refund"}
    BY <1>4, ReleasingFields DEF Modes
<1>6. done \in HandlerRecord /\ done.pc = "release" /\ done.o = r.o /\ done.mode = r.mode /\ done.todo = Items(r.o)
    BY <1>2, ReleasingFields DEF Modes
<1>7. m \in Requests /\ m[1] # "reserve"
    BY <1>2 DEF Requests
<1> HIDE DEF late, done, m
<1>8. HandlerOK(late)
    BY <1>2, <1>5 DEF HandlerOK, LatePcs, GivingBack, Freed
<1>9. \/ [PaymentNext]_payVars /\ UNCHANGED <<stockVars, orderVars, cart, inflight, faults>>
      \/ LosePayment(p, m, failed)
    BY <1>2, <1>3 DEF PaymentNext
<1>10. CoreStep /\ (LosePayment(p, m, failed) => Step(p, failed))
    BY <1>2, <1>7, <1>9, PaymentMoves, LoseMoves
<1>11. Step(p, late) \/ Step(p, Idle) \/ (Step(p, done) /\ payment'[r.o] = "refunded" /\ UNCHANGED orderVars)
    BY <1>3, <1>10
<1>12. CASE Step(p, late)
    BY <1>5, <1>8, <1>10, <1>12, HandlerMoves DEF CoreStep
<1>13. CASE Step(p, done) /\ payment'[r.o] = "refunded" /\ UNCHANGED orderVars
    <2>1. HandlerOK(done)'
        BY <1>2, <1>6, <1>13 DEF HandlerOK, LatePcs, GivingBack, Freed, orderVars
    <2> QED
        BY <1>6, <1>10, <1>13, <2>1, HandlerMoves DEF CoreStep
<1> QED
    BY <1>10, <1>11, <1>12, <1>13, GivesUp

(* releaseItemsStrict: what is not remembered as failed has been given     *)
(* back, and nothing goes on to cancel an order that still holds a line.   *)
LEMMA ReleaseKeeps ==
    ASSUME SagaInv, NEW p \in Procs, Release(p)
    PROVE  SagaInv' /\ LifeStep
<1>1. PICK r \in HandlerRecord : r = proc[p] /\ HandlerOK(r)
    BY Working
<1>2. /\ CoreInv /\ r.pc = "release" /\ r.o \in Orders /\ r.todo \subseteq Items(r.o) /\ Items(r.o) \subseteq Books
    BY <1>1, FieldTypes, Working DEF Release, At, HandlerOK
<1>3. PICK b \in r.todo : LET next == [proc[p] EXCEPT !.todo = @ \ {b}] IN
            CallBookService(p, <<"release", r.o, b>>, AfterRelease(next),
                            AfterRelease([next EXCEPT !.errs = @ \cup {"release"}]))
    BY <1>1 DEF Release
<1> DEFINE y == [r EXCEPT !.todo = r.todo \ {b}]
           z == [y EXCEPT !.errs = y.errs \cup {"release"}]
           ok == AfterRelease(y)
           err == AfterRelease(z)
<1>4. CallBookService(p, <<"release", r.o, b>>, ok, err)
    BY <1>1, <1>3
<1>5. /\ y \in HandlerRecord /\ y.pc = "release" /\ y.o = r.o /\ y.mode = r.mode
      /\ y.todo = r.todo \ {b} /\ y.errs = r.errs
    BY <1>2, TodoFields
<1> HIDE DEF y
<1>6. /\ z \in HandlerRecord /\ z.pc = "release" /\ z.o = r.o /\ z.mode = r.mode
      /\ z.todo = r.todo \ {b} /\ "release" \in z.errs
    BY <1>5 DEF HandlerRecord
<1> HIDE DEF z
<1>7. /\ ok \in HandlerRecord
      /\ \/ ok = y
         \/ ok.pc = "idle" /\ ok.todo = {}
         \/ /\ ok.pc \in {"restore", "close"} /\ ok.todo = {} /\ y.todo = {}
            /\ ok.o = r.o /\ ok.mode = r.mode /\ ok.errs = r.errs
            /\ r.mode # "paid" => "release" \notin r.errs
            /\ r.mode = "comp" => ok.pc = "restore"
    BY <1>2, <1>5, AfterReleaseFields
<1>8. /\ err \in HandlerRecord
      /\ \/ err = z
         \/ err.pc = "idle" /\ err.todo = {}
         \/ /\ err.pc \in {"restore", "close"} /\ err.todo = {} /\ err.errs = z.errs
            /\ err.o = r.o /\ err.mode = "paid" /\ r.mode = "paid"
    BY <1>2, <1>6, AfterReleaseFields
<1> HIDE DEF ok, err
<1>9. b \in Items(r.o) /\ "release" \in {"reserve", "commit", "release"}
    BY <1>2
<1>10. /\ CoreStep /\ UNCHANGED <<payVars, orderVars, cart>>
       /\ Step(p, err) \/ (Step(p, ok) /\ ReleaseStock(r.o, b))
    BY <1>2, <1>4, <1>9, CallMoves
<1>11. HandlerOK(r)'
    BY <1>1, <1>2, <1>10, AchievedStays DEF CoreStep
<1>12. /\ status'[r.o] \in Late
       /\ r.mode \in {"comp", "expire", "failed", "decline", "paid"}
       /\ "release" \notin r.errs => Freed(r.o, Items(r.o) \ r.todo)'
       /\ r.mode = "failed" => payment'[r.o] = "failed"
       /\ r.mode = "comp" /\ paymentRef'[r.o] => payment'[r.o] = "refunded"
       /\ r.mode = "comp" => status'[r.o] \in GivenUp
       /\ r.mode = "paid" /\ "refund" \notin r.errs => payment'[r.o] = "refunded"
    BY <1>2, <1>11 DEF HandlerOK, LatePcs, GivingBack
<1>13. CASE Step(p, err)
    <2>1. "refund" \in z.errs \/ "refund" \notin r.errs
        BY <1>5 DEF z
    <2>2. HandlerOK(err)'
        <3>1. CASE err = z
            BY <1>2, <1>6, <1>12, <2>1, <3>1 DEF HandlerOK, LatePcs, GivingBack
        <3>2. CASE err.pc = "idle" /\ err.todo = {}
            BY <3>2 DEF HandlerOK, LatePcs, GivingBack
        <3>3. CASE /\ err.pc \in {"restore", "close"} /\ err.todo = {} /\ err.errs = z.errs
                   /\ err.o = r.o /\ err.mode = "paid" /\ r.mode = "paid"
            BY <1>2, <1>6, <1>12, <2>1, <3>3 DEF HandlerOK, LatePcs, GivingBack
        <3> QED
            BY <1>8, <3>1, <3>2, <3>3
    <2> QED
        BY <1>8, <1>10, <1>13, <2>2, HandlerMoves DEF CoreStep
<1>14. CASE Step(p, ok) /\ ReleaseStock(r.o, b)
    <2>1. resState'[r.o][b] \notin Holding
        BY <1>2, <1>9, <1>14 DEF ReleaseStock, CoreInv, StockInv, StockTypeOK, Holding, stockVars
    <2>2. "release" \notin r.errs => Freed(r.o, Items(r.o) \ (r.todo \ {b}))'
        BY <1>12, <2>1 DEF Freed
    <2>3. HandlerOK(ok)'
        <3>1. CASE ok = y
            BY <1>2, <1>5, <1>12, <2>2, <3>1 DEF HandlerOK, LatePcs, GivingBack
        <3>2. CASE ok.pc = "idle" /\ ok.todo = {}
            BY <3>2 DEF HandlerOK, LatePcs, GivingBack
        <3>3. CASE /\ ok.pc \in {"restore", "close"} /\ ok.todo = {} /\ y.todo = {}
                   /\ ok.o = r.o /\ ok.mode = r.mode /\ ok.errs = r.errs
                   /\ r.mode # "paid" => "release" \notin r.errs
                   /\ r.mode = "comp" => ok.pc = "restore"
            <4>1. "release" \notin ok.errs => Freed(ok.o, Items(ok.o) \ ok.todo)'
                BY <1>5, <2>2, <3>3
            <4> QED
                BY <1>12, <3>3, <4>1 DEF HandlerOK, LatePcs, GivingBack
        <3> QED
            BY <1>7, <3>1, <3>2, <3>3
    <2> QED
        BY <1>7, <1>10, <1>14, <2>3, HandlerMoves DEF CoreStep
<1> QED
    BY <1>10, <1>13, <1>14

(* The lines are put back into the cart, and a compensation is closed only *)
(* after that.                                                             *)
LEMMA RestoreCartItemsKeeps ==
    ASSUME SagaInv, NEW p \in Procs, RestoreCartItems(p)
    PROVE  SagaInv' /\ LifeStep
<1>1. PICK r \in HandlerRecord : r = proc[p] /\ HandlerOK(r)
    BY Working
<1>2. /\ CoreInv /\ r.pc = "restore" /\ r.o \in Orders /\ r.todo = {}
      /\ cart \in [Orders -> {"ordered", "restored", "absent"}]
    BY <1>1, FieldTypes, Working DEF RestoreCartItems, At, HandlerOK, CoreInv, SagaTypes
<1> DEFINE x == [r EXCEPT !.pc = "close"]
           z == [x EXCEPT !.errs = x.errs \cup {"restore"}]
<1>3. x \in HandlerRecord /\ x.pc = "close" /\ x.o = r.o /\ x.mode = r.mode /\ x.todo = {} /\ x.errs = r.errs
    BY <1>2, ToFields DEF Pcs
<1>4. /\ \/ cart' = [cart EXCEPT ![r.o] = "restored"] /\ (Step(p, Idle) \/ Step(p, x))
         \/ /\ cart' \in {cart, [cart EXCEPT ![r.o] = "restored"]}
            /\ Step(p, Idle) \/ (Step(p, z) /\ r.mode = "paid")
      /\ UNCHANGED faults \/ Fault
      /\ UNCHANGED <<stockVars, payVars, orderVars, inflight>>
    BY <1>1 DEF RestoreCartItems, To
<1> HIDE DEF x
<1>5. /\ z \in HandlerRecord /\ z.pc = "close" /\ z.o = r.o /\ z.mode = r.mode /\ z.todo = {}
      /\ z.errs = r.errs \cup {"restore"}
    BY <1>3 DEF HandlerRecord
<1> HIDE DEF z
<1>6. /\ cart' \in [Orders -> {"ordered", "restored", "absent"}]
      /\ \A o \in Orders : cart[o] = "restored" => cart'[o] = "restored"
    BY <1>2, <1>4
<1>7. faults' \in 0..MaxFaults /\ CallsOK'
    BY <1>2, <1>4, FaultMoves DEF CoreInv, SagaTypes, CallsOK
<1>8. CoreStep
    BY <1>2, <1>4, <1>6, <1>7, QuietMoves DEF orderVars, CoreInv, SagaTypes
<1>9. HandlerOK(r)'
    BY <1>1, <1>2, <1>8, AchievedStays DEF CoreStep
<1>10. CASE Step(p, x) /\ cart' = [cart EXCEPT ![r.o] = "restored"]
    <2>1. cart'[r.o] = "restored"
        BY <1>2, <1>10
    <2>2. HandlerOK(x)'
        BY <1>2, <1>3, <1>9, <2>1 DEF HandlerOK, LatePcs, GivingBack
    <2> QED
        BY <1>3, <1>8, <1>10, <2>2, HandlerMoves DEF CoreStep
<1>11. CASE Step(p, z) /\ r.mode = "paid"
    <2>1. HandlerOK(z)'
        BY <1>2, <1>5, <1>9, <1>11 DEF HandlerOK, LatePcs, GivingBack
    <2> QED
        BY <1>5, <1>8, <1>11, <2>1, HandlerMoves DEF CoreStep
<1> QED
    BY <1>4, <1>8, <1>10, <1>11, GivesUp

(* The order is cancelled, or left to be compensated when something of a   *)
(* paid order could not be undone.                                         *)
LEMMA CloseKeeps ==
    ASSUME SagaInv, NEW p \in Procs, Close(p)
    PROVE  SagaInv' /\ LifeStep
<1>1. PICK r \in HandlerRecord : r = proc[p] /\ HandlerOK(r)
    BY Working
<1>2. CoreInv /\ r.pc = "close" /\ r.o \in Orders /\ r.todo = {}
    BY <1>1, FieldTypes, Working DEF Close, At, HandlerOK
<1> DEFINE x == [r EXCEPT !.pc = "restore"]
           target == IF r.mode = "paid" /\ r.errs # {} THEN "compensation_pending" ELSE "cancelled"
           allowed == IF r.mode = "comp" THEN {"compensation_pending"} ELSE {"payment_pending"}
           paid == r.mode \in {"failed", "paid"}
           next == IF r.mode = "decline" THEN x ELSE Idle
<1>3. UpdateOrderState(p, allowed, target, paid, next, next)
    BY <1>1 DEF Close, To
<1>4. /\ x \in HandlerRecord /\ x.pc = "restore" /\ x.o = r.o /\ x.mode = r.mode
      /\ x.todo = r.todo /\ x.errs = r.errs
    BY ToFields DEF Pcs
<1> HIDE DEF x
<1>5. Items(r.o) \ r.todo = Items(r.o)
    BY <1>2
<1>6. status[r.o] \in allowed /\ status[r.o] # target => MayBecome(r.o, target, paid)
    <2>1. /\ "release" \notin r.errs => Freed(r.o, Items(r.o))
          /\ r.mode # "paid" => "release" \notin r.errs
          /\ r.mode \in {"comp", "expire", "failed", "decline", "paid"}
        BY <1>1, <1>2, <1>5 DEF HandlerOK, GivingBack
    <2>2. CASE r.mode = "comp"
        BY <1>1, <1>2, <2>1, <2>2 DEF HandlerOK, GivingBack, MayBecome
    <2>3. CASE r.mode = "paid"
        BY <1>1, <1>2, <2>1, <2>3 DEF HandlerOK, GivingBack, MayBecome
    <2>4. CASE r.mode \notin {"comp", "paid"}
        BY <1>1, <1>2, <2>1, <2>4 DEF HandlerOK, GivingBack, MayBecome
    <2> QED
        BY <2>2, <2>3, <2>4
<1>7. allowed \in SUBSET Statuses /\ target \in Statuses \ {"none"} /\ paid \in BOOLEAN
    BY DEF Statuses
<1> HIDE DEF allowed, target, paid
<1>8. CoreStep /\ Step(p, next)
    BY <1>1, <1>2, <1>3, <1>6, <1>7, UpdateMoves
<1>9. HandlerOK(r)'
    BY <1>1, <1>2, <1>8, AchievedStays DEF CoreStep
<1>10. CASE r.mode = "decline"
    <2>1. HandlerOK(x)'
        BY <1>2, <1>4, <1>9, <1>10 DEF HandlerOK, LatePcs, GivingBack
    <2> QED
        BY <1>4, <1>8, <1>10, <2>1, HandlerMoves DEF CoreStep
<1> QED
    BY <1>8, <1>10, GivesUp

(* The process dies: what its handler knew is gone.                        *)
LEMMA CrashKeeps ==
    ASSUME SagaInv, NEW p \in Procs, Crash(p)
    PROVE  SagaInv' /\ LifeStep
<1>1. CoreStep
    BY Working, StillMoves DEF Crash
<1> QED
    BY <1>1, GivesUp DEF Crash

-----------------------------------------------------------------------------
(* The steps that start work on an order, and those of the world.          *)

(* A request takes up a new order, or its own again.                       *)
LEMMA CreateOrderKeeps ==
    ASSUME SagaInv, NEW c \in Clients, NEW o \in Orders, CreateOrder(c, o)
    PROVE  SagaInv' /\ LifeStep
<1>1. c \in Procs /\ CoreInv
    BY Working DEF Procs, SagaInv
<1> DEFINE h == Handler(o, "reserve")
           x == [h EXCEPT !.todo = Items(o)]
<1>2. h \in HandlerRecord /\ h.pc = "reserve" /\ h.o = o
    BY HandlerFields DEF Pcs
<1>3. Items(o) \in SUBSET Books
    BY DEF Items
<1> HIDE DEF h
<1>4. x \in HandlerRecord /\ x.pc = "reserve" /\ x.o = o /\ x.todo = Items(o)
    BY <1>2, <1>3, TodoFields
<1>5. Step(c, x)
    BY DEF CreateOrder, Reserving, h
<1> HIDE DEF x
<1>6. HandlerOK(x)
    BY <1>4 DEF HandlerOK, LatePcs, GivingBack
<1>7. CASE status[o] = "none" /\ SetStatus(o, "pending", FALSE)
    <2>1. MayBecome(o, "pending", FALSE) /\ "pending" \in Statuses \ {"none"} /\ faults' \in 0..MaxFaults
        BY <1>1, <1>7 DEF MayBecome, Statuses, CoreInv, SagaTypes, CreateOrder
    <2>2. CoreStep
        BY <1>1, <1>7, <2>1, StatusMoves DEF CreateOrder
    <2> QED
        BY <1>1, <1>4, <1>5, <1>6, <2>2, HandlerMoves DEF CoreStep
<1>8. CASE UNCHANGED orderVars
    <2>1. CoreStep
        BY <1>1, <1>8, StillMoves DEF CreateOrder
    <2> QED
        BY <1>1, <1>4, <1>5, <1>6, <2>1, HandlerMoves DEF CoreStep
<1> QED
    BY <1>7, <1>8 DEF CreateOrder

(* A handler that is given an order and changes nothing yet.               *)
LEMMA Starts ==
    ASSUME SagaInv, NEW p \in Procs, NEW x \in HandlerRecord, HandlerOK(x), Step(p, x),
           UNCHANGED <<stockVars, payVars, orderVars, cart, inflight, faults>>
    PROVE  SagaInv' /\ LifeStep
<1>1. CoreStep
    BY Working, StillMoves
<1> QED
    BY <1>1, HandlerMoves DEF CoreStep

(* To claim an order is to have read that it is not paid.                  *)
LEMMA ClaimStarts ==
    ASSUME NEW o \in Orders, status[o] \in {"pending", "stock_reserved"},
           NEW x, x = [Handler(o, "claim") EXCEPT !.seen = status[o]]
    PROVE  x \in HandlerRecord /\ HandlerOK(x)
<1> DEFINE h == Handler(o, "claim")
<1>1. h \in HandlerRecord /\ h.pc = "claim" /\ h.o = o /\ h.todo = {}
    BY HandlerFields DEF Pcs
<1>2. status[o] \in Statuses
    BY DEF Statuses
<1>3. x = [h EXCEPT !.seen = status[o]]
    OBVIOUS
<1> HIDE DEF h
<1>4. x \in HandlerRecord /\ x.pc = "claim" /\ x.o = o /\ x.todo = {} /\ x.seen = status[o]
    BY <1>1, <1>2, <1>3 DEF HandlerRecord
<1> QED
    BY <1>4 DEF HandlerOK, LatePcs, GivingBack

(* To inspect an order is to have read that its payment was begun.         *)
LEMMA InspectStarts ==
    ASSUME NEW o \in Orders, status[o] = "payment_pending", NEW x, x = Handler(o, "inspect")
    PROVE  x \in HandlerRecord /\ HandlerOK(x)
<1>1. x \in HandlerRecord /\ x.pc = "inspect" /\ x.o = o /\ x.todo = {}
    BY HandlerFields DEF Pcs
<1> QED
    BY <1>1 DEF HandlerOK, LatePcs, GivingBack, Late

(* To compensate an order is to have read that it was claimed.             *)
LEMMA CompensationStarts ==
    ASSUME NEW o \in Orders, status[o] = "compensation_pending", NEW x, x = Compensating(Handler(o, "idle"))
    PROVE  x \in HandlerRecord /\ HandlerOK(x)
<1> DEFINE h == Handler(o, "idle")
<1>1. h \in HandlerRecord /\ h.o = o /\ h.todo = {}
    BY HandlerFields DEF Pcs
<1>2. x = Compensating(h)
    OBVIOUS
<1> HIDE DEF h
<1>3. /\ x \in HandlerRecord /\ x.o = o /\ x.mode = "comp"
      /\ \/ x.pc = "refund" /\ x.todo = {}
         \/ ~paymentRef[o] /\ x.pc = "release" /\ x.todo = Items(o)
    BY <1>1, <1>2, CompensatingFields
<1>4. CASE x.pc = "refund" /\ x.todo = {}
    BY <1>3, <1>4 DEF HandlerOK, LatePcs, GivingBack, Late, GivenUp
<1>5. CASE ~paymentRef[o] /\ x.pc = "release" /\ x.todo = Items(o)
    BY <1>3, <1>5 DEF HandlerOK, LatePcs, GivingBack, Late, GivenUp, Freed
<1> QED
    BY <1>3, <1>4, <1>5

(* CancelOrder claims the order it has read.                               *)
LEMMA CancelOrderKeeps ==
    ASSUME SagaInv, NEW c \in Clients, NEW o \in Orders, CancelOrder(c, o)
    PROVE  SagaInv' /\ LifeStep
<1>1. PICK x : x = [Handler(o, "claim") EXCEPT !.seen = status[o]]
    OBVIOUS
<1>2. x \in HandlerRecord /\ HandlerOK(x)
    BY <1>1, ClaimStarts DEF CancelOrder
<1> QED
    BY <1>1, <1>2, Starts DEF CancelOrder, Procs

(* PayOrder starts with the order it has read, by a provider the customer  *)
(* chose.                                                                  *)
LEMMA PayOrderKeeps ==
    ASSUME SagaInv, NEW c \in Clients, NEW o \in Orders, NEW via \in Vias[o], PayOrder(c, o, via)
    PROVE  SagaInv' /\ LifeStep
<1>1. via \in Providers /\ via \in Providers \cup {"none"}
    BY SagaAssumption
<1>2. PICK pc \in {"begin", "charge"} :
        /\ pc = "charge" => status[o] = "payment_pending"
        /\ Step(c, [Handler(o, pc) EXCEPT !.via = via])
    BY DEF PayOrder
<1> DEFINE h == Handler(o, pc)
           x == [h EXCEPT !.via = via]
<1>3. h \in HandlerRecord /\ h.pc = pc /\ h.o = o /\ h.todo = {}
    BY HandlerFields DEF Pcs
<1>4. Step(c, x)
    BY <1>2
<1> HIDE DEF h
<1>5. x \in HandlerRecord /\ x.pc = pc /\ x.o = o /\ x.todo = {} /\ x.via = via
    BY <1>1, <1>3, ViaFields
<1> HIDE DEF x
<1>6. HandlerOK(x)
    BY <1>1, <1>2, <1>5 DEF HandlerOK, LatePcs, GivingBack, Late
<1> QED
    BY <1>4, <1>5, <1>6, Starts DEF PayOrder, Procs

(* The reconciler and the payment consumer start from the status they have *)
(* read.                                                                   *)
LEMMA ReconcileKeeps ==
    ASSUME SagaInv, NEW w \in Workers, NEW o \in Orders, Reconcile(w, o) \/ HandlePaymentEvent(w, o)
    PROVE  SagaInv' /\ LifeStep
<1>1. /\ \/ status[o] = "compensation_pending" /\ Step(w, Compensating(Handler(o, "idle")))
         \/ /\ status[o] \in {"pending", "stock_reserved"}
            /\ Step(w, [Handler(o, "claim") EXCEPT !.seen = status[o]])
         \/ status[o] = "payment_pending" /\ Step(w, Handler(o, "inspect"))
      /\ UNCHANGED <<stockVars, payVars, orderVars, cart, inflight, faults>>
    BY DEF Reconcile, HandlePaymentEvent
<1>2. \E x \in HandlerRecord : HandlerOK(x) /\ Step(w, x)
    <2>1. CASE status[o] = "compensation_pending" /\ Step(w, Compensating(Handler(o, "idle")))
        BY <2>1, CompensationStarts
    <2>2. CASE /\ status[o] \in {"pending", "stock_reserved"}
               /\ Step(w, [Handler(o, "claim") EXCEPT !.seen = status[o]])
        BY <2>2, ClaimStarts
    <2>3. CASE status[o] = "payment_pending" /\ Step(w, Handler(o, "inspect"))
        BY <2>3, InspectStarts
    <2> QED
        BY <1>1, <2>1, <2>2, <2>3
<1>3. PICK x \in HandlerRecord : HandlerOK(x) /\ Step(w, x)
    BY <1>2
<1> QED
    BY <1>1, <1>3, Starts DEF Procs

(* A call takes effect after its caller gave up.                           *)
LEMMA DeliverKeeps ==
    ASSUME SagaInv, NEW m \in inflight, Deliver(m)
    PROVE  SagaInv' /\ LifeStep
<1>1. CoreInv /\ m \in Requests /\ (m[1] = "reserve" => m[3] \in Items(m[2]))
    BY DEF SagaInv, CoreInv, CallsOK
<1>2. CallsOK' /\ UNCHANGED <<orderVars, cart, proc, faults>>
    BY DEF Deliver, SagaInv, CoreInv, CallsOK
<1>3. [StockNext]_stockVars /\ [PaymentNext]_payVars
    <2>1. CASE Perform(m) /\ UNCHANGED payVars
        BY <1>1, <2>1, PerformMoves
    <2>2. CASE /\ \/ m[1] = "charge" /\ m[3] = "wallet" /\ WalletCharge(m[2])
                  \/ m[1] = "charge" /\ m[3] = "gateway" /\ GatewayCheckout(m[2])
                  \/ m[1] = "refund" /\ RefundPayment(m[2])
               /\ UNCHANGED stockVars
        <3>1. m[2] \in Orders
            BY <1>1 DEF Requests
        <3> QED
            BY <2>2, <3>1 DEF PaymentNext
    <2>3. CASE UNCHANGED <<stockVars, payVars>>
        BY <2>3
    <2> QED
        BY <2>1, <2>2, <2>3 DEF Deliver
<1>4. CoreStep
    BY <1>1, <1>2, <1>3, QuietMoves DEF orderVars, CoreInv, SagaTypes
<1> QED
    BY <1>2, <1>4, NobodyMoves DEF CoreStep

(* The timers run out, and a gateway or a buyer changes a payment.         *)
LEMMA WorldKeeps ==
    ASSUME SagaInv, NEW o \in Orders, Expire(o) \/ GraceEnds(o) \/ Payments(o)
    PROVE  SagaInv' /\ LifeStep
<1>1. CoreInv /\ SagaTypes /\ CallsOK
    BY DEF SagaInv, CoreInv
<1>2. CASE Expire(o)
    <2>1. expired' \in [Orders -> BOOLEAN]
        BY <1>1, <1>2 DEF Expire, SagaTypes
    <2>2. CoreStep
        BY <1>1, <1>2, <2>1, QuietMoves DEF Expire, SagaTypes, CallsOK
    <2> QED
        BY <1>2, <2>2, NobodyMoves DEF Expire, CoreStep
<1>3. CASE GraceEnds(o)
    <2>1. grace' \in [Orders -> BOOLEAN]
        BY <1>1, <1>3 DEF GraceEnds, SagaTypes
    <2>2. CoreStep
        BY <1>1, <1>3, <2>1, QuietMoves DEF GraceEnds, SagaTypes, CallsOK
    <2> QED
        BY <1>3, <2>2, NobodyMoves DEF GraceEnds, CoreStep
<1>4. CASE Payments(o)
    <2>1. [PaymentNext]_payVars
        BY <1>4 DEF Payments, PaymentNext, RefundSettles, RefundPayment
    <2>2. CoreStep
        BY <1>1, <1>4, <2>1, PaymentMoves DEF Payments
    <2> QED
        BY <1>4, <2>2, NobodyMoves DEF Payments, CoreStep
<1> QED
    BY <1>2, <1>3, <1>4

-----------------------------------------------------------------------------
(* At first nothing is held, paid or announced, and nobody works.          *)
LEMMA SagaInvInit == Init => SagaInv
<1> SUFFICES ASSUME Init PROVE SagaInv
    OBVIOUS
<1>1. /\ resState \in [Orders -> [Books -> ReservationStates]]
      /\ \A o \in Orders, b \in Books : resState[o][b] = "none"
    BY DEF Init, ReservationStates
<1>2. StockInv
    <2>1. StockTypeOK
        BY <1>1, StockAssumption DEF Init, StockTypeOK
    <2>2. ASSUME NEW b \in Books
          PROVE  HeldCopies(b) = {}
        BY <1>1 DEF HeldCopies, Holding
    <2>3. Cardinality({}) = 0
        BY FS_EmptySet
    <2>4. StockConserved
        <3>1. \A b \in listed : b \in Books /\ supply[b] = stock[b] /\ stock[b] \in Nat
            BY <2>1 DEF Init, StockTypeOK
        <3> QED
            BY <2>2, <2>3, <3>1 DEF StockConserved
    <2> QED
        BY <1>1, <2>1, <2>4 DEF StockInv, ReservedBooksListed
<1>3. SagaTypes
    <2>1. PaymentTypeOK
        BY BalanceAssumption DEF Init, PaymentInit, PaymentTypeOK, PaymentStates
    <2> QED
        BY <2>1, SagaAssumption DEF Init, SagaTypes, Statuses
<1>4. CallsOK
    BY DEF Init, CallsOK
<1>5. ASSUME NEW o \in Orders
      PROVE  OrderOK(o)
    <2>1. /\ status[o] = "none" /\ ~paymentRef[o] /\ events[o] = << >>
        BY DEF Init
    <2>2. \A s : ~Announced(o, s)
        BY <2>1 DEF Announced
    <2> QED
        BY <2>1, <2>2 DEF OrderOK
<1>6. HandlersOK
    BY IdleFields, NothingClaimed DEF Init, HandlersOK
<1> QED
    BY <1>2, <1>3, <1>4, <1>5, <1>6 DEF SagaInv, CoreInv

(* Every step of the saga keeps the invariant and moves its orders along   *)
(* the life their readers expect.                                          *)
LEMMA SagaStep ==
    ASSUME SagaInv, [Next]_vars
    PROVE  SagaInv' /\ LifeStep
<1>1. ASSUME NEW p \in Procs, Work(p)
      PROVE  SagaInv' /\ LifeStep
    BY <1>1, ReserveKeeps, UndoKeeps, RejectKeeps, ReservedKeeps, ClearOrderedCartItemsKeeps,
       BeginPaymentKeeps, ChargeKeeps, DebitKeeps, LookupKeeps, CommitKeeps, ConfirmKeeps,
       ClaimKeeps, InspectKeeps, RefundKeeps, ReleaseKeeps, RestoreCartItemsKeeps, CloseKeeps DEF Work
<1>2. ASSUME UNCHANGED vars
      PROVE  SagaInv' /\ LifeStep
    <2>1. CoreStep
        BY <1>2, StillMoves DEF vars, SagaInv
    <2> QED
        BY <1>2, <2>1, NobodyMoves DEF vars, CoreStep
<1> QED
    BY <1>1, <1>2, CrashKeeps, CreateOrderKeeps, CancelOrderKeeps, PayOrderKeeps, ReconcileKeeps,
       DeliverKeeps, WorldKeeps DEF Next

(* Whatever fails and however the handlers interleave, the invariant of    *)
(* the saga holds: what an order's status says is true, and every handler  *)
(* knows what it needs to know for its next step.                          *)
THEOREM SagaSafety == Spec => []SagaInv
BY SagaInvInit, SagaStep, PTL DEF Spec

(* The variables of the saga keep their types: a status is one of the      *)
(* enumeration, a handler is at one of its steps, a stock is never         *)
(* negative.                                                               *)
THEOREM SagaTyped == Spec => []SagaTypeOK
<1>1. SagaInv => SagaTypeOK
    BY DEF SagaInv, CoreInv, HandlersOK, SagaTypes, CallsOK, StockInv, HandlerRecord, SagaTypeOK
<1> QED
    BY <1>1, SagaSafety, PTL

(* A confirmed order has been paid and every line of it was committed.     *)
THEOREM OnlyPaidOrdersConfirmed == Spec => []PaidBeforeConfirmed
<1>1. SagaInv => PaidBeforeConfirmed
    BY DEF SagaInv, CoreInv, OrderOK, PaidBeforeConfirmed, Paid, Settled
<1> QED
    BY <1>1, SagaSafety, PTL

(* An order that reached stock_reserved is cancelled with every line given *)
(* back, and no late call takes stock for it again.                        *)
THEOREM CancelledOrdersHoldNothing == Spec => []CancelledHoldsNothing
<1>1. SagaInv => CancelledHoldsNothing
    BY DEF SagaInv, CoreInv, OrderOK, CancelledHoldsNothing, Freed, Announced
<1> QED
    BY <1>1, SagaSafety, PTL

(* A cancelled order that names its payment had it refunded, or it failed. *)
THEOREM RefundComesFirst == Spec => []RefundedBeforeClosed
<1>1. SagaInv => RefundedBeforeClosed
    BY DEF SagaInv, CoreInv, OrderOK, RefundedBeforeClosed
<1> QED
    BY <1>1, SagaSafety, PTL

(* A compensated order is back in the cart and stays there.                *)
THEOREM CompensationRestoresCart == Spec => []CompensatedInCart
<1>1. SagaInv => CompensatedInCart
    BY DEF SagaInv, CoreInv, OrderOK, CompensatedInCart, Announced
<1> QED
    BY <1>1, SagaSafety, PTL

(* The copies of each book add up whatever the saga does: lost answers,    *)
(* late calls and crashes neither lose a copy nor give one back twice.     *)
THEOREM SagaConservesStock == Spec => [](StockConserved /\ ReservedBooksListed)
<1>1. SagaInv => StockConserved /\ ReservedBooksListed
    BY DEF SagaInv, CoreInv, StockInv
<1> QED
    BY <1>1, SagaSafety, PTL

(* The saga implements the life of an order: its status moves along the    *)
(* edges its readers know, never back, and each status it takes is         *)
(* announced exactly once.                                                 *)
THEOREM SagaImplementsLifecycle == Spec => LifecycleSpec
<1>1. Init => Lifecycle!Init
    BY DEF Init, Lifecycle!Init
<1>2. SagaInv /\ [Next]_vars => [Lifecycle!Next]_(Lifecycle!lifecycleVars)
    BY SagaStep DEF LifeStep
<1> QED
    BY <1>1, <1>2, SagaSafety, PTL DEF Spec, LifecycleSpec, Lifecycle!Spec
-----------------------------------------------------------------------------
(* Orders where no call fails.                                             *)

\* No failure, no timer that runs out during a request, no second attempt at
\* checkout while the first is in progress, one provider per order, and a wallet
\* that does not hold the price of the order exactly or change for other reasons.
Calm ==
    /\ MaxFaults = 0 /\ PromptCalls /\ "create" \notin Overlapping
    /\ ~BalanceChanges /\ 1 \notin OpeningBalances
    /\ \A o \in Orders : Vias[o] # Providers

CreatePcs == {"reserve", "reserved", "undo", "reject"}
PayPcs == {"charge", "debit", "lookup", "inspect", "commit", "confirm"}
Open == {"pending"} \cup GivenUp
Billed == {"payment_pending", "confirmed", "cancelled"}

\* An empty wallet and no other provider; an order that will not be paid.
CannotPay(o) == balance[o] = 0 /\ "gateway" \notin Vias[o]
NeverPaid(o) == payment[o] = "failed" \/ CannotPay(o)
Holds(o, b) == resState[o][b] \in Holding

\* What is true of an order in the absence of failures.
CalmOrder(o) ==
    /\ payment[o] \in {"none", "pending", "succeeded", "failed"}
    /\ status[o] \in {"none", "pending", "stock_reserved", "compensation_pending"} => payment[o] = "none"
    /\ status[o] = "confirmed" => payment[o] = "succeeded" /\ \A b \in Items(o) : resState[o][b] = "committed"
    /\ status[o] = "cancelled" => payment[o] \in {"none", "failed"}
    /\ status[o] = "none" => \A b \in Items(o) : resState[o][b] = "none"
    /\ status[o] = "stock_reserved" => \A b \in Items(o) : Holds(o, b)
    /\ status[o] = "payment_pending" => NeverPaid(o) \/ \A b \in Items(o) : Holds(o, b)
    /\ status[o] = "payment_pending" /\ grace[o] => payment[o] # "none"
    /\ status[o] \in {"none", "pending"} => ~expired[o]
    /\ status[o] = "compensation_pending" => ~paymentRef[o]
    /\ payEvent[o] => payment[o] # "none"
    /\ CannotPay(o) => payment[o] = "none"
    /\ payment[o] = "none" => balance[o] # 1
    /\ \A b \in Books : resState[o][b] # "none" => resQuantity[o][b] = Quantity[o][b]

\* What a handler knows of its order in the absence of failures.
CalmHandler(r) ==
    /\ r.errs = {} /\ r.pc # "refund"
    /\ r.pc \in CreatePcs => status[r.o] \in Open
    /\ r.pc = "reserve" => \A b \in r.todo : resState[r.o][b] = "none"
    /\ r.pc \in {"reserve", "reserved"} /\ status[r.o] = "pending" =>
           \A b \in Items(r.o) \ r.todo : Holds(r.o, b)
    /\ r.pc \in {"undo", "reject"} => \A b \in Items(r.o) \ r.todo : ~Holds(r.o, b)
    /\ r.pc = "reject" => r.todo = {}
    /\ r.pc = "undo" => r.mode = "reject" \/ status[r.o] \in GivenUp
    /\ r.pc \in PayPcs => status[r.o] \in Billed /\ (status[r.o] = "cancelled" => NeverPaid(r.o))
    /\ r.pc \in {"begin", "charge", "debit"} => r.via \in Vias[r.o]
    /\ r.pc = "debit" => r.via = "wallet"
    /\ r.pc = "inspect" => payment[r.o] # "none"
    /\ r.pc \in {"commit", "confirm"} =>
           payment[r.o] = "succeeded" /\ \A b \in Items(r.o) \ r.todo : resState[r.o][b] = "committed"
    /\ r.pc \in GivingBack => r.mode \in {"comp", "failed", "decline"}
    /\ r.pc \in GivingBack /\ r.mode = "decline" => CannotPay(r.o) /\ status[r.o] \in Billed

\* The handlers that place an order, and those that pay for it.
Creates(r, o) == r.pc \in CreatePcs /\ r.o = o
Pays(r, o) == (r.pc \in {"charge", "debit"} \/ (r.pc \in {"release", "close"} /\ r.mode = "decline")) /\ r.o = o
\* A line of an order that was given up is held only by the handler that still
\* places the order, which will find out and give it back.
WillUndo(r, o, b) == r.o = o /\ (r.pc \in {"reserve", "reserved"} \/ (r.pc = "undo" /\ b \in r.todo))
Gone(o, b) == Holds(o, b) => \E p \in Procs : WillUndo(proc[p], o, b)

\* One request places an order, and while it is pending that request goes on;
\* as long as an order waits for a payment somebody is paying.
CalmHandlers ==
    /\ \A p \in Procs : CalmHandler(proc[p])
    /\ \A p \in Procs : proc[p].pc \in CreatePcs \cup {"begin", "charge", "debit"} => p \in Clients
    /\ \A p \in Procs : proc[p].pc \in GivingBack /\ proc[p].mode = "decline" => p \in Clients
    /\ \A p, q \in Procs, o \in Orders : Creates(proc[p], o) /\ Creates(proc[q], o) => p = q
    /\ \A o \in Orders : status[o] = "pending" => \E c \in Clients : Creates(proc[c], o)
    /\ \A o \in Orders : status[o] = "payment_pending" /\ payment[o] = "none" =>
           \E c \in Clients : Pays(proc[c], o)
    /\ \A p \in Procs : proc[p].pc \in GivingBack =>
           \A b \in Items(proc[p].o) \ proc[p].todo : Gone(proc[p].o, b)
    /\ \A o \in Orders : status[o] = "cancelled" => \A b \in Items(o) : Gone(o, b)

CalmInv == SagaInv /\ inflight = {} /\ (\A o \in Orders : CalmOrder(o)) /\ CalmHandlers

\* What the handlers that take the money of an order rely on, and those that
\* place it, while another handler goes on.
BilledOnward(o) ==
    /\ status[o] \in GivenUp => status'[o] \in GivenUp
    /\ status[o] \in Billed => status'[o] \in Billed
    /\ status[o] \in Billed \ {"cancelled"} /\ status'[o] = "cancelled" => NeverPaid(o)'
    /\ NeverPaid(o) => NeverPaid(o)'
    /\ CannotPay(o) => CannotPay(o)'
    /\ payment[o] # "none" => payment'[o] # "none"
    /\ payment[o] = "succeeded" =>
           /\ payment'[o] = "succeeded"
           /\ \A b \in Items(o) : resState[o][b] = "committed" => resState'[o][b] = "committed"

PlacedOnward(o) ==
    /\ status[o] \in Open => status'[o] \in Open
    /\ \A b \in Items(o) : resState[o][b] = "none" => resState'[o][b] = "none"
    /\ \A b \in Items(o) : ~Holds(o, b) => ~Holds(o, b)'
    /\ status[o] \in Open /\ status'[o] = "pending" => \A b \in Items(o) : Holds(o, b) => Holds(o, b)'

\* What a step of p to x owes the others.
Owes(p, x) ==
    LET r == proc[p] IN
    /\ x.pc \in CreatePcs \cup {"begin", "charge", "debit"} => p \in Clients
    /\ x.pc \in GivingBack /\ x.mode = "decline" => p \in Clients
    /\ x.pc \in CreatePcs => Creates(r, x.o) \/ status[x.o] = "none"
    /\ r.pc \in CreatePcs /\ status'[r.o] = "pending" => Creates(x, r.o)
    /\ Pays(r, r.o) /\ status'[r.o] = "payment_pending" /\ payment'[r.o] = "none" => Pays(x, r.o)
    /\ \A o \in Orders : status[o] # status'[o] =>
           /\ status'[o] = "pending" => Creates(x, o) /\ p \in Clients
           /\ status'[o] = "payment_pending" => Pays(x, o) /\ p \in Clients
           /\ status'[o] = "cancelled" => \A b \in Items(o) : Gone(o, b)
    /\ x.pc \in GivingBack => \A b \in Items(x.o) \ x.todo : Gone(x.o, b) \/ ~Holds(x.o, b)'
    /\ \A o \in Orders : \A b \in Items(o) : status'[o] \in Late =>
           /\ Holds(o, b)' => Holds(o, b) \/ WillUndo(x, o, b)
           /\ WillUndo(r, o, b) => WillUndo(x, o, b) \/ ~Holds(o, b)'

(* What a handler knows where nothing fails stays true while others go on. *)
LEMMA CalmStays ==
    ASSUME NEW r \in HandlerRecord, r.todo \subseteq Items(r.o), CalmHandler(r), BilledOnward(r.o),
           r.pc \in CreatePcs => PlacedOnward(r.o)
    PROVE  CalmHandler(r)'
<1>2. CASE r.pc \in CreatePcs
    <2>1. PlacedOnward(r.o) /\ r.pc \notin PayPcs \cup GivingBack \cup {"begin"}
        BY <1>2 DEF CreatePcs, PayPcs, GivingBack
    <2>2. /\ status'[r.o] \in Open
          /\ \A b \in Items(r.o) : resState[r.o][b] = "none" => resState'[r.o][b] = "none"
          /\ \A b \in Items(r.o) : ~Holds(r.o, b) => ~Holds(r.o, b)'
          /\ status'[r.o] = "pending" => \A b \in Items(r.o) : Holds(r.o, b) => Holds(r.o, b)'
        BY <1>2, <2>1 DEF CalmHandler, PlacedOnward
    <2>3. status'[r.o] = "pending" => status[r.o] = "pending"
        BY <1>2 DEF CalmHandler, BilledOnward, Open, GivenUp
    <2>4. status[r.o] \in GivenUp => status'[r.o] \in GivenUp
        BY DEF BilledOnward
    <2> QED
        <3>1. r.errs = {} /\ r.pc # "refund" /\ (r.pc = "reject" => r.todo = {})
              /\ (r.pc = "undo" => r.mode = "reject" \/ status[r.o] \in GivenUp)
            BY DEF CalmHandler
        <3>2. r.pc = "reserve" => \A b \in r.todo : resState'[r.o][b] = "none"
            BY <2>2 DEF CalmHandler
        <3>3. r.pc \in {"reserve", "reserved"} /\ status'[r.o] = "pending" =>
                  \A b \in Items(r.o) \ r.todo : Holds(r.o, b)'
            BY <2>2, <2>3 DEF CalmHandler
        <3>4. r.pc \in {"undo", "reject"} => \A b \in Items(r.o) \ r.todo : ~Holds(r.o, b)'
            BY <2>2 DEF CalmHandler
        <3>5. r.pc \notin {"begin", "charge", "debit", "inspect", "commit", "confirm"}
            BY <1>2 DEF CreatePcs
        <3> QED
            BY <2>1, <2>2, <2>4, <3>1, <3>2, <3>3, <3>4, <3>5 DEF CalmHandler
<1>3. CASE r.pc \notin CreatePcs
    BY <1>3 DEF CalmHandler, BilledOnward, CreatePcs
<1> QED
    BY <1>2, <1>3

(* One handler goes on as it should; the others keep what they have.       *)
LEMMA CalmMoves ==
    ASSUME CalmInv, SagaInv', inflight' = {}, NEW p \in Procs, NEW x \in HandlerRecord, Step(p, x),
           \A o \in Orders : CalmOrder(o)' /\ BilledOnward(o),
           \A o \in Orders : ~Creates(proc[p], o) => PlacedOnward(o),
           CalmHandler(x)' \/ (CalmHandler(x) /\ PlacedOnward(x.o)), Owes(p, x)
    PROVE  CalmInv'
<1>1. /\ proc \in [Procs -> HandlerRecord] /\ proc' = [proc EXCEPT ![p] = x]
      /\ \A q \in Procs : HandlerOK(proc[q]) /\ CalmHandler(proc[q])
      /\ CalmHandlers
    BY DEF CalmInv, CalmHandlers, SagaInv, HandlersOK, Step
<1>2. proc'[p] = x /\ \A q \in Procs : q # p => proc'[q] = proc[q]
    BY <1>1
<1>3. Clients \subseteq Procs /\ \A h \in HandlerRecord : h.o \in Orders
    BY DEF Procs, HandlerRecord
<1>4. \A q \in Procs : CalmHandler(proc[q])'
    <2>1. CalmHandler(x)'
        <3>1. HandlerOK(x)'
            BY <1>2 DEF SagaInv, HandlersOK
        <3>2. x.todo \subseteq Items(x.o)
            BY <3>1 DEF HandlerOK
        <3> QED
            BY <1>3, <3>2, CalmStays
    <2>2. CalmHandler(proc[p])'
        BY <1>2, <2>1, SMTT(30) DEF CalmHandler
    <2> SUFFICES ASSUME NEW q \in Procs, q # p
                 PROVE  CalmHandler(proc[q])'
        BY <2>2
    <2>3. PICK r \in HandlerRecord : r = proc[q]
        BY <1>1
    <2>4. r.pc \in CreatePcs => ~Creates(proc[p], r.o)
        BY <1>1, <1>3, <2>3 DEF CalmHandlers, Creates
    <2>5. r.todo \subseteq Items(r.o)
        BY <1>1, <2>3 DEF HandlerOK
    <2>6. CalmHandler(r)'
        BY <1>1, <1>3, <2>3, <2>4, <2>5, CalmStays
    <2> QED
        BY <1>2, <2>3, <2>6
<1>5. \A o \in Orders : \A b \in Items(o) : Gone(o, b) /\ status'[o] \in Late => Gone(o, b)'
    <2> SUFFICES ASSUME NEW o \in Orders, NEW b \in Items(o), Gone(o, b), status'[o] \in Late, Holds(o, b)'
                 PROVE  \E q \in Procs : WillUndo(proc'[q], o, b)
        BY DEF Gone, WillUndo
    <2>1. CASE WillUndo(x, o, b)
        BY <1>2, <2>1
    <2>2. CASE ~WillUndo(x, o, b)
        <3>1. Holds(o, b)
            BY <2>2 DEF Owes
        <3>2. PICK q \in Procs : WillUndo(proc[q], o, b)
            BY <3>1 DEF Gone
        <3>3. q # p
            BY <2>2, <3>2 DEF Owes
        <3> QED
            BY <1>2, <3>2, <3>3
    <2> QED
        BY <2>1, <2>2
<1>6. CalmHandlers'
    <2>1. \A q \in Procs : proc'[q].pc \in CreatePcs \cup {"begin", "charge", "debit"} => q \in Clients
        BY <1>1, <1>2 DEF CalmHandlers, Owes
    <2>2. \A q \in Procs : proc'[q].pc \in GivingBack /\ proc'[q].mode = "decline" => q \in Clients
        BY <1>1, <1>2 DEF CalmHandlers, Owes
    <2>3. \A q1, q2 \in Procs, o \in Orders : Creates(proc'[q1], o) /\ Creates(proc'[q2], o) => q1 = q2
        <3>1. \A q \in Procs, o \in Orders : Creates(proc[q], o) => status[o] \in Open
            BY <1>1 DEF Creates, CalmHandler
        <3>2. "none" \notin Open
            BY DEF Open, GivenUp
        <3>3. \A q \in Procs, o \in Orders : q # p /\ Creates(proc[q], o) => ~Creates(x, o)
            BY <1>1, <3>1, <3>2 DEF Owes, Creates, CalmHandlers
        <3> QED
            BY <1>1, <1>2, <3>3 DEF CalmHandlers
    <2>4. \A o \in Orders : status'[o] = "pending" => \E c \in Clients : Creates(proc'[c], o)
        BY <1>1, <1>2, <1>3 DEF CalmHandlers, Owes, Creates
    <2>5. \A o \in Orders : status'[o] = "payment_pending" /\ payment'[o] = "none" =>
              \E c \in Clients : Pays(proc'[c], o)
        BY <1>1, <1>2, <1>3 DEF CalmHandlers, Owes, Pays, BilledOnward
    <2>6. \A q \in Procs : proc'[q].pc \in GivingBack =>
              \A b \in Items(proc'[q].o) \ proc'[q].todo : Gone(proc[q].o, b)'
        <3> SUFFICES ASSUME NEW q \in Procs, proc'[q].pc \in GivingBack,
                            NEW b \in Items(proc'[q].o) \ proc'[q].todo
                     PROVE  Gone(proc[q].o, b)'
            OBVIOUS
        <3>1. proc'[q] \in HandlerRecord /\ status'[proc'[q].o] \in Late
            BY DEF SagaInv, HandlersOK, HandlerOK, LatePcs, GivingBack
        <3>2. PICK o \in Orders : o = proc'[q].o
            BY <1>3, <3>1
        <3>3. Gone(o, b) \/ ~Holds(o, b)'
            BY <1>1, <1>2, <3>2 DEF CalmHandlers, Owes
        <3>4. Gone(o, b)'
            BY <1>5, <3>1, <3>2, <3>3 DEF Gone
        <3> QED
            BY <3>2, <3>4
    <2>7. \A o \in Orders : status'[o] = "cancelled" => \A b \in Items(o) : Gone(o, b)'
        <3>1. \A o \in Orders : status'[o] = "cancelled" => \A b \in Items(o) : Gone(o, b)
            BY <1>1 DEF CalmHandlers, Owes
        <3> QED
            BY <1>5, <3>1 DEF Late
    <2> QED
        BY <1>4, <2>1, <2>2, <2>3, <2>4, <2>5, <2>6, <2>7 DEF CalmHandlers, Creates, Pays
<1> QED
    BY <1>6 DEF CalmInv

-----------------------------------------------------------------------------
(* What the steps do to the orders where nothing fails.                    *)

\* The orders keep what is true of them, and their handlers what they rely on.
CalmCore == \A o \in Orders : CalmOrder(o)' /\ BilledOnward(o)

(* A step that leaves the rows alone; a timer may have run out.            *)
LEMMA CalmStill ==
    ASSUME CalmInv, UNCHANGED <<stockVars, payVars, status, paymentRef>>,
           NEW o \in Orders, UNCHANGED expired \/ status[o] \notin {"none", "pending"},
           UNCHANGED grace \/ (status[o] = "payment_pending" => payment[o] # "none"),
           \A q \in Orders : q # o => expired'[q] = expired[q] /\ grace'[q] = grace[q]
    PROVE  CalmCore /\ \A q \in Orders : PlacedOnward(q)
<1>1. UNCHANGED <<resState, resQuantity, payment, balance, payEvent, status, paymentRef>>
    BY DEF stockVars, payVars
<1>2. ASSUME NEW q \in Orders
      PROVE  CalmOrder(q)'
    <2>1. CalmOrder(q)
        BY DEF CalmInv
    <2>2. /\ status[q] \in {"none", "pending"} => expired'[q] = expired[q]
          /\ status[q] = "payment_pending" /\ payment[q] = "none" => grace'[q] = grace[q]
        OBVIOUS
    <2> QED
        BY <1>1, <2>1, <2>2 DEF CalmOrder, NeverPaid, CannotPay, Holds
<1> QED
    BY <1>1, <1>2 DEF CalmCore, BilledOnward, PlacedOnward, NeverPaid, CannotPay, Holds

\* The moves of an order where nothing fails, and what must hold for each.
CalmBecomes(o, target, paid) ==
    \/ status[o] = "none" /\ target = "pending"
    \/ status[o] = "pending" /\ target = "stock_reserved" /\ \A b \in Items(o) : Holds(o, b)
    \/ status[o] = "stock_reserved" /\ target = "payment_pending"
    \/ status[o] = "payment_pending" /\ target = "confirmed"
       /\ payment[o] = "succeeded" /\ \A b \in Items(o) : resState[o][b] = "committed"
    \/ status[o] = "pending" /\ target = "cancelled"
    \/ status[o] = "payment_pending" /\ target = "cancelled" /\ NeverPaid(o)
    \/ status[o] = "compensation_pending" /\ target = "cancelled"
    \/ status[o] \in {"pending", "stock_reserved"} /\ target = "compensation_pending" /\ ~paid

(* A status that is written.                                               *)
LEMMA CalmStatus ==
    ASSUME CalmInv, NEW o \in Orders, NEW target \in Statuses, NEW paid \in BOOLEAN,
           CalmBecomes(o, target, paid), SetStatus(o, target, paid), UNCHANGED <<stockVars, payVars>>
    PROVE  /\ CalmCore /\ status'[o] = target /\ \A q \in Orders : q # o => status'[q] = status[q]
           /\ \A q \in Orders : q # o \/ target # "stock_reserved" => PlacedOnward(q)
<1>1. UNCHANGED <<resState, resQuantity, payment, balance, payEvent, expired>>
    BY DEF stockVars, payVars, SetStatus
<1>2. /\ status' = [status EXCEPT ![o] = target] /\ status \in [Orders -> Statuses]
      /\ paymentRef' = [paymentRef EXCEPT ![o] = paymentRef[o] \/ paid] /\ paymentRef \in [Orders -> BOOLEAN]
      /\ grace' = [grace EXCEPT ![o] = FALSE] /\ grace \in [Orders -> BOOLEAN]
    BY DEF SetStatus, CalmInv, SagaInv, CoreInv, SagaTypes
<1>3. /\ status'[o] = target /\ ~grace'[o] /\ paymentRef'[o] = (paymentRef[o] \/ paid)
      /\ \A q \in Orders : q # o =>
             status'[q] = status[q] /\ paymentRef'[q] = paymentRef[q] /\ grace'[q] = grace[q]
    BY <1>2
<1>4. CalmOrder(o) /\ OrderOK(o)
    BY DEF CalmInv, SagaInv, CoreInv
<1>5. CalmOrder(o)'
    <2>1. /\ NeverPaid(o)' = NeverPaid(o) /\ CannotPay(o)' = CannotPay(o)
          /\ \A b : Holds(o, b)' = Holds(o, b)
        BY <1>1 DEF NeverPaid, CannotPay, Holds
    <2>2. status[o] \in {"pending", "stock_reserved"} => ~paymentRef[o]
        BY <1>4 DEF OrderOK
    <2>3. NeverPaid(o) => payment[o] \in {"none", "failed"}
        BY <1>4 DEF CalmOrder, NeverPaid
    <2> QED
        BY <1>1, <1>3, <1>4, <2>1, <2>2, <2>3 DEF CalmOrder, CalmBecomes
<1>6. \A q \in Orders : q # o => CalmOrder(q)'
    <2> SUFFICES ASSUME NEW q \in Orders, q # o
                 PROVE  CalmOrder(q)'
        OBVIOUS
    <2>1. CalmOrder(q)
        BY DEF CalmInv
    <2> QED
        BY <1>1, <1>3, <2>1 DEF CalmOrder, NeverPaid, CannotPay, Holds
<1>7. \A q \in Orders : BilledOnward(q)
    BY <1>1, <1>3 DEF BilledOnward, CalmBecomes, Billed, GivenUp, NeverPaid, CannotPay
<1>8. \A q \in Orders : q # o \/ target # "stock_reserved" => PlacedOnward(q)
    BY <1>1, <1>3 DEF PlacedOnward, CalmBecomes, Open, GivenUp, Holds
<1> QED
    BY <1>3, <1>5, <1>6, <1>7, <1>8 DEF CalmCore

(* The reservations of the other orders are left alone.                    *)
LEMMA CalmReservation ==
    ASSUME CalmInv, NEW o \in Orders, UNCHANGED <<payVars, status, paymentRef, expired, grace>>,
           \A q \in Orders : q # o => resState'[q] = resState[q] /\ resQuantity'[q] = resQuantity[q],
           \A b \in Items(o) : resState[o][b] = "committed" /\ payment[o] = "succeeded" => resState'[o][b] = "committed",
           CalmOrder(o)'
    PROVE  CalmCore /\ \A q \in Orders : q # o => PlacedOnward(q)
<1>1. UNCHANGED <<payment, balance, payEvent>>
    BY DEF payVars
<1>2. \A q \in Orders : q # o => CalmOrder(q)'
    <2> SUFFICES ASSUME NEW q \in Orders, q # o
                 PROVE  CalmOrder(q)'
        OBVIOUS
    <2>1. CalmOrder(q)
        BY DEF CalmInv
    <2> QED
        BY <1>1, <2>1 DEF CalmOrder, NeverPaid, CannotPay, Holds
<1> QED
    BY <1>1, <1>2 DEF CalmCore, BilledOnward, PlacedOnward, NeverPaid, CannotPay, Holds

(* A line that is reserved for an order still being placed.                *)
LEMMA CalmReserve ==
    ASSUME CalmInv, NEW o \in Orders, NEW b \in Items(o), ReserveStock(o, b, Quantity[o][b]),
           status[o] \in Open, UNCHANGED <<payVars, orderVars>>
    PROVE  /\ CalmCore /\ \A q \in Orders : q # o => PlacedOnward(q)
           /\ Holds(o, b)'
           /\ \A q \in Orders, c \in Books : q # o \/ c # b => resState'[q][c] = resState[q][c]
<1>1. b \in Books /\ UNCHANGED <<payment, balance, payEvent, status, paymentRef, expired, grace>>
    BY DEF Items, payVars, orderVars
<1>2. resState \in [Orders -> [Books -> ReservationStates]] /\ resQuantity \in [Orders -> [Books -> 0..MaxQuantity]]
    BY DEF CalmInv, SagaInv, CoreInv, StockInv, StockTypeOK
<1>3. /\ resState'[o][b] \in Holding /\ resQuantity'[o][b] = Quantity[o][b]
      /\ \A q \in Orders, c \in Books : q # o \/ c # b =>
             resState'[q][c] = resState[q][c] /\ resQuantity'[q][c] = resQuantity[q][c]
    BY <1>1, <1>2 DEF ReserveStock, ReserveAccepted, Holding, stockVars
<1>4. \A q \in Orders : q # o => resState'[q] = resState[q] /\ resQuantity'[q] = resQuantity[q]
    BY <1>1, <1>2 DEF ReserveStock, stockVars
<1>5. resState[o][b] = "committed" => resState'[o][b] = "committed"
    BY <1>2 DEF ReserveStock, stockVars
<1>6. CalmOrder(o)'
    <2>1. CalmOrder(o)
        BY DEF CalmInv
    <2>2. status[o] \in {"pending", "compensation_pending", "cancelled"}
        BY DEF Open, GivenUp
    <2>3. \A c \in Books : resState'[o][c] # "none" => resQuantity'[o][c] = Quantity[o][c]
        BY <1>3, <2>1 DEF CalmOrder
    <2> QED
        BY <1>1, <2>1, <2>2, <2>3 DEF CalmOrder, CannotPay
<1>7. Items(o) \subseteq Books
    BY DEF Items
<1>8. \A c \in Items(o) : resState[o][c] = "committed" /\ payment[o] = "succeeded" => resState'[o][c] = "committed"
    BY <1>3, <1>5, <1>7
<1> QED
    BY <1>1, <1>3, <1>4, <1>6, <1>8, CalmReservation DEF Holds

(* A line of a paid order that is committed.                               *)
LEMMA CalmCommit ==
    ASSUME CalmInv, NEW o \in Orders, NEW b \in Items(o), CommitStock(o, b), UNCHANGED <<payVars, orderVars>>
    PROVE  /\ CalmCore /\ (\A q \in Orders : PlacedOnward(q)) /\ resState'[o][b] = "committed"
           /\ \A q \in Orders : \A c \in Items(q) : Holds(q, c)' = Holds(q, c)
<1>1. b \in Books /\ UNCHANGED <<payment, balance, payEvent, status, paymentRef, expired, grace, resQuantity>>
    BY DEF Items, payVars, orderVars, CommitStock
<1>2. resState \in [Orders -> [Books -> ReservationStates]]
    BY DEF CalmInv, SagaInv, CoreInv, StockInv, StockTypeOK
<1>3. /\ resState[o][b] \in Holding /\ resState'[o][b] = "committed"
      /\ \A q \in Orders, c \in Books : q # o \/ c # b => resState'[q][c] = resState[q][c]
      /\ \A q \in Orders : q # o => resState'[q] = resState[q]
    BY <1>1, <1>2 DEF CommitStock, CommitAccepted
<1>4. Items(o) \subseteq Books
    BY DEF Items
<1>5. /\ \A c \in Items(o) : Holds(o, c)' = Holds(o, c)
      /\ \A c \in Items(o) : resState[o][c] = "committed" => resState'[o][c] = "committed"
      /\ \A c \in Books : resState[o][c] = "none" <=> resState'[o][c] = "none"
    BY <1>3, <1>4 DEF Holds, Holding
<1>6. CalmOrder(o)'
    <2>1. CalmOrder(o)
        BY DEF CalmInv
    <2> QED
        BY <1>1, <1>4, <1>5, <2>1 DEF CalmOrder, NeverPaid, CannotPay
<1>7. CalmCore /\ \A q \in Orders : q # o => PlacedOnward(q)
    BY <1>1, <1>3, <1>5, <1>6, CalmReservation
<1>8. PlacedOnward(o)
    BY <1>1, <1>4, <1>5 DEF PlacedOnward
<1> QED
    BY <1>3, <1>5, <1>7, <1>8 DEF Holds

(* A line of an order that is still placed, was given up or is not paid,   *)
(* given back.                                                             *)
LEMMA CalmRelease ==
    ASSUME CalmInv, NEW o \in Orders, NEW b \in Items(o), ReleaseStock(o, b), UNCHANGED <<payVars, orderVars>>,
           status[o] \in Open \/ (status[o] \in Billed /\ NeverPaid(o))
    PROVE  /\ CalmCore /\ (\A q \in Orders : q # o \/ status[o] # "pending" => PlacedOnward(q)) /\ ~Holds(o, b)'
           /\ \A q \in Orders : \A c \in Items(q) : Holds(q, c)' => Holds(q, c)
<1>1. b \in Books /\ UNCHANGED <<payment, balance, payEvent, status, paymentRef, expired, grace, resQuantity>>
    BY DEF Items, payVars, orderVars, ReleaseStock, stockVars
<1>2. resState \in [Orders -> [Books -> ReservationStates]]
    BY DEF CalmInv, SagaInv, CoreInv, StockInv, StockTypeOK
<1>3. /\ resState'[o][b] \notin Holding /\ (resState'[o][b] = "none" <=> resState[o][b] = "none")
      /\ \A q \in Orders, c \in Books : q # o \/ c # b => resState'[q][c] = resState[q][c]
      /\ \A q \in Orders : q # o => resState'[q] = resState[q]
    BY <1>1, <1>2 DEF ReleaseStock, Holding, stockVars
<1>4. Items(o) \subseteq Books /\ CalmOrder(o)
    BY DEF Items, CalmInv
<1>5. /\ \A c \in Items(o) : Holds(o, c)' => Holds(o, c)
      /\ \A c \in Books : resState[o][c] = "none" <=> resState'[o][c] = "none"
    BY <1>3, <1>4 DEF Holds
<1>6. status[o] \notin {"none", "stock_reserved", "confirmed"} /\ payment[o] # "succeeded"
    BY <1>4 DEF CalmOrder, Open, Billed, GivenUp, NeverPaid
<1>7. status[o] = "payment_pending" => NeverPaid(o)
    BY DEF Open, GivenUp
<1>8. CalmOrder(o)'
    BY <1>1, <1>4, <1>5, <1>6, <1>7 DEF CalmOrder, NeverPaid, CannotPay
<1>9. CalmCore /\ \A q \in Orders : q # o => PlacedOnward(q)
    BY <1>1, <1>3, <1>6, <1>8, CalmReservation
<1>10. status[o] # "pending" => PlacedOnward(o)
    BY <1>1, <1>4, <1>5 DEF PlacedOnward, Open, GivenUp
<1> QED
    BY <1>3, <1>5, <1>9, <1>10 DEF Holds

(* The payment of an order that waits for it.                              *)
LEMMA CalmPayment ==
    ASSUME CalmInv, NEW o \in Orders, UNCHANGED <<stockVars, orderVars>>,
           \/ WalletCharge(o) /\ status[o] \in Billed /\ (status[o] = "cancelled" => NeverPaid(o))
           \/ GatewayCheckout(o) /\ status[o] \in Billed /\ (status[o] = "cancelled" => NeverPaid(o))
              /\ "gateway" \in Vias[o]
           \/ GatewayResult(o)
    PROVE  /\ CalmCore /\ (\A q \in Orders : PlacedOnward(q)) /\ payment'[o] # "none"
           /\ \A q \in Orders : q # o => payment'[q] = payment[q]
<1>1. UNCHANGED <<resState, resQuantity, status, paymentRef, expired, grace>>
    BY DEF stockVars, orderVars
<1>2. /\ payment \in [Orders -> PaymentStates] /\ balance \in [Orders -> 0..MaxBalance]
      /\ payEvent \in [Orders -> BOOLEAN] /\ CalmOrder(o) /\ MaxBalance \in Nat
    BY BalanceAssumption DEF CalmInv, SagaInv, CoreInv, SagaTypes, PaymentTypeOK
<1>3. \A q \in Orders : q # o => payment'[q] = payment[q] /\ balance'[q] = balance[q] /\ payEvent'[q] = payEvent[q]
    BY <1>2 DEF WalletCharge, GatewayCheckout, GatewayResult
<1>4. \A q \in Orders : q # o => CalmOrder(q)'
    <2> SUFFICES ASSUME NEW q \in Orders, q # o
                 PROVE  CalmOrder(q)'
        OBVIOUS
    <2>1. CalmOrder(q)
        BY DEF CalmInv
    <2> QED
        BY <1>1, <1>3, <2>1 DEF CalmOrder, NeverPaid, CannotPay, Holds
<1>5. status[o] = "payment_pending" /\ ~NeverPaid(o) /\ payment[o] \in {"none", "pending"}
    <2>1. CASE WalletCharge(o) /\ status[o] \in Billed /\ (status[o] = "cancelled" => NeverPaid(o))
        <3>1. payment[o] = "none" /\ balance[o] # 0
            BY <2>1 DEF WalletCharge, WalletDeclines
        <3> QED
            BY <1>2, <2>1, <3>1 DEF CalmOrder, Billed, NeverPaid, CannotPay
    <2>2. CASE GatewayCheckout(o) /\ status[o] \in Billed /\ (status[o] = "cancelled" => NeverPaid(o))
               /\ "gateway" \in Vias[o]
        <3>1. payment[o] = "none"
            BY <2>2 DEF GatewayCheckout
        <3> QED
            BY <1>2, <2>2, <3>1 DEF CalmOrder, Billed, NeverPaid, CannotPay
    <2>3. CASE GatewayResult(o)
        <3>1. status[o] \in Statuses
            BY DEF CalmInv, SagaInv, CoreInv, SagaTypes
        <3>2. payment[o] = "pending"
            BY <2>3 DEF GatewayResult
        <3> QED
            BY <1>2, <3>1, <3>2 DEF CalmOrder, Statuses, NeverPaid
    <2> QED
        BY <2>1, <2>2, <2>3
<1>6. payment'[o] \in {"pending", "succeeded", "failed"} /\ ~CannotPay(o)'
    <2>1. CASE WalletCharge(o)
        <3>1. balance[o] \in 0..MaxBalance /\ balance[o] # 0 /\ balance[o] # 1 /\ balance'[o] = balance[o] - 1
            BY <1>2, <2>1 DEF WalletCharge, WalletDeclines, CalmOrder
        <3> QED
            BY <1>2, <2>1, <3>1 DEF WalletCharge, CannotPay
    <2>2. CASE GatewayCheckout(o) \/ GatewayResult(o)
        BY <1>2, <1>5, <2>2 DEF GatewayCheckout, GatewayResult, NeverPaid, CannotPay
    <2> QED
        BY <2>1, <2>2
<1>7. CalmOrder(o)'
    BY <1>1, <1>2, <1>5, <1>6 DEF CalmOrder, Holds
<1>8. \A q \in Orders : BilledOnward(q)
    <2>1. BilledOnward(o)
        BY <1>1, <1>5, <1>6 DEF BilledOnward, NeverPaid
    <2> QED
        BY <1>1, <1>3, <2>1 DEF BilledOnward, NeverPaid, CannotPay
<1> QED
    BY <1>1, <1>3, <1>4, <1>6, <1>7, <1>8 DEF CalmCore, PlacedOnward, Holds

-----------------------------------------------------------------------------
(* The handlers' steps where nothing fails, one by one.                    *)

(* No call fails.                                                          *)
LEMMA NoFault ==
    ASSUME Calm, CalmInv
    PROVE  ~Fault
<1>1. faults \in 0..MaxFaults /\ MaxFaults = 0
    BY DEF Calm, CalmInv, SagaInv, CoreInv, SagaTypes
<1> QED
    BY <1>1 DEF Fault

(* A handler between two steps.                                            *)
LEMMA CalmWorking ==
    ASSUME CalmInv, NEW p \in Procs
    PROVE  \E r \in HandlerRecord :
        /\ r = proc[p] /\ HandlerOK(r) /\ CalmHandler(r) /\ r.todo \subseteq Items(r.o)
        /\ r.o \in Orders /\ Items(r.o) \subseteq Books /\ CalmOrder(r.o) /\ OrderOK(r.o)
        /\ status[r.o] \in Statuses
        /\ r.pc \in CreatePcs \cup {"begin", "charge", "debit"} => p \in Clients
        /\ r.pc \in GivingBack /\ r.mode = "decline" => p \in Clients
        /\ r.pc \in GivingBack => \A b \in Items(r.o) \ r.todo : Gone(r.o, b)
<1>1. PICK r \in HandlerRecord : r = proc[p] /\ HandlerOK(r)
    BY Working DEF CalmInv
<1>2. r.o \in Orders /\ Items(r.o) \subseteq Books
    BY FieldTypes
<1>3. CalmOrder(r.o) /\ OrderOK(r.o) /\ status[r.o] \in Statuses
    BY <1>2 DEF CalmInv, SagaInv, CoreInv, SagaTypes
<1>4. r.todo \subseteq Items(r.o)
    BY <1>1 DEF HandlerOK
<1> QED
    BY <1>1, <1>2, <1>3, <1>4 DEF CalmInv, CalmHandlers

(* A handler that rests knows nothing.                                     *)
LEMMA IdleCalm == CalmHandler(Idle) /\ CalmHandler(Idle)'
BY IdleFields DEF CalmHandler, CreatePcs, PayPcs, GivingBack

(* A handler that has placed nothing and pays for nothing may rest.        *)
LEMMA CalmRests ==
    ASSUME CalmInv, NEW p \in Procs, UNCHANGED status,
           \A o \in Orders : \A b \in Items(o) : Holds(o, b)' => Holds(o, b),
           LET r == proc[p] IN
               /\ r.pc \notin CreatePcs
               /\ Pays(r, r.o) /\ status[r.o] = "payment_pending" => payment'[r.o] # "none"
    PROVE  Owes(p, Idle)
BY IdleFields DEF Owes, CreatePcs, GivingBack, WillUndo

\* The outcome of UpdateOrderState where nothing fails.
Updated(p, o, allowed, target, onOk, onErr) ==
    /\ CalmCore /\ inflight' = {} /\ UNCHANGED <<stockVars, payVars>>
    /\ \A q \in Orders : q # o \/ target # "stock_reserved" => PlacedOnward(q)
    /\ \A q \in Orders : q # o => status'[q] = status[q]
    /\ \/ Step(p, onOk) /\ status'[o] = target /\ status[o] \in allowed \cup {target}
       \/ Step(p, onErr) /\ UNCHANGED status /\ status[o] \notin allowed \cup {target}

(* UpdateOrderState without failures.                                      *)
LEMMA CalmUpdate ==
    ASSUME Calm, CalmInv, NEW p \in Procs, NEW o \in Orders, o = proc[p].o, NEW allowed,
           NEW target \in Statuses, NEW paid \in BOOLEAN, NEW onOk, NEW onErr,
           UpdateOrderState(p, allowed, target, paid, onOk, onErr),
           status[o] \in allowed /\ status[o] # target => CalmBecomes(o, target, paid)
    PROVE  Updated(p, o, allowed, target, onOk, onErr)
<1>1. inflight' = {} /\ UNCHANGED <<stockVars, payVars>>
    BY DEF UpdateOrderState, CalmInv
<1>2. ASSUME UNCHANGED orderVars
      PROVE  CalmCore /\ UNCHANGED status /\ \A q \in Orders : PlacedOnward(q)
    BY <1>1, <1>2, CalmStill DEF orderVars
<1>3. ASSUME status[o] # target, status[o] \in allowed, SetStatus(o, target, paid)
      PROVE  /\ CalmCore /\ status'[o] = target /\ \A q \in Orders : q # o => status'[q] = status[q]
             /\ \A q \in Orders : q # o \/ target # "stock_reserved" => PlacedOnward(q)
    BY <1>1, <1>3, CalmStatus
<1>4. \/ status[o] = target /\ UNCHANGED orderVars /\ Step(p, onOk)
      \/ status[o] # target /\ status[o] \in allowed /\ SetStatus(o, target, paid) /\ Step(p, onOk)
      \/ status[o] \notin allowed \cup {target} /\ UNCHANGED orderVars /\ Step(p, onErr)
    BY NoFault DEF UpdateOrderState
<1> QED
    BY <1>1, <1>2, <1>3, <1>4 DEF Updated

(* A call to the Book Service without failures.                            *)
LEMMA CalmCall ==
    ASSUME Calm, CalmInv, NEW p \in Procs, NEW kind \in {"reserve", "commit", "release"},
           NEW o \in Orders, NEW b \in Items(o), NEW onOk, NEW onErr,
           CallBookService(p, <<kind, o, b>>, onOk, onErr)
    PROVE  /\ inflight' = {} /\ UNCHANGED <<payVars, orderVars>>
           /\ kind = "reserve" => \/ Step(p, onOk) /\ ReserveStock(o, b, Quantity[o][b])
                                  \/ Step(p, onErr) /\ UNCHANGED stockVars
           /\ kind = "commit" => \/ Step(p, onOk) /\ CommitStock(o, b)
                                 \/ Step(p, onErr) /\ UNCHANGED stockVars /\ ~Holds(o, b)
           /\ kind = "release" => Step(p, onOk) /\ ReleaseStock(o, b)
<1> DEFINE m == <<kind, o, b>>
<1>1. m[1] = kind /\ m[2] = o /\ m[3] = b
    OBVIOUS
<1>2. inflight' = {} /\ UNCHANGED <<payVars, orderVars>>
    BY NoFault DEF CallBookService, CalmInv
<1>3. \/ Accepted(m) /\ Perform(m) /\ Step(p, onOk)
      \/ ~Accepted(m) /\ Step(p, onErr) /\ UNCHANGED stockVars
    BY NoFault DEF CallBookService
<1>4. resState[o][b] \in ReservationStates
    BY DEF Items, CalmInv, SagaInv, CoreInv, StockInv, StockTypeOK
<1> HIDE DEF m
<1>5. CASE kind = "reserve"
    BY <1>1, <1>2, <1>3, <1>5 DEF Perform
<1>6. CASE kind = "commit"
    BY <1>1, <1>2, <1>3, <1>6 DEF Perform, Accepted, CommitAccepted, Holds
<1>7. CASE kind = "release"
    BY <1>1, <1>2, <1>3, <1>4, <1>7 DEF Perform, Accepted, ReleaseAccepted
<1> QED
    BY <1>2, <1>5, <1>6, <1>7

(* A line is reserved, or the lines reserved so far are to be given back.  *)
LEMMA ReserveCalm ==
    ASSUME Calm, CalmInv, SagaInv', NEW p \in Procs, Reserve(p)
    PROVE  CalmInv'
<1>1. PICK r \in HandlerRecord : r = proc[p] /\ CalmHandler(r) /\ r.todo \subseteq Items(r.o)
            /\ r.o \in Orders /\ Items(r.o) \subseteq Books /\ (r.pc \in CreatePcs => p \in Clients)
    BY CalmWorking
<1>2. /\ r.pc = "reserve" /\ status[r.o] \in Open /\ p \in Clients /\ r.errs = {}
      /\ \A c \in r.todo : resState[r.o][c] = "none"
      /\ status[r.o] = "pending" => \A c \in Items(r.o) \ r.todo : Holds(r.o, c)
    BY <1>1 DEF Reserve, At, CalmHandler, CreatePcs
<1>3. PICK b \in r.todo : CallBookService(p, <<"reserve", r.o, b>>,
            IF r.todo = {b} THEN [To(p, "reserved") EXCEPT !.todo = {}]
                            ELSE [proc[p] EXCEPT !.todo = @ \ {b}],
            Undoing(proc[p], "reject", (Items(r.o) \ r.todo) \cup {b}))
    BY <1>1 DEF Reserve
<1> DEFINE ok == IF r.todo = {b} THEN [[r EXCEPT !.pc = "reserved"] EXCEPT !.todo = {}]
                                 ELSE [r EXCEPT !.todo = r.todo \ {b}]
           err == Undoing(r, "reject", (Items(r.o) \ r.todo) \cup {b})
<1>4. CallBookService(p, <<"reserve", r.o, b>>, ok, err)
    BY <1>1, <1>3 DEF To
<1>5. /\ ok \in HandlerRecord /\ ok.pc \in {"reserve", "reserved"} /\ ok.o = r.o /\ ok.todo = r.todo \ {b}
      /\ ok.errs = {}
    <2>1. "reserved" \in Pcs
        BY DEF Pcs
    <2>2. /\ r.todo = {b} => ok = [[r EXCEPT !.pc = "reserved"] EXCEPT !.todo = {}]
          /\ r.todo # {b} => ok = [r EXCEPT !.todo = r.todo \ {b}]
        OBVIOUS
    <2> HIDE DEF ok
    <2>3. r \in HandlerRecord
        OBVIOUS
    <2>4. /\ ok \in HandlerRecord /\ ok.o = r.o /\ ok.todo = r.todo \ {b} /\ ok.errs = r.errs
          /\ ok.pc \in {"reserved", r.pc}
        BY <2>1, <2>2, <2>3, LineGoesOn, Zenon
    <2> QED
        BY <1>1, <1>2, <2>4
<1>6. /\ err \in HandlerRecord /\ err.pc = "undo" /\ err.o = r.o /\ err.mode = "reject" /\ err.errs = {}
      /\ err.todo = (Items(r.o) \ r.todo) \cup {b}
    BY <1>1, <1>2, UndoingFields DEF Modes
<1> HIDE DEF ok, err
<1>7. /\ b \in Items(r.o) /\ inflight' = {} /\ UNCHANGED <<payVars, orderVars>>
      /\ \/ Step(p, ok) /\ ReserveStock(r.o, b, Quantity[r.o][b])
         \/ Step(p, err) /\ UNCHANGED stockVars
    BY <1>1, <1>4, CalmCall
<1>8. UNCHANGED <<status, paymentRef, expired, grace, payment>>
    BY <1>7 DEF orderVars, payVars
<1>9. CASE Step(p, ok) /\ ReserveStock(r.o, b, Quantity[r.o][b])
    <2>1. /\ CalmCore /\ \A q \in Orders : q # r.o => PlacedOnward(q)
          /\ Holds(r.o, b)'
          /\ \A q \in Orders, c \in Books : q # r.o \/ c # b => resState'[q][c] = resState[q][c]
        BY <1>1, <1>2, <1>7, <1>9, CalmReserve
    <2>2. CalmHandler(ok)'
        <3>1. \A c \in ok.todo : resState'[r.o][c] = "none"
            BY <1>1, <1>2, <1>5, <2>1
        <3>2. status[r.o] = "pending" => \A c \in Items(r.o) \ ok.todo : Holds(r.o, c)'
            BY <1>1, <1>2, <1>5, <2>1 DEF Holds
        <3> QED
            BY <1>2, <1>5, <1>8, <3>1, <3>2 DEF CalmHandler, CreatePcs, PayPcs, GivingBack
    <2>3. Owes(p, ok)
        <3>1. \A o \in Orders : \A c \in Items(o) : Holds(o, c)' => Holds(o, c) \/ (o = r.o)
            BY <2>1 DEF Holds, Items
        <3> QED
            BY <1>1, <1>2, <1>5, <1>8, <3>1 DEF Owes, Creates, Pays, WillUndo, CreatePcs, GivingBack
    <2>4. \A o \in Orders : ~Creates(r, o) => PlacedOnward(o)
        BY <1>2, <2>1 DEF Creates, CreatePcs
    <2> QED
        BY <1>1, <1>5, <1>7, <1>9, <2>1, <2>2, <2>3, <2>4, CalmMoves DEF CalmCore
<1>10. CASE Step(p, err) /\ UNCHANGED stockVars
    <2>1. CalmCore /\ \A q \in Orders : PlacedOnward(q)
        BY <1>1, <1>7, <1>8, <1>10, CalmStill
    <2>2. \A o, c : Holds(o, c)' = Holds(o, c)
        BY <1>10 DEF Holds, stockVars
    <2>3. CalmHandler(err)
        BY <1>2, <1>6 DEF CalmHandler, CreatePcs, PayPcs, GivingBack, Holds, Holding
    <2>4. Owes(p, err)
        <3>1. \A c \in Items(r.o) : c \in err.todo \/ ~Holds(r.o, c)
            BY <1>2, <1>6 DEF Holds, Holding
        <3> QED
            BY <1>1, <1>2, <1>6, <1>8, <2>2, <3>1 DEF Owes, Creates, Pays, WillUndo, CreatePcs, GivingBack
    <2>5. PlacedOnward(err.o)
        BY <1>1, <1>6, <2>1
    <2> QED
        BY <1>6, <1>7, <1>10, <2>1, <2>3, <2>4, <2>5, CalmMoves DEF CalmCore
<1> QED
    BY <1>7, <1>9, <1>10

(* A line of an order that was not placed is given back.                   *)
LEMMA UndoCalm ==
    ASSUME Calm, CalmInv, SagaInv', NEW p \in Procs, Undo(p)
    PROVE  CalmInv'
<1>1. PICK r \in HandlerRecord : r = proc[p] /\ CalmHandler(r) /\ r.todo \subseteq Items(r.o)
            /\ r.o \in Orders /\ Items(r.o) \subseteq Books /\ (r.pc \in CreatePcs => p \in Clients)
    BY CalmWorking
<1>2. /\ r.pc = "undo" /\ status[r.o] \in Open /\ p \in Clients /\ r.errs = {}
      /\ \A c \in Items(r.o) \ r.todo : ~Holds(r.o, c)
      /\ r.mode = "reject" \/ status[r.o] \in GivenUp
    BY <1>1 DEF Undo, At, CalmHandler, CreatePcs
<1>3. PICK b \in r.todo : LET next == AfterUndo([proc[p] EXCEPT !.todo = @ \ {b}]) IN
            CallBookService(p, <<"release", r.o, b>>, next, next)
    BY <1>1 DEF Undo
<1> DEFINE y == [r EXCEPT !.todo = r.todo \ {b}]
           x == AfterUndo(y)
<1>4. CallBookService(p, <<"release", r.o, b>>, x, x)
    BY <1>1, <1>3
<1>5. /\ y \in HandlerRecord /\ y.pc = "undo" /\ y.o = r.o /\ y.todo = r.todo \ {b}
      /\ y.mode = r.mode /\ y.errs = {}
    BY <1>2, LineDone
<1> HIDE DEF y
<1>6. /\ x \in HandlerRecord /\ x.errs = {}
      /\ \/ x.pc = "undo" /\ x.o = r.o /\ x.todo = r.todo \ {b} /\ x.mode = r.mode
         \/ x.pc = "reject" /\ x.o = r.o /\ x.todo = {} /\ r.todo = {b}
         \/ x = Idle /\ x.pc = "idle" /\ status[r.o] \in GivenUp /\ r.todo = {b}
    <2>1. CASE y.todo # {}
        BY <1>5, <2>1 DEF AfterUndo
    <2>2. CASE y.todo = {} /\ y.mode = "reject"
        <3>1. x = [y EXCEPT !.pc = "reject"]
            BY <2>2 DEF AfterUndo
        <3> QED
            BY <1>5, <2>2, <3>1, ToFields DEF Pcs
    <2>3. CASE y.todo = {} /\ y.mode # "reject"
        BY <1>2, <1>5, <2>3, IdleFields DEF AfterUndo
    <2> QED
        BY <2>1, <2>2, <2>3
<1> HIDE DEF x
<1>7. b \in Items(r.o) /\ inflight' = {} /\ UNCHANGED <<payVars, orderVars>> /\ Step(p, x) /\ ReleaseStock(r.o, b)
    BY <1>1, <1>4, CalmCall
<1>8. UNCHANGED <<status, paymentRef, expired, grace, payment>>
    BY <1>7 DEF orderVars, payVars
<1>9. /\ CalmCore /\ (\A q \in Orders : q # r.o => PlacedOnward(q)) /\ ~Holds(r.o, b)'
      /\ \A q \in Orders : \A c \in Items(q) : Holds(q, c)' => Holds(q, c)
    BY <1>1, <1>2, <1>7, CalmRelease
<1>10. \A c \in Items(r.o) : c \in r.todo \ {b} \/ ~Holds(r.o, c)'
    BY <1>1, <1>2, <1>9
<1>11. CalmHandler(x)'
    BY <1>2, <1>6, <1>8, <1>10, IdleCalm DEF CalmHandler, CreatePcs, PayPcs, GivingBack
<1>12. Owes(p, x)
    <2>1. "pending" \notin GivenUp
        BY DEF GivenUp
    <2> QED
        BY <1>1, <1>2, <1>6, <1>8, <1>9, <1>10, <2>1 DEF Owes, Creates, Pays, WillUndo, CreatePcs, GivingBack
<1>13. \A o \in Orders : ~Creates(r, o) => PlacedOnward(o)
    BY <1>2, <1>9 DEF Creates, CreatePcs
<1> QED
    BY <1>1, <1>6, <1>7, <1>9, <1>11, <1>12, <1>13, CalmMoves DEF CalmCore

(* An order that could not be reserved holds nothing when it is cancelled. *)
LEMMA RejectCalm ==
    ASSUME Calm, CalmInv, SagaInv', NEW p \in Procs, Reject(p)
    PROVE  CalmInv'
<1>1. PICK r \in HandlerRecord : r = proc[p] /\ CalmHandler(r) /\ r.o \in Orders
    BY CalmWorking
<1>2. r.pc = "reject" /\ \A c \in Items(r.o) : ~Holds(r.o, c)
    BY <1>1 DEF Reject, At, CalmHandler
<1>3. UpdateOrderState(p, {"pending"}, "cancelled", FALSE, Idle, Idle)
    BY DEF Reject
<1>4. status[r.o] \in {"pending"} /\ status[r.o] # "cancelled" => CalmBecomes(r.o, "cancelled", FALSE)
    BY DEF CalmBecomes
<1>5. "cancelled" \in Statuses
    BY DEF Statuses
<1>6. /\ CalmCore /\ inflight' = {} /\ UNCHANGED <<stockVars, payVars>> /\ Step(p, Idle)
      /\ \A q \in Orders : PlacedOnward(q)
      /\ \A q \in Orders : q # r.o => status'[q] = status[q]
      /\ \/ status'[r.o] = "cancelled"
         \/ UNCHANGED status /\ status[r.o] # "pending"
    <2>1. Updated(p, r.o, {"pending"}, "cancelled", Idle, Idle)
        BY <1>1, <1>3, <1>4, <1>5, CalmUpdate
    <2> QED
        BY <2>1 DEF Updated
<1>7. UNCHANGED <<resState, payment>>
    BY <1>6 DEF stockVars, payVars
<1>8. Owes(p, Idle)
    BY <1>1, <1>2, <1>6, <1>7, IdleFields DEF Owes, Pays, WillUndo, CreatePcs, GivingBack, Gone, Holds
<1> QED
    BY <1>6, <1>8, IdleFields, IdleCalm, CalmMoves DEF CalmCore

(* An order all of whose lines are reserved, or that was claimed meanwhile *)
(* and whose lines go back.                                                *)
LEMMA ReservedCalm ==
    ASSUME Calm, CalmInv, SagaInv', NEW p \in Procs, Reserved(p)
    PROVE  CalmInv'
<1>1. PICK r \in HandlerRecord : r = proc[p] /\ CalmHandler(r) /\ HandlerOK(r)
            /\ r.o \in Orders /\ Items(r.o) \subseteq Books /\ (r.pc \in CreatePcs => p \in Clients)
    BY CalmWorking
<1>2. /\ r.pc = "reserved" /\ r.todo = {} /\ status[r.o] \in Open /\ p \in Clients /\ r.errs = {}
      /\ status[r.o] = "pending" => \A c \in Items(r.o) : Holds(r.o, c)
    BY <1>1 DEF Reserved, At, CalmHandler, CreatePcs, HandlerOK
<1> DEFINE ok == [r EXCEPT !.pc = "clear_cart"]
           err == Undoing(r, "abandon", Items(r.o))
<1>3. UpdateOrderState(p, {"pending"}, "stock_reserved", FALSE, ok, err)
    BY <1>1 DEF Reserved, To
<1>4. ok \in HandlerRecord /\ ok.pc = "clear_cart" /\ ok.o = r.o /\ ok.errs = {}
    BY <1>2, ToFields DEF Pcs
<1>5. err \in HandlerRecord /\ err.pc = "undo" /\ err.todo = Items(r.o) /\ err.o = r.o /\ err.errs = {}
    BY <1>1, <1>2, UndoingFields DEF Modes
<1> HIDE DEF ok, err
<1>6. status[r.o] \in {"pending"} /\ status[r.o] # "stock_reserved" => CalmBecomes(r.o, "stock_reserved", FALSE)
    BY <1>2 DEF CalmBecomes
<1>7. "stock_reserved" \in Statuses
    BY DEF Statuses
<1>8. /\ CalmCore /\ inflight' = {} /\ UNCHANGED <<stockVars, payVars>>
      /\ \A q \in Orders : q # r.o => PlacedOnward(q)
      /\ \A q \in Orders : q # r.o => status'[q] = status[q]
      /\ \/ Step(p, ok) /\ status'[r.o] = "stock_reserved"
         \/ Step(p, err) /\ UNCHANGED status /\ status[r.o] # "pending"
    <2>1. Updated(p, r.o, {"pending"}, "stock_reserved", ok, err)
        BY <1>1, <1>3, <1>6, <1>7, CalmUpdate
    <2> QED
        BY <2>1 DEF Updated
<1>9. UNCHANGED <<resState, payment>> /\ \A o \in Orders : ~Creates(r, o) => PlacedOnward(o)
    BY <1>2, <1>8 DEF stockVars, payVars, Creates, CreatePcs
<1>10. \A o, b : Holds(o, b)' = Holds(o, b)
    BY <1>9 DEF Holds
<1>11. CASE Step(p, ok) /\ status'[r.o] = "stock_reserved"
    <2>1. CalmHandler(ok)'
        BY <1>4 DEF CalmHandler, CreatePcs, PayPcs, GivingBack
    <2>2. Owes(p, ok)
        BY <1>1, <1>2, <1>4, <1>8, <1>9, <1>10, <1>11
        DEF Owes, Creates, Pays, WillUndo, CreatePcs, GivingBack, Late
    <2> QED
        BY <1>1, <1>4, <1>8, <1>9, <1>11, <2>1, <2>2, CalmMoves DEF CalmCore
<1>12. CASE Step(p, err) /\ UNCHANGED status /\ status[r.o] # "pending"
    <2>1. status'[r.o] \in GivenUp
        BY <1>2, <1>12 DEF Open
    <2>2. CalmHandler(err)'
        BY <1>5, <2>1 DEF CalmHandler, CreatePcs, PayPcs, GivingBack, Open
    <2>3. Owes(p, err)
        BY <1>1, <1>2, <1>5, <1>9, <1>10, <1>12
        DEF Owes, Creates, Pays, WillUndo, CreatePcs, GivingBack
    <2> QED
        BY <1>1, <1>5, <1>8, <1>9, <1>12, <2>2, <2>3, CalmMoves DEF CalmCore
<1> QED
    BY <1>8, <1>11, <1>12

(* The cart is cleaned up: the orders do not notice.                       *)
LEMMA ClearCartCalm ==
    ASSUME Calm, CalmInv, SagaInv', NEW p \in Procs, ClearOrderedCartItems(p)
    PROVE  CalmInv'
<1>1. PICK r \in HandlerRecord : r = proc[p] /\ r.pc = "clear_cart" /\ r.o \in Orders
    BY CalmWorking DEF ClearOrderedCartItems, At
<1>2. Step(p, Idle) /\ UNCHANGED <<stockVars, payVars, orderVars>> /\ inflight' = {}
    BY DEF ClearOrderedCartItems, CalmInv
<1>3. UNCHANGED <<status, paymentRef, expired, grace, resState, payment>>
    BY <1>2 DEF orderVars, stockVars, payVars
<1>4. CalmCore /\ \A q \in Orders : PlacedOnward(q)
    BY <1>1, <1>2, <1>3, CalmStill
<1>5. Owes(p, Idle)
    BY <1>1, <1>3, CalmRests DEF Pays, CreatePcs, Holds
<1> QED
    BY <1>2, <1>4, <1>5, IdleFields, IdleCalm, CalmMoves DEF CalmCore

(* A handler that reads and goes on, writing nothing.                      *)
LEMMA CalmReads ==
    ASSUME CalmInv, SagaInv', NEW p \in Procs, NEW x \in HandlerRecord, Step(p, x),
           UNCHANGED <<stockVars, payVars, orderVars, inflight>>,
           CalmHandler(x), x.o \in Orders, x.pc \notin CreatePcs,
           LET r == proc[p] IN
               /\ r.pc \notin CreatePcs /\ r.o \in Orders
               /\ Pays(r, r.o) /\ status[r.o] = "payment_pending" /\ payment[r.o] = "none" => Pays(x, r.o),
           x.pc \in {"begin", "charge", "debit"} => p \in Clients,
           x.pc \in GivingBack /\ x.mode = "decline" => p \in Clients,
           x.pc \in GivingBack => \A b \in Items(x.o) \ x.todo : Gone(x.o, b)
    PROVE  CalmInv'
<1>1. UNCHANGED <<status, paymentRef, expired, grace, resState, payment>> /\ inflight' = {}
    BY DEF orderVars, stockVars, payVars, CalmInv
<1>2. CalmCore /\ \A q \in Orders : PlacedOnward(q)
    <2>1. PICK o \in Orders : TRUE
        OBVIOUS
    <2> QED
        BY <1>1, <2>1, CalmStill
<1>3. \A o, b : Holds(o, b)' = Holds(o, b)
    BY <1>1 DEF Holds
<1>4. Owes(p, x)
    <2>1. proc[p].pc \notin {"reserve", "reserved", "undo"}
        BY DEF CreatePcs
    <2> QED
        BY <1>1, <1>3, <2>1 DEF Owes, WillUndo
<1> QED
    BY <1>1, <1>2, <1>4, CalmMoves DEF CalmCore

(* A payment is begun by a request that goes on to pay.                    *)
LEMMA BeginPaymentCalm ==
    ASSUME Calm, CalmInv, SagaInv', NEW p \in Procs, BeginPayment(p)
    PROVE  CalmInv'
<1>1. PICK r \in HandlerRecord : r = proc[p] /\ CalmHandler(r) /\ r.pc = "begin" /\ r.o \in Orders
            /\ (r.pc \in {"begin", "charge", "debit"} => p \in Clients)
    BY CalmWorking DEF BeginPayment, At
<1>2. p \in Clients /\ r.errs = {} /\ r.via \in Vias[r.o]
    BY <1>1 DEF CalmHandler
<1> DEFINE y == [r EXCEPT !.pc = "claim"]
           z == [y EXCEPT !.seen = "stock_reserved"]
           x == [z EXCEPT !.via = "none"]
           ok == [r EXCEPT !.pc = "charge"]
<1>3. \/ /\ Step(p, x)
         /\ UNCHANGED <<stockVars, payVars, orderVars, cart, inflight, faults>>
      \/ UpdateOrderState(p, {"stock_reserved"}, "payment_pending", FALSE, ok, Idle)
    BY <1>1 DEF BeginPayment, To
<1>4. ok \in HandlerRecord /\ ok.pc = "charge" /\ ok.o = r.o /\ ok.via = r.via /\ ok.errs = {}
    BY <1>2, ToFields DEF Pcs
<1> HIDE DEF ok
<1>5. y \in HandlerRecord /\ y.pc = "claim" /\ y.o = r.o /\ y.errs = {}
    BY <1>2, ToFields DEF Pcs
<1> HIDE DEF y
<1>6. z \in HandlerRecord /\ z.pc = "claim" /\ z.o = r.o /\ z.errs = {}
    BY <1>5, SeenFields DEF Statuses
<1> HIDE DEF z
<1>7. x \in HandlerRecord /\ x.pc = "claim" /\ x.o = r.o /\ x.errs = {}
    BY <1>6, ViaFields
<1> HIDE DEF x
<1>8. CASE Step(p, x) /\ UNCHANGED <<stockVars, payVars, orderVars, cart, inflight, faults>>
    <2>1. CalmHandler(x)
        BY <1>7 DEF CalmHandler, CreatePcs, PayPcs, GivingBack
    <2> QED
        BY <1>1, <1>7, <1>8, <2>1, CalmReads DEF Pays, CreatePcs, GivingBack
<1>9. CASE UpdateOrderState(p, {"stock_reserved"}, "payment_pending", FALSE, ok, Idle)
    <2>1. status[r.o] \in {"stock_reserved"} /\ status[r.o] # "payment_pending" => CalmBecomes(r.o, "payment_pending", FALSE)
        BY DEF CalmBecomes
    <2>2. "payment_pending" \in Statuses
        BY DEF Statuses
    <2>3. /\ CalmCore /\ inflight' = {} /\ UNCHANGED <<stockVars, payVars>>
          /\ \A q \in Orders : PlacedOnward(q)
          /\ \A q \in Orders : q # r.o => status'[q] = status[q]
          /\ \/ Step(p, ok) /\ status'[r.o] = "payment_pending"
             \/ Step(p, Idle) /\ UNCHANGED status
        <3>1. Updated(p, r.o, {"stock_reserved"}, "payment_pending", ok, Idle)
            BY <1>1, <1>9, <2>1, <2>2, CalmUpdate
        <3> QED
            BY <3>1 DEF Updated
    <2>4. UNCHANGED <<resState, payment>> /\ \A o, b : Holds(o, b)' = Holds(o, b)
        BY <2>3 DEF stockVars, payVars, Holds
    <2>5. CASE Step(p, ok) /\ status'[r.o] = "payment_pending"
        <3>1. CalmHandler(ok)'
            BY <1>2, <1>4, <2>5 DEF CalmHandler, CreatePcs, PayPcs, GivingBack, Billed
        <3>2. Owes(p, ok)
            BY <1>1, <1>2, <1>4, <2>3, <2>4, <2>5 DEF Owes, Pays, WillUndo, CreatePcs, GivingBack
        <3> QED
            BY <1>4, <2>3, <2>5, <3>1, <3>2, CalmMoves DEF CalmCore
    <2>6. CASE Step(p, Idle) /\ UNCHANGED status
        <3>1. Owes(p, Idle)
            BY <1>1, <2>4, <2>6, CalmRests DEF Pays, CreatePcs
        <3> QED
            BY <2>3, <2>6, <3>1, IdleFields, IdleCalm, CalmMoves DEF CalmCore
    <2> QED
        BY <2>3, <2>5, <2>6
<1> QED
    BY <1>3, <1>8, <1>9

(* A handler that has learnt of a payment that succeeded goes on to commit.*)
LEMMA CalmPaid ==
    ASSUME NEW r \in HandlerRecord, r.errs = {}, r.o \in Orders, status[r.o] \in Billed,
           status[r.o] = "cancelled" => NeverPaid(r.o), NEW x,
           x = Idle \/ (x = Committing(r) /\ payment[r.o] = "succeeded")
    PROVE  x \in HandlerRecord /\ CalmHandler(x) /\ x.o \in Orders /\ x.pc \in {"idle", "commit"}
<1>1. CASE x = Idle
    BY <1>1, IdleFields, IdleCalm, FieldTypes
<1>2. CASE x = Committing(r) /\ payment[r.o] = "succeeded"
    <2>1. x \in HandlerRecord /\ x.pc = "commit" /\ x.o = r.o /\ x.todo = Items(r.o) /\ x.errs = {}
        BY <1>2, CommittingFields
    <2>2. Items(x.o) \ x.todo = {}
        BY <2>1
    <2> QED
        BY <1>2, <2>1, <2>2 DEF CalmHandler, CreatePcs, PayPcs, GivingBack
<1> QED
    BY <1>1, <1>2

(* A gateway checkout is opened, or a wallet payment goes on.              *)
LEMMA ChargeCalm ==
    ASSUME Calm, CalmInv, SagaInv', NEW p \in Procs, Charge(p)
    PROVE  CalmInv'
<1>1. PICK r \in HandlerRecord : r = proc[p] /\ CalmHandler(r) /\ r.pc = "charge" /\ r.o \in Orders
            /\ (r.pc \in {"begin", "charge", "debit"} => p \in Clients)
    BY CalmWorking DEF Charge, At
<1>2. /\ p \in Clients /\ r.errs = {} /\ r.via \in Vias[r.o]
      /\ status[r.o] \in Billed /\ (status[r.o] = "cancelled" => NeverPaid(r.o))
    BY <1>1 DEF CalmHandler, PayPcs
<1> DEFINE debit == [r EXCEPT !.pc = "debit"]
           lookup == [r EXCEPT !.pc = "lookup"]
           x == AfterPayment(r)
<1>3. /\ inflight' = {} /\ UNCHANGED <<stockVars, orderVars, inflight>>
      /\ \/ r.via = "wallet" /\ Step(p, debit) /\ UNCHANGED payVars
         \/ r.via = "gateway" /\ GatewayCheckout(r.o) /\ Step(p, Idle)
         \/ payment[r.o] # "none" /\ (Step(p, x) \/ Step(p, lookup)) /\ UNCHANGED payVars
    BY <1>1, NoFault DEF Charge, To, LosePayment, CalmInv
<1>4. debit \in HandlerRecord /\ debit.pc = "debit" /\ debit.o = r.o /\ debit.via = r.via /\ debit.errs = {}
    BY <1>2, ToFields DEF Pcs
<1>5. lookup \in HandlerRecord /\ lookup.pc = "lookup" /\ lookup.o = r.o /\ lookup.errs = {}
    BY <1>2, ToFields DEF Pcs
<1> HIDE DEF debit, lookup
<1>6. x \in HandlerRecord /\ CalmHandler(x) /\ x.o \in Orders /\ x.pc \in {"idle", "commit"}
    BY <1>1, <1>2, CalmPaid DEF AfterPayment
<1> HIDE DEF x
<1>7. CalmHandler(lookup) /\ (r.via = "wallet" => CalmHandler(debit))
    BY <1>2, <1>4, <1>5 DEF CalmHandler, CreatePcs, PayPcs, GivingBack
<1>8. CASE r.via = "wallet" /\ Step(p, debit) /\ UNCHANGED payVars
    BY <1>1, <1>2, <1>3, <1>4, <1>7, <1>8, CalmReads DEF Pays, CreatePcs, GivingBack
<1>9. CASE r.via = "gateway" /\ GatewayCheckout(r.o) /\ Step(p, Idle)
    <2>1. CalmCore /\ (\A q \in Orders : PlacedOnward(q)) /\ payment'[r.o] # "none"
        BY <1>1, <1>2, <1>3, <1>9, CalmPayment
    <2>2. UNCHANGED status /\ \A o, b : Holds(o, b)' = Holds(o, b)
        BY <1>3 DEF stockVars, orderVars, Holds
    <2>3. Owes(p, Idle)
        BY <1>1, <2>1, <2>2, CalmRests DEF CreatePcs
    <2> QED
        BY <1>3, <1>9, <2>1, <2>3, IdleFields, IdleCalm, CalmMoves DEF CalmCore
<1>10. CASE payment[r.o] # "none" /\ Step(p, x) /\ UNCHANGED payVars
    BY <1>1, <1>3, <1>6, <1>10, CalmReads DEF CreatePcs, GivingBack
<1>11. CASE payment[r.o] # "none" /\ Step(p, lookup) /\ UNCHANGED payVars
    BY <1>1, <1>3, <1>5, <1>7, <1>11, CalmReads DEF CreatePcs, GivingBack
<1> QED
    BY <1>3, <1>8, <1>9, <1>10, <1>11

(* A wallet pays, or it is empty and the order will never be paid.         *)
LEMMA DebitCalm ==
    ASSUME Calm, CalmInv, SagaInv', NEW p \in Procs, Debit(p)
    PROVE  CalmInv'
<1>1. PICK r \in HandlerRecord : r = proc[p] /\ CalmHandler(r) /\ r.pc = "debit" /\ r.o \in Orders
            /\ (r.pc \in {"begin", "charge", "debit"} => p \in Clients)
    BY CalmWorking DEF Debit, At
<1>2. /\ p \in Clients /\ r.errs = {} /\ r.via = "wallet" /\ r.via \in Vias[r.o]
      /\ status[r.o] \in Billed /\ (status[r.o] = "cancelled" => NeverPaid(r.o))
    BY <1>1 DEF CalmHandler, PayPcs
<1> DEFINE declined == Releasing(r, "decline")
           lookup == [r EXCEPT !.pc = "lookup"]
           x == Committing(r)
<1>3. /\ inflight' = {} /\ UNCHANGED <<stockVars, orderVars, inflight>>
      /\ \/ WalletDeclines(r.o) /\ Step(p, declined) /\ UNCHANGED payVars
         \/ WalletCharge(r.o) /\ Step(p, x)
         \/ payment[r.o] # "none" /\ Step(p, lookup) /\ UNCHANGED payVars
    BY <1>1, NoFault DEF Debit, To, LosePayment, CalmInv
<1>4. /\ declined \in HandlerRecord /\ declined.pc = "release" /\ declined.o = r.o
      /\ declined.mode = "decline" /\ declined.todo = Items(r.o) /\ declined.errs = {}
    BY <1>2, ReleasingFields DEF Modes
<1>5. lookup \in HandlerRecord /\ lookup.pc = "lookup" /\ lookup.o = r.o /\ lookup.errs = {}
    BY <1>2, ToFields DEF Pcs
<1>6. x \in HandlerRecord /\ x.pc = "commit" /\ x.o = r.o /\ x.todo = Items(r.o) /\ x.errs = {}
    BY <1>2, CommittingFields
<1> HIDE DEF declined, lookup, x
<1>7. CASE WalletDeclines(r.o) /\ Step(p, declined) /\ UNCHANGED payVars
    <2>1. CannotPay(r.o)
        <3>1. Vias[r.o] \subseteq Providers /\ Vias[r.o] # Providers
            BY <1>1, SagaAssumption DEF Calm
        <3> QED
            BY <1>2, <1>7, <3>1 DEF CannotPay, WalletDeclines, Providers
    <2>2. CalmHandler(declined)
        BY <1>2, <1>4, <2>1 DEF CalmHandler, CreatePcs, PayPcs, GivingBack
    <2>3. Items(declined.o) \ declined.todo = {}
        BY <1>4
    <2> QED
        BY <1>1, <1>2, <1>3, <1>4, <1>7, <2>2, <2>3, CalmReads DEF Pays, CreatePcs, GivingBack
<1>8. CASE WalletCharge(r.o) /\ Step(p, x)
    <2>1. CalmCore /\ (\A q \in Orders : PlacedOnward(q)) /\ payment'[r.o] # "none"
        BY <1>1, <1>2, <1>3, <1>8, CalmPayment
    <2>2. UNCHANGED status /\ (\A o, b : Holds(o, b)' = Holds(o, b)) /\ payment'[r.o] = "succeeded"
        BY <1>1, <1>3, <1>8 DEF stockVars, orderVars, Holds, WalletCharge, CalmInv, SagaInv, CoreInv, SagaTypes, PaymentTypeOK
    <2>3. Owes(p, x)
        BY <1>1, <1>6, <2>1, <2>2 DEF Owes, WillUndo, CreatePcs, GivingBack
    <2>4. CalmHandler(x)'
        <3>1. BilledOnward(r.o) /\ Items(x.o) \ x.todo = {}
            BY <1>1, <1>6, <2>1 DEF CalmCore
        <3>2. NeverPaid(r.o) => NeverPaid(r.o)'
            BY <3>1 DEF BilledOnward
        <3> QED
            BY <1>2, <1>6, <2>2, <3>1, <3>2 DEF CalmHandler, CreatePcs, PayPcs, GivingBack
    <2> QED
        BY <1>3, <1>6, <1>8, <2>1, <2>3, <2>4, CalmMoves DEF CalmCore
<1>9. CASE payment[r.o] # "none" /\ Step(p, lookup) /\ UNCHANGED payVars
    <2>1. CalmHandler(lookup)
        BY <1>2, <1>5 DEF CalmHandler, CreatePcs, PayPcs, GivingBack
    <2> QED
        BY <1>1, <1>3, <1>5, <1>9, <2>1, CalmReads DEF CreatePcs, GivingBack
<1> QED
    BY <1>3, <1>7, <1>8, <1>9

(* The payment made by another request is found.                           *)
LEMMA LookupCalm ==
    ASSUME Calm, CalmInv, SagaInv', NEW p \in Procs, Lookup(p)
    PROVE  CalmInv'
<1>1. PICK r \in HandlerRecord : r = proc[p] /\ CalmHandler(r) /\ r.pc = "lookup" /\ r.o \in Orders
    BY CalmWorking DEF Lookup, At
<1>2. r.errs = {} /\ status[r.o] \in Billed /\ (status[r.o] = "cancelled" => NeverPaid(r.o))
    BY <1>1 DEF CalmHandler, PayPcs
<1> DEFINE x == AfterPayment(r)
<1>3. Step(p, x) /\ UNCHANGED <<stockVars, payVars, orderVars, inflight>>
    BY <1>1 DEF Lookup
<1>4. x \in HandlerRecord /\ CalmHandler(x) /\ x.o \in Orders /\ x.pc \in {"idle", "commit"}
    BY <1>1, <1>2, CalmPaid DEF AfterPayment
<1> HIDE DEF x
<1> QED
    BY <1>1, <1>3, <1>4, CalmReads DEF Pays, CreatePcs, GivingBack

(* The lines of a paid order are there to be committed.                    *)
LEMMA CommitCalm ==
    ASSUME Calm, CalmInv, SagaInv', NEW p \in Procs, Commit(p)
    PROVE  CalmInv'
<1>1. PICK r \in HandlerRecord : r = proc[p] /\ CalmHandler(r) /\ r.pc = "commit" /\ r.todo \subseteq Items(r.o)
            /\ r.o \in Orders /\ Items(r.o) \subseteq Books /\ CalmOrder(r.o)
    BY CalmWorking DEF Commit, At
<1>2. /\ r.errs = {} /\ status[r.o] \in Billed /\ payment[r.o] = "succeeded"
      /\ \A c \in Items(r.o) \ r.todo : resState[r.o][c] = "committed"
    BY <1>1 DEF CalmHandler, PayPcs
<1>3. ~NeverPaid(r.o) /\ status[r.o] # "cancelled" /\ \A c \in Items(r.o) : Holds(r.o, c)
    BY <1>1, <1>2 DEF CalmOrder, Billed, NeverPaid, Holds, Holding
<1>4. PICK b \in r.todo : CallBookService(p, <<"commit", r.o, b>>,
            IF r.todo = {b} THEN [To(p, "confirm") EXCEPT !.todo = {}]
                            ELSE [proc[p] EXCEPT !.todo = @ \ {b}],
            CompensatingPaid([proc[p] EXCEPT !.todo = {}]))
    BY <1>1 DEF Commit
<1> DEFINE ok == IF r.todo = {b} THEN [[r EXCEPT !.pc = "confirm"] EXCEPT !.todo = {}]
                                 ELSE [r EXCEPT !.todo = r.todo \ {b}]
           err == CompensatingPaid([r EXCEPT !.todo = {}])
<1>5. CallBookService(p, <<"commit", r.o, b>>, ok, err)
    BY <1>1, <1>4 DEF To
<1>6. /\ ok \in HandlerRecord /\ ok.pc \in {"commit", "confirm"} /\ ok.o = r.o /\ ok.todo = r.todo \ {b}
      /\ ok.errs = {}
    <2>1. "confirm" \in Pcs
        BY DEF Pcs
    <2>2. /\ r.todo = {b} => ok = [[r EXCEPT !.pc = "confirm"] EXCEPT !.todo = {}]
          /\ r.todo # {b} => ok = [r EXCEPT !.todo = r.todo \ {b}]
        OBVIOUS
    <2> HIDE DEF ok
    <2>3. r \in HandlerRecord
        OBVIOUS
    <2>4. /\ ok \in HandlerRecord /\ ok.o = r.o /\ ok.todo = r.todo \ {b} /\ ok.errs = r.errs
          /\ ok.pc \in {"confirm", r.pc}
        BY <2>1, <2>2, <2>3, LineGoesOn, Zenon
    <2> QED
        BY <1>1, <1>2, <2>4
<1> HIDE DEF ok, err
<1>7. b \in Items(r.o) /\ inflight' = {} /\ UNCHANGED <<payVars, orderVars>> /\ Step(p, ok) /\ CommitStock(r.o, b)
    <2>1. b \in Items(r.o) /\ "commit" \in {"reserve", "commit", "release"}
        BY <1>1
    <2>2. /\ inflight' = {} /\ UNCHANGED <<payVars, orderVars>>
          /\ \/ Step(p, ok) /\ CommitStock(r.o, b)
             \/ ~Holds(r.o, b)
        BY <1>1, <1>5, <2>1, CalmCall, SMTT(30)
    <2> QED
        BY <1>3, <2>1, <2>2
<1>8. UNCHANGED <<status, payment>>
    BY <1>7 DEF orderVars, payVars
<1>9. /\ CalmCore /\ (\A q \in Orders : PlacedOnward(q)) /\ resState'[r.o][b] = "committed"
      /\ \A q \in Orders : \A c \in Items(q) : Holds(q, c)' = Holds(q, c)
    BY <1>1, <1>7, CalmCommit
<1>10. CalmHandler(ok)'
    <2>1. \A c \in Items(r.o) : resState[r.o][c] = "committed" => resState'[r.o][c] = "committed"
        BY <1>1, <1>2, <1>9 DEF CalmCore, BilledOnward
    <2>2. \A c \in Items(r.o) \ ok.todo : resState'[r.o][c] = "committed"
        BY <1>1, <1>2, <1>6, <1>9, <2>1
    <2> QED
        BY <1>2, <1>3, <1>6, <1>8, <2>2 DEF CalmHandler, CreatePcs, PayPcs, GivingBack
<1>11. Owes(p, ok)
    BY <1>1, <1>6, <1>8, <1>9 DEF Owes, Pays, WillUndo, CreatePcs, GivingBack
<1> QED
    BY <1>6, <1>7, <1>9, <1>10, <1>11, CalmMoves DEF CalmCore

(* A paid order is confirmed.                                              *)
LEMMA ConfirmCalm ==
    ASSUME Calm, CalmInv, SagaInv', NEW p \in Procs, Confirm(p)
    PROVE  CalmInv'
<1>1. PICK r \in HandlerRecord : r = proc[p] /\ CalmHandler(r) /\ HandlerOK(r) /\ r.pc = "confirm"
            /\ r.o \in Orders /\ CalmOrder(r.o)
    BY CalmWorking DEF Confirm, At
<1>2. /\ r.todo = {} /\ status[r.o] \in Billed /\ payment[r.o] = "succeeded"
      /\ \A c \in Items(r.o) : resState[r.o][c] = "committed"
    BY <1>1 DEF CalmHandler, HandlerOK, PayPcs
<1>3. status[r.o] \in {"payment_pending", "confirmed"}
    BY <1>1, <1>2 DEF CalmOrder, Billed
<1> DEFINE err == IF p \in Clients THEN CompensatingPaid(r) ELSE Idle
<1>4. UpdateOrderState(p, {"payment_pending"}, "confirmed", TRUE, Idle, err)
    BY <1>1 DEF Confirm
<1> HIDE DEF err
<1>5. status[r.o] \in {"payment_pending"} /\ status[r.o] # "confirmed" => CalmBecomes(r.o, "confirmed", TRUE)
    BY <1>2 DEF CalmBecomes
<1>6. "confirmed" \in Statuses
    BY DEF Statuses
<1>7. /\ CalmCore /\ inflight' = {} /\ UNCHANGED <<stockVars, payVars>>
      /\ \A q \in Orders : PlacedOnward(q)
      /\ \A q \in Orders : q # r.o => status'[q] = status[q]
      /\ Step(p, Idle) /\ status'[r.o] = "confirmed"
    <2>1. Updated(p, r.o, {"payment_pending"}, "confirmed", Idle, err)
        BY <1>1, <1>4, <1>5, <1>6, CalmUpdate
    <2> QED
        BY <1>3, <2>1 DEF Updated
<1>8. \A o, b : Holds(o, b)' = Holds(o, b)
    BY <1>7 DEF stockVars, Holds
<1>9. Owes(p, Idle)
    BY <1>1, <1>7, <1>8, IdleFields DEF Owes, Pays, WillUndo, CreatePcs, GivingBack
<1> QED
    BY <1>7, <1>9, IdleFields, IdleCalm, CalmMoves DEF CalmCore

(* To compensate an order that names no payment is to give its lines back. *)
LEMMA CompensatingCalm ==
    ASSUME NEW r \in HandlerRecord, r.errs = {}, ~paymentRef[r.o], NEW x, x = Compensating(r)
    PROVE  /\ x \in HandlerRecord /\ x.pc = "release" /\ x.mode = "comp" /\ x.o = r.o
           /\ x.todo = Items(r.o) /\ x.errs = {} /\ CalmHandler(x) /\ CalmHandler(x)'
<1>1. /\ x \in HandlerRecord /\ x.pc = "release" /\ x.mode = "comp" /\ x.o = r.o
      /\ x.todo = Items(r.o) /\ x.errs = {}
    BY CompensatingFields
<1> QED
    BY <1>1 DEF CalmHandler, CreatePcs, PayPcs, GivingBack

(* An order that was not paid is claimed, and its lines are given back.    *)
LEMMA ClaimCalm ==
    ASSUME Calm, CalmInv, SagaInv', NEW p \in Procs, Claim(p)
    PROVE  CalmInv'
<1>1. PICK r \in HandlerRecord : r = proc[p] /\ CalmHandler(r) /\ HandlerOK(r) /\ r.pc = "claim"
            /\ r.o \in Orders /\ CalmOrder(r.o) /\ OrderOK(r.o)
    BY CalmWorking DEF Claim, At
<1>2. r.errs = {} /\ r.seen \in {"pending", "stock_reserved"}
    BY <1>1 DEF CalmHandler, HandlerOK
<1> DEFINE y == [r EXCEPT !.seen = "none"]
<1>3. PICK ok : ok = Compensating(y) /\ UpdateOrderState(p, {r.seen}, "compensation_pending", FALSE, ok, Idle)
    BY <1>1 DEF Claim
<1>4. y \in HandlerRecord /\ y.o = r.o /\ y.errs = {}
    BY <1>2, SeenFields DEF Statuses
<1> HIDE DEF y
<1>5. status[r.o] \in {"pending", "stock_reserved", "compensation_pending"} =>
          /\ ok \in HandlerRecord /\ ok.pc = "release" /\ ok.mode = "comp" /\ ok.o = r.o
          /\ ok.todo = Items(r.o) /\ CalmHandler(ok)'
    <2>1. status[r.o] \in {"pending", "stock_reserved", "compensation_pending"} => ~paymentRef[r.o]
        BY <1>1 DEF OrderOK, CalmOrder
    <2> QED
        BY <1>3, <1>4, <2>1, CompensatingCalm
<1>6. status[r.o] \in {r.seen} /\ status[r.o] # "compensation_pending" => CalmBecomes(r.o, "compensation_pending", FALSE)
    BY <1>2 DEF CalmBecomes
<1>7. "compensation_pending" \in Statuses
    BY <1>2 DEF Statuses
<1>8. /\ CalmCore /\ inflight' = {} /\ UNCHANGED <<stockVars, payVars>>
      /\ \A q \in Orders : PlacedOnward(q)
      /\ \A q \in Orders : q # r.o => status'[q] = status[q]
      /\ \/ Step(p, ok) /\ status'[r.o] = "compensation_pending"
            /\ status[r.o] \in {r.seen} \cup {"compensation_pending"}
         \/ Step(p, Idle) /\ UNCHANGED status
    <2>1. Updated(p, r.o, {r.seen}, "compensation_pending", ok, Idle)
        BY <1>1, <1>3, <1>6, <1>7, CalmUpdate
    <2> QED
        BY <2>1 DEF Updated
<1>9. UNCHANGED payment /\ \A o, b : Holds(o, b)' = Holds(o, b)
    BY <1>8 DEF stockVars, payVars, Holds
<1>10. CASE Step(p, ok) /\ status'[r.o] = "compensation_pending"
            /\ status[r.o] \in {r.seen} \cup {"compensation_pending"}
    <2>1. /\ ok \in HandlerRecord /\ ok.pc = "release" /\ ok.mode = "comp" /\ ok.o = r.o
          /\ Items(ok.o) \ ok.todo = {} /\ CalmHandler(ok)'
        BY <1>2, <1>5, <1>10
    <2>2. Owes(p, ok)
        BY <1>1, <1>8, <1>9, <1>10, <2>1 DEF Owes, Pays, WillUndo, CreatePcs, GivingBack
    <2>3. Step(p, ok) /\ inflight' = {} /\ CalmCore /\ \A q \in Orders : PlacedOnward(q)
        BY <1>8, <1>10
    <2> QED
        BY <2>1, <2>2, <2>3, CalmMoves DEF CalmCore
<1>11. CASE Step(p, Idle) /\ UNCHANGED status
    <2>1. Owes(p, Idle)
        BY <1>1, <1>9, <1>11, CalmRests DEF Pays, CreatePcs
    <2> QED
        BY <1>8, <1>11, <2>1, IdleFields, IdleCalm, CalmMoves DEF CalmCore
<1> QED
    BY <1>8, <1>10, <1>11

(* A reconciler finds the payment settled, or goes away.                   *)
LEMMA InspectCalm ==
    ASSUME Calm, CalmInv, SagaInv', NEW p \in Procs, Inspect(p)
    PROVE  CalmInv'
<1>1. PICK r \in HandlerRecord : r = proc[p] /\ CalmHandler(r) /\ r.pc = "inspect" /\ r.o \in Orders
    BY CalmWorking DEF Inspect, At
<1>2. /\ r.errs = {} /\ payment[r.o] # "none"
      /\ status[r.o] \in Billed /\ (status[r.o] = "cancelled" => NeverPaid(r.o))
    BY <1>1 DEF CalmHandler, PayPcs
<1> DEFINE failed == Releasing(r, "failed")
           paid == Committing(r)
<1>3. /\ \/ Step(p, failed)
         \/ Step(p, paid) /\ payment[r.o] = "succeeded"
         \/ Step(p, Idle)
      /\ UNCHANGED <<stockVars, payVars, orderVars, inflight>>
    BY <1>1, <1>2 DEF Inspect
<1>4. /\ failed \in HandlerRecord /\ failed.pc = "release" /\ failed.o = r.o
      /\ failed.mode = "failed" /\ failed.todo = Items(r.o) /\ failed.errs = {}
    BY <1>2, ReleasingFields DEF Modes
<1> HIDE DEF failed
<1>5. ASSUME NEW x, Step(p, x), x = Idle \/ (x = paid /\ payment[r.o] = "succeeded")
      PROVE  CalmInv'
    <2>1. x \in HandlerRecord /\ CalmHandler(x) /\ x.o \in Orders /\ x.pc \in {"idle", "commit"}
        BY <1>1, <1>2, <1>5, CalmPaid
    <2> HIDE DEF paid
    <2> QED
        BY <1>1, <1>3, <1>5, <2>1, CalmReads DEF Pays, CreatePcs, GivingBack
<1>6. CASE Step(p, failed)
    <2>1. CalmHandler(failed)
        BY <1>4 DEF CalmHandler, CreatePcs, PayPcs, GivingBack
    <2>2. Items(failed.o) \ failed.todo = {}
        BY <1>4
    <2> QED
        BY <1>1, <1>3, <1>4, <1>6, <2>1, <2>2, CalmReads DEF Pays, CreatePcs, GivingBack
<1> QED
    BY <1>3, <1>5, <1>6

(* A line of an order that was given up or will not be paid goes back.     *)
LEMMA ReleaseCalm ==
    ASSUME Calm, CalmInv, SagaInv', NEW p \in Procs, Release(p)
    PROVE  CalmInv'
<1>1. PICK r \in HandlerRecord : r = proc[p] /\ CalmHandler(r) /\ HandlerOK(r) /\ r.pc = "release"
            /\ r.todo \subseteq Items(r.o) /\ r.o \in Orders /\ Items(r.o) \subseteq Books
            /\ (r.pc \in GivingBack /\ r.mode = "decline" => p \in Clients)
            /\ (r.pc \in GivingBack => \A b \in Items(r.o) \ r.todo : Gone(r.o, b))
    BY CalmWorking DEF Release, At
<1>2. /\ r.errs = {} /\ r.mode \in {"comp", "failed", "decline"} /\ status[r.o] \in Late
      /\ r.mode = "decline" => CannotPay(r.o) /\ status[r.o] \in Billed /\ p \in Clients
      /\ r.mode = "failed" => payment[r.o] = "failed"
      /\ r.mode = "comp" => status[r.o] \in GivenUp
      /\ \A c \in Items(r.o) \ r.todo : Gone(r.o, c)
    BY <1>1 DEF CalmHandler, HandlerOK, GivingBack, LatePcs
<1>3. status[r.o] \in Open \/ (status[r.o] \in Billed /\ NeverPaid(r.o))
    BY <1>2 DEF Open, Billed, GivenUp, Late, NeverPaid
<1>4. PICK b \in r.todo : LET next == [proc[p] EXCEPT !.todo = @ \ {b}] IN
            CallBookService(p, <<"release", r.o, b>>, AfterRelease(next),
                            AfterRelease([next EXCEPT !.errs = @ \cup {"release"}]))
    BY <1>1 DEF Release
<1> DEFINE y == [r EXCEPT !.todo = r.todo \ {b}]
           ok == AfterRelease(y)
           err == AfterRelease([y EXCEPT !.errs = y.errs \cup {"release"}])
<1>5. CallBookService(p, <<"release", r.o, b>>, ok, err)
    BY <1>1, <1>4
<1>6. /\ y \in HandlerRecord /\ y.pc = "release" /\ y.o = r.o /\ y.mode = r.mode
      /\ y.todo = r.todo \ {b} /\ y.errs = {}
    BY <1>1, <1>2, LineDone
<1> HIDE DEF y
<1>7. /\ ok \in HandlerRecord /\ ok.pc \in GivingBack /\ ok.o = r.o /\ ok.mode = r.mode
      /\ ok.todo = r.todo \ {b} /\ ok.errs = {} /\ (r.mode = "decline" => ok.pc \in {"release", "close"})
    BY <1>1, <1>6, AfterReleaseFields DEF GivingBack
<1> HIDE DEF ok, err
<1>8. b \in Items(r.o) /\ inflight' = {} /\ UNCHANGED <<payVars, orderVars>> /\ Step(p, ok) /\ ReleaseStock(r.o, b)
    BY <1>1, <1>5, CalmCall
<1>9. UNCHANGED <<status, payment, balance>>
    BY <1>8 DEF orderVars, payVars
<1>10. /\ CalmCore /\ (\A q \in Orders : PlacedOnward(q)) /\ ~Holds(r.o, b)'
       /\ \A q \in Orders : \A c \in Items(q) : Holds(q, c)' => Holds(q, c)
    <2>1. status[r.o] # "pending"
        BY <1>2 DEF Late
    <2> QED
        BY <1>1, <1>3, <1>8, <2>1, CalmRelease
<1>11. CalmHandler(ok)'
    <2>1. r.mode = "decline" => CannotPay(r.o)'
        BY <1>2, <1>9 DEF CannotPay
    <2> QED
        BY <1>2, <1>7, <1>9, <2>1 DEF CalmHandler, CreatePcs, PayPcs, GivingBack
<1>12. Owes(p, ok)
    <2>1. \A c \in Items(r.o) \ ok.todo : Gone(r.o, c) \/ ~Holds(r.o, c)'
        BY <1>2, <1>7, <1>10
    <2> QED
        BY <1>1, <1>2, <1>7, <1>9, <1>10, <2>1 DEF Owes, Pays, WillUndo, CreatePcs, GivingBack
<1> QED
    BY <1>7, <1>8, <1>10, <1>11, <1>12, CalmMoves DEF CalmCore

(* The lines are back in the cart: the orders do not notice.               *)
LEMMA RestoreCalm ==
    ASSUME Calm, CalmInv, SagaInv', NEW p \in Procs, RestoreCartItems(p)
    PROVE  CalmInv'
<1>1. PICK r \in HandlerRecord : r = proc[p] /\ CalmHandler(r) /\ r.pc = "restore" /\ r.o \in Orders
            /\ (r.pc \in GivingBack /\ r.mode = "decline" => p \in Clients)
            /\ (r.pc \in GivingBack => \A b \in Items(r.o) \ r.todo : Gone(r.o, b))
    BY CalmWorking DEF RestoreCartItems, At
<1> DEFINE x == [r EXCEPT !.pc = "close"]
<1>2. /\ x \in HandlerRecord /\ x.pc = "close" /\ x.o = r.o /\ x.mode = r.mode /\ x.todo = r.todo
      /\ x.errs = r.errs
    BY ToFields DEF Pcs
<1>3. /\ Step(p, Idle) \/ Step(p, x)
      /\ UNCHANGED <<stockVars, payVars, orderVars, inflight>>
    BY <1>1, NoFault DEF RestoreCartItems, To
<1> HIDE DEF x
<1>4. CalmHandler(x)
    BY <1>1, <1>2 DEF CalmHandler, CreatePcs, PayPcs, GivingBack
<1>5. CASE Step(p, x)
    BY <1>1, <1>2, <1>3, <1>4, <1>5, CalmReads DEF Pays, CreatePcs, GivingBack
<1>6. CASE Step(p, Idle)
    BY <1>1, <1>3, <1>6, IdleFields, FieldTypes, IdleCalm, CalmReads DEF Pays, CreatePcs, GivingBack
<1> QED
    BY <1>3, <1>5, <1>6

(* The order is cancelled once every line of it has gone back.             *)
LEMMA CloseCalm ==
    ASSUME Calm, CalmInv, SagaInv', NEW p \in Procs, Close(p)
    PROVE  CalmInv'
<1>1. PICK r \in HandlerRecord : r = proc[p] /\ CalmHandler(r) /\ HandlerOK(r) /\ r.pc = "close" /\ r.o \in Orders
            /\ (r.pc \in GivingBack /\ r.mode = "decline" => p \in Clients)
            /\ (r.pc \in GivingBack => \A b \in Items(r.o) \ r.todo : Gone(r.o, b))
    BY CalmWorking DEF Close, At
<1>2. /\ r.errs = {} /\ r.todo = {} /\ r.mode \in {"comp", "failed", "decline"} /\ status[r.o] \in Late
      /\ r.mode = "decline" => CannotPay(r.o) /\ status[r.o] \in Billed /\ p \in Clients
      /\ r.mode = "failed" => payment[r.o] = "failed"
      /\ r.mode = "comp" => status[r.o] \in GivenUp
      /\ \A c \in Items(r.o) : Gone(r.o, c)
    BY <1>1 DEF CalmHandler, HandlerOK, GivingBack, LatePcs
<1> DEFINE x == [r EXCEPT !.pc = "restore"]
           allowed == IF r.mode = "comp" THEN {"compensation_pending"} ELSE {"payment_pending"}
           paid == r.mode \in {"failed", "paid"}
           next == IF r.mode = "decline" THEN x ELSE Idle
<1>3. UpdateOrderState(p, allowed, "cancelled", paid, next, next)
    BY <1>1, <1>2 DEF Close, To
<1>4. /\ x \in HandlerRecord /\ x.pc = "restore" /\ x.o = r.o /\ x.mode = r.mode
      /\ x.todo = r.todo /\ x.errs = r.errs
    BY ToFields DEF Pcs
<1> HIDE DEF x
<1>5. status[r.o] \in allowed /\ status[r.o] # "cancelled" => CalmBecomes(r.o, "cancelled", paid)
    BY <1>2 DEF CalmBecomes, NeverPaid
<1>6. "cancelled" \in Statuses /\ paid \in BOOLEAN
    BY DEF Statuses
<1>7. r.mode # "comp" => allowed = {"payment_pending"}
    OBVIOUS
<1> HIDE DEF allowed, paid, next
<1>8. /\ CalmCore /\ inflight' = {} /\ UNCHANGED <<stockVars, payVars>> /\ Step(p, next)
      /\ \A q \in Orders : PlacedOnward(q)
      /\ \A q \in Orders : q # r.o => status'[q] = status[q]
      /\ status'[r.o] = "cancelled" \/ (UNCHANGED status /\ status[r.o] \notin allowed)
    <2>1. Updated(p, r.o, allowed, "cancelled", next, next)
        BY <1>1, <1>3, <1>5, <1>6, CalmUpdate
    <2> QED
        BY <2>1 DEF Updated
<1>9. UNCHANGED <<payment, balance>> /\ \A o, b : Holds(o, b)' = Holds(o, b)
    BY <1>8 DEF stockVars, payVars, Holds
<1>10. Pays(r, r.o) => status'[r.o] # "payment_pending"
    BY <1>1, <1>7, <1>8 DEF Pays
<1>11. CASE next = x /\ r.mode = "decline"
    <2>1. CalmHandler(x)'
        <3>1. CannotPay(r.o)' /\ status'[r.o] \in Billed
            BY <1>1, <1>2, <1>8, <1>9, <1>11 DEF CannotPay, CalmCore, BilledOnward
        <3> QED
            BY <1>2, <1>4, <1>11, <3>1 DEF CalmHandler, CreatePcs, PayPcs, GivingBack
    <2>2. Owes(p, x)
        BY <1>1, <1>2, <1>4, <1>8, <1>9, <1>10, <1>11 DEF Owes, WillUndo, CreatePcs, GivingBack
    <2> QED
        BY <1>4, <1>8, <1>11, <2>1, <2>2, CalmMoves DEF CalmCore
<1>12. CASE next = Idle
    <2>1. Owes(p, Idle)
        BY <1>1, <1>2, <1>8, <1>9, <1>10, IdleFields DEF Owes, WillUndo, CreatePcs, GivingBack
    <2> QED
        BY <1>8, <1>12, <2>1, IdleFields, IdleCalm, CalmMoves DEF CalmCore
<1> QED
    BY <1>11, <1>12 DEF next

-----------------------------------------------------------------------------
(* The steps that start work on an order, and those of the world, where    *)
(* nothing fails.                                                          *)

(* Where the customer of an order has no request under way, the order is   *)
(* not being placed, and if it waits for a payment there is one.           *)
LEMMA NobodyAsks ==
    ASSUME CalmInv, NEW o \in Orders, NoRequest(o)
    PROVE  status[o] # "pending" /\ (status[o] = "payment_pending" => payment[o] # "none")
<1>1. \A c \in Clients : ~Creates(proc[c], o) /\ ~Pays(proc[c], o)
    BY DEF NoRequest, At, Creates, Pays, CreatePcs
<1> QED
    BY <1>1 DEF CalmInv, CalmHandlers

(* A request takes up a new order; the order is nobody else's.             *)
LEMMA CreateOrderCalm ==
    ASSUME Calm, CalmInv, SagaInv', NEW c \in Clients, NEW o \in Orders, CreateOrder(c, o)
    PROVE  CalmInv'
<1>1. c \in Procs /\ At(c, "idle") /\ NoRequest(o)
    BY DEF CreateOrder, MayRequest, Calm, Procs
<1>2. status[o] = "none" /\ SetStatus(o, "pending", FALSE)
    BY <1>1, NobodyAsks DEF CreateOrder
<1> DEFINE h == Handler(o, "reserve")
           x == [h EXCEPT !.todo = Items(o)]
<1>3. h \in HandlerRecord /\ h.pc = "reserve" /\ h.o = o /\ h.errs = {}
    BY HandlerFields DEF Pcs
<1>4. Items(o) \in SUBSET Books
    BY DEF Items
<1>5. Step(c, x) /\ UNCHANGED <<stockVars, payVars>> /\ inflight' = {}
    BY DEF CreateOrder, Reserving, CalmInv
<1> HIDE DEF h
<1>6. x \in HandlerRecord /\ x.pc = "reserve" /\ x.o = o /\ x.todo = Items(o) /\ x.errs = {}
    BY <1>3, <1>4, TodoFields
<1> HIDE DEF x
<1>7. /\ CalmCore /\ status'[o] = "pending" /\ (\A q \in Orders : q # o => status'[q] = status[q])
      /\ \A q \in Orders : PlacedOnward(q)
    <2>1. CalmBecomes(o, "pending", FALSE) /\ "pending" \in Statuses /\ FALSE \in BOOLEAN
        BY <1>2 DEF CalmBecomes, Statuses
    <2>2. /\ CalmCore /\ status'[o] = "pending" /\ \A q \in Orders : q # o => status'[q] = status[q]
          /\ \A q \in Orders : q # o \/ "pending" # "stock_reserved" => PlacedOnward(q)
        BY <1>2, <1>5, <2>1, CalmStatus
    <2> QED
        BY <2>2
<1>8. UNCHANGED <<resState, payment>> /\ \A q, b : Holds(q, b)' = Holds(q, b)
    BY <1>5 DEF stockVars, payVars, Holds
<1>9. CalmHandler(x)'
    <2>1. \A b \in Items(o) : resState'[o][b] = "none"
        BY <1>2, <1>8 DEF CalmInv, CalmOrder
    <2>2. Items(x.o) \ x.todo = {} /\ status'[x.o] \in Open
        BY <1>6, <1>7 DEF Open
    <2> QED
        BY <1>6, <2>1, <2>2 DEF CalmHandler, CreatePcs, PayPcs, GivingBack
<1>10. proc[c].pc = "idle"
    BY <1>1 DEF At
<1>11. Owes(c, x)
    BY <1>2, <1>6, <1>7, <1>8, <1>10 DEF Owes, Creates, Pays, WillUndo, CreatePcs, GivingBack
<1> QED
    BY <1>1, <1>5, <1>6, <1>7, <1>9, <1>11, CalmMoves DEF CalmCore

(* A handler that rested takes an order up and has written nothing yet.    *)
LEMMA CalmStarts ==
    ASSUME CalmInv, SagaInv', NEW p \in Procs, At(p, "idle"), NEW x \in HandlerRecord, Step(p, x),
           UNCHANGED <<stockVars, payVars, orderVars, cart, inflight, faults>>,
           CalmHandler(x), x.pc \notin CreatePcs, x.pc \in {"begin", "charge"} => p \in Clients,
           x.pc # "debit", x.pc \in GivingBack => x.mode = "comp" /\ x.todo = Items(x.o)
    PROVE  CalmInv'
<1>1. PICK r \in HandlerRecord : r = proc[p] /\ r.pc = "idle" /\ r.o \in Orders
    BY CalmWorking DEF At
<1>2. x.o \in Orders
    BY FieldTypes
<1>3. x.pc \in GivingBack => Items(x.o) \ x.todo = {}
    OBVIOUS
<1> QED
    BY <1>1, <1>2, <1>3, CalmReads DEF Pays, CreatePcs, GivingBack

(* A customer or a reconciler claims an order that is not paid.            *)
LEMMA ClaimStartsCalm ==
    ASSUME CalmInv, SagaInv', NEW p \in Procs, At(p, "idle"), NEW o \in Orders,
           status[o] \in {"pending", "stock_reserved"},
           Step(p, [Handler(o, "claim") EXCEPT !.seen = status[o]]),
           UNCHANGED <<stockVars, payVars, orderVars, cart, inflight, faults>>
    PROVE  CalmInv'
<1> DEFINE h == Handler(o, "claim")
           x == [h EXCEPT !.seen = status[o]]
<1>1. h \in HandlerRecord /\ h.pc = "claim" /\ h.errs = {} /\ Step(p, x)
    BY HandlerFields DEF Pcs
<1>2. status[o] \in Statuses
    BY DEF Statuses
<1> HIDE DEF h
<1>3. x \in HandlerRecord /\ x.pc = "claim" /\ x.errs = {}
    BY <1>1, <1>2, SeenFields
<1> HIDE DEF x
<1>4. CalmHandler(x)
    BY <1>3 DEF CalmHandler, CreatePcs, PayPcs, GivingBack
<1> QED
    BY <1>1, <1>3, <1>4, CalmStarts DEF CreatePcs, GivingBack

(* The customer cancels the order.                                         *)
LEMMA CancelOrderCalm ==
    ASSUME CalmInv, SagaInv', NEW c \in Clients, NEW o \in Orders, CancelOrder(c, o)
    PROVE  CalmInv'
BY ClaimStartsCalm DEF CancelOrder, MayRequest, Procs

(* The customer pays, by the provider of the order.                        *)
LEMMA PayOrderCalm ==
    ASSUME CalmInv, SagaInv', NEW c \in Clients, NEW o \in Orders, NEW via \in Vias[o], PayOrder(c, o, via)
    PROVE  CalmInv'
<1>1. c \in Procs /\ At(c, "idle") /\ via \in Providers \cup {"none"}
    BY SagaAssumption DEF PayOrder, MayRequest, Procs
<1>2. PICK pc \in {"begin", "charge"} :
        /\ pc = "charge" => status[o] = "payment_pending"
        /\ Step(c, [Handler(o, pc) EXCEPT !.via = via])
    BY DEF PayOrder
<1> DEFINE h == Handler(o, pc)
           x == [h EXCEPT !.via = via]
<1>3. h \in HandlerRecord /\ h.pc = pc /\ h.o = o /\ h.errs = {} /\ Step(c, x)
    BY <1>2, HandlerFields DEF Pcs
<1> HIDE DEF h
<1>4. x \in HandlerRecord /\ x.pc = pc /\ x.o = o /\ x.errs = {} /\ x.via = via
    BY <1>1, <1>3, ViaFields
<1> HIDE DEF x
<1>5. CalmHandler(x)
    BY <1>2, <1>4 DEF CalmHandler, CreatePcs, PayPcs, GivingBack, Billed
<1> QED
    BY <1>1, <1>2, <1>3, <1>4, <1>5, CalmStarts DEF PayOrder, CreatePcs, GivingBack

(* A reconciler or the payment consumer takes the order up.                *)
LEMMA ReconcileCalm ==
    ASSUME CalmInv, SagaInv', NEW w \in Workers, NEW o \in Orders, Reconcile(w, o) \/ HandlePaymentEvent(w, o)
    PROVE  CalmInv'
<1>1. /\ w \in Procs /\ At(w, "idle") /\ CalmOrder(o)
      /\ UNCHANGED <<stockVars, payVars, orderVars, cart, inflight, faults>>
    BY DEF Reconcile, HandlePaymentEvent, Procs, CalmInv
<1>2. CASE status[o] = "compensation_pending" /\ Step(w, Compensating(Handler(o, "idle")))
    <2> DEFINE h == Handler(o, "idle")
               x == Compensating(h)
    <2>1. h \in HandlerRecord /\ h.errs = {} /\ h.o = o /\ Step(w, x)
        BY <1>2, HandlerFields DEF Pcs
    <2> HIDE DEF h
    <2>2. ~paymentRef[h.o]
        BY <1>1, <1>2, <2>1 DEF CalmOrder
    <2>3. x \in HandlerRecord /\ x.pc = "release" /\ x.mode = "comp" /\ x.todo = Items(x.o) /\ CalmHandler(x)
        BY <2>1, <2>2, CompensatingCalm
    <2> HIDE DEF x
    <2> QED
        BY <1>1, <2>1, <2>3, CalmStarts DEF CreatePcs
<1>3. CASE /\ status[o] \in {"pending", "stock_reserved"}
           /\ Step(w, [Handler(o, "claim") EXCEPT !.seen = status[o]])
    BY <1>1, <1>3, ClaimStartsCalm
<1>4. CASE status[o] = "payment_pending" /\ payment[o] # "none" /\ Step(w, Handler(o, "inspect"))
    <2> DEFINE x == Handler(o, "inspect")
    <2>1. x \in HandlerRecord /\ x.pc = "inspect" /\ x.o = o /\ x.errs = {} /\ Step(w, x)
        BY <1>4, HandlerFields DEF Pcs
    <2> HIDE DEF x
    <2>2. CalmHandler(x)
        BY <1>4, <2>1 DEF CalmHandler, CreatePcs, PayPcs, GivingBack, Billed
    <2> QED
        BY <1>1, <2>1, <2>2, CalmStarts DEF CreatePcs, GivingBack
<1> QED
    BY <1>1, <1>2, <1>3, <1>4 DEF Reconcile, HandlePaymentEvent, CalmOrder

(* A step that no handler takes.                                           *)
LEMMA CalmWorld ==
    ASSUME CalmInv, SagaInv', UNCHANGED <<proc, status, inflight, resState>>, CalmCore,
           \A o \in Orders : PlacedOnward(o)
    PROVE  CalmInv'
<1>1. /\ proc \in [Procs -> HandlerRecord] /\ \A q \in Procs : HandlerOK(proc[q]) /\ CalmHandler(proc[q])
      /\ CalmHandlers /\ inflight = {}
    BY DEF CalmInv, CalmHandlers, SagaInv, HandlersOK
<1>2. ASSUME NEW q \in Procs
      PROVE  CalmHandler(proc[q])'
    <2>1. PICK r \in HandlerRecord : r = proc[q] /\ r.o \in Orders
        BY <1>1 DEF HandlerRecord
    <2>2. r.todo \subseteq Items(r.o) /\ CalmHandler(r) /\ BilledOnward(r.o) /\ PlacedOnward(r.o)
        BY <1>1, <2>1 DEF HandlerOK, CalmCore
    <2>3. CalmHandler(r)'
        BY <2>2, CalmStays
    <2> QED
        BY <2>1, <2>3
<1>3. \A o \in Orders : payment'[o] = "none" => payment[o] = "none"
    BY DEF CalmCore, BilledOnward
<1>4. CalmHandlers'
    BY <1>1, <1>2, <1>3 DEF CalmHandlers, Creates, Pays, Gone, Holds, WillUndo
<1> QED
    BY <1>1, <1>4 DEF CalmInv, CalmCore

(* A timer runs out, or a payment is settled by the gateway.               *)
LEMMA WorldCalm ==
    ASSUME Calm, CalmInv, SagaInv', NEW o \in Orders, Expire(o) \/ GraceEnds(o) \/ Payments(o)
    PROVE  CalmInv'
<1>1. CASE Expire(o)
    <2>1. NoRequest(o) /\ status[o] \in {"pending", "stock_reserved"} /\ expired \in [Orders -> BOOLEAN]
        BY <1>1 DEF Expire, Quiet, Calm, CalmInv, SagaInv, CoreInv, SagaTypes
    <2>2. status[o] \notin {"none", "pending"}
        BY <2>1, NobodyAsks
    <2>3. /\ UNCHANGED <<stockVars, payVars, status, paymentRef, grace, proc, inflight, resState>>
          /\ \A q \in Orders : q # o => expired'[q] = expired[q] /\ grace'[q] = grace[q]
        BY <1>1, <2>1 DEF Expire, stockVars
    <2>4. CalmCore /\ \A q \in Orders : PlacedOnward(q)
        BY <2>2, <2>3, CalmStill
    <2> QED
        BY <2>3, <2>4, CalmWorld
<1>2. CASE GraceEnds(o)
    <2>1. NoRequest(o) /\ grace \in [Orders -> BOOLEAN]
        BY <1>2 DEF GraceEnds, Quiet, Calm, CalmInv, SagaInv, CoreInv, SagaTypes
    <2>2. status[o] = "payment_pending" => payment[o] # "none"
        BY <2>1, NobodyAsks
    <2>3. /\ UNCHANGED <<stockVars, payVars, status, paymentRef, expired, proc, inflight, resState>>
          /\ \A q \in Orders : q # o => expired'[q] = expired[q] /\ grace'[q] = grace[q]
        BY <1>2, <2>1 DEF GraceEnds, stockVars
    <2>4. CalmCore /\ \A q \in Orders : PlacedOnward(q)
        BY <2>2, <2>3, CalmStill
    <2> QED
        BY <2>3, <2>4, CalmWorld
<1>3. CASE Payments(o)
    <2>1. GatewayResult(o) /\ UNCHANGED <<stockVars, orderVars, proc, inflight>>
        BY <1>3 DEF Payments, Calm, RefundSettles, CalmInv, CalmOrder
    <2>2. CalmCore /\ \A q \in Orders : PlacedOnward(q)
        BY <2>1, CalmPayment
    <2> QED
        BY <2>1, <2>2, CalmWorld DEF orderVars, stockVars
<1> QED
    BY <1>1, <1>2, <1>3

-----------------------------------------------------------------------------
(* At first no order is there and every handler rests.                     *)
LEMMA CalmInvInit ==
    ASSUME Calm, Init
    PROVE  CalmInv
<1>1. /\ SagaInv /\ inflight = {} /\ \A p \in Procs : proc[p] = Idle
      /\ \A o \in Orders : /\ status[o] = "none" /\ payment[o] = "none" /\ balance[o] # 1
                           /\ ~expired[o] /\ ~payEvent[o]
      /\ \A o \in Orders, b \in Books : resState[o][b] = "none"
    BY SagaInvInit DEF Init, PaymentInit, Calm
<1>2. \A o \in Orders : CalmOrder(o)
    BY <1>1 DEF CalmOrder, Items
<1>3. CalmHandlers
    BY <1>1, IdleFields, IdleCalm DEF CalmHandlers, CreatePcs, GivingBack, Creates, Pays
<1> QED
    BY <1>1, <1>2, <1>3 DEF CalmInv

(* Every step of the saga keeps the invariant where nothing fails.         *)
LEMMA CalmStep ==
    ASSUME Calm, CalmInv, [Next]_vars
    PROVE  CalmInv'
<1>1. SagaInv'
    BY SagaStep DEF CalmInv
<1>2. ASSUME NEW p \in Procs, Work(p)
      PROVE  CalmInv'
    <2>1. ~Refund(p)
        BY CalmWorking DEF Refund, At, CalmHandler
    <2> QED
        BY <1>1, <1>2, <2>1, ReserveCalm, UndoCalm, RejectCalm, ReservedCalm, ClearCartCalm,
           BeginPaymentCalm, ChargeCalm, DebitCalm, LookupCalm, CommitCalm, ConfirmCalm,
           ClaimCalm, InspectCalm, ReleaseCalm, RestoreCalm, CloseCalm DEF Work
<1>3. ASSUME UNCHANGED vars
      PROVE  CalmInv'
    <2>1. UNCHANGED <<stockVars, payVars, orderVars, proc, inflight, resState, status, paymentRef, expired, grace>>
        BY <1>3 DEF vars, stockVars, orderVars
    <2>2. PICK o \in Orders : TRUE
        BY OrdersAssumption
    <2>3. CalmCore /\ \A q \in Orders : PlacedOnward(q)
        BY <2>1, <2>2, CalmStill
    <2> QED
        BY <1>1, <2>1, <2>3, CalmWorld
<1>4. ASSUME NEW p \in Procs, Crash(p)
      PROVE  CalmInv'
    BY <1>4, NoFault DEF Crash
<1> QED
    BY <1>1, <1>2, <1>3, <1>4, CreateOrderCalm, CancelOrderCalm, PayOrderCalm, ReconcileCalm, WorldCalm
    DEF Next, CalmInv

(* Where no call fails, no timer runs out during a request, no request     *)
(* overtakes the placing of its order, every order is paid by one provider *)
(* and no wallet changes or runs empty between two attempts, the customer's*)
(* requests, the reconcilers and the gateway never get in each other's way:*)
(* a payment that is taken is never given back, and a line is given back   *)
(* only for an order that was given up or will never be paid.              *)
THEOREM CalmSafety ==
    ASSUME Calm
    PROVE  Spec => []CalmInv
<1>1. Init => CalmInv
    BY CalmInvInit
<1>2. CalmInv /\ [Next]_vars => CalmInv'
    BY CalmStep
<1> QED
    BY <1>1, <1>2, PTL DEF Spec

(* Then a confirmed order has been paid, is not refunded, and its copies   *)
(* are its own: PayOrder and reconcilePaymentPending commit every line     *)
(* before they confirm, and nobody releases a line of a paid order.        *)
THEOREM ConfirmedOrdersDelivered ==
    ASSUME Calm
    PROVE  Spec => []ConfirmedIsDelivered
<1>1. CalmInv => ConfirmedIsDelivered
    BY DEF CalmInv, CalmOrder, ConfirmedIsDelivered
<1> QED
    BY <1>1, CalmSafety, PTL

(* Then a cancelled order nobody works on keeps neither stock nor money:   *)
(* a line reserved after the order was claimed is given back by the request*)
(* that reserved it (reserveOrder's releaseItems).                         *)
THEOREM CancelledOrdersUndone ==
    ASSUME Calm
    PROVE  Spec => []CancelledIsUndone
<1>1. CalmInv => CancelledIsUndone
    <2> SUFFICES ASSUME CalmInv, NEW o \in Orders, status[o] = "cancelled", AtRest(o)
                 PROVE  payment[o] \in {"none", "failed", "refunded"}
                        /\ \A b \in Items(o) : resState[o][b] \notin Holding
        BY DEF CancelledIsUndone
    <2>1. \A p \in Procs, b \in Items(o) : ~WillUndo(proc[p], o, b)
        BY DEF AtRest, At, WillUndo
    <2>2. \A b \in Items(o) : ~Holds(o, b)
        BY <2>1 DEF CalmInv, CalmHandlers, Gone
    <2> QED
        BY <2>2 DEF CalmInv, CalmOrder, Holds
<1> QED
    BY <1>1, CalmSafety, PTL

(* Then the shop never sells more copies of a book than it has: the copies *)
(* of the confirmed orders are among those the orders hold, which the Book *)
(* Service has taken off the shelf.                                        *)
THEOREM ShopNeverOversold ==
    ASSUME Calm
    PROVE  Spec => []NeverOversold
<1>1. CalmInv => NeverOversold
    <2> SUFFICES ASSUME CalmInv, NEW b \in Books
                 PROVE  Cardinality({c \in Orders \X (1..MaxQuantity) :
                            status[c[1]] = "confirmed" /\ c[2] <= Quantity[c[1]][b]}) <= supply[b]
        BY DEF NeverOversold
    <2> DEFINE sold == {c \in Orders \X (1..MaxQuantity) :
                            status[c[1]] = "confirmed" /\ c[2] <= Quantity[c[1]][b]}
    <2>1. StockInv /\ StockTypeOK /\ StockConserved /\ ReservedBooksListed
        BY DEF CalmInv, SagaInv, CoreInv, StockInv
    <2>2. /\ IsFiniteSet(HeldCopies(b)) /\ Cardinality(HeldCopies(b)) \in Nat
          /\ stock[b] \in Nat /\ supply[b] \in Nat
        BY <2>1, HeldFinite DEF StockTypeOK
    <2>3. sold \subseteq HeldCopies(b)
        <3> SUFFICES ASSUME NEW o \in Orders, NEW n \in 1..MaxQuantity, status[o] = "confirmed", n <= Quantity[o][b]
                     PROVE  resState[o][b] \in Holding /\ n <= resQuantity[o][b]
            BY DEF HeldCopies
        <3>1. b \in Items(o)
            <4>1. Quantity[o][b] \in 0..MaxQuantity /\ n >= 1
                BY SagaAssumption, StockAssumption
            <4> QED
                BY <4>1, StockAssumption DEF Items
        <3> QED
            BY <3>1 DEF CalmInv, CalmOrder, Holding
    <2> HIDE DEF sold
    <2>4. IsFiniteSet(sold) /\ Cardinality(sold) <= Cardinality(HeldCopies(b)) /\ Cardinality(sold) \in Nat
        BY <2>2, <2>3, FS_Subset, FS_CardinalityType
    <2>5. Cardinality(HeldCopies(b)) <= supply[b]
        <3>1. CASE b \in listed
            BY <2>1, <2>2, <3>1 DEF StockConserved
        <3>2. CASE b \notin listed
            <4>1. HeldCopies(b) = {}
                BY <2>1, <3>2 DEF ReservedBooksListed, HeldCopies, Holding
            <4>2. Cardinality(HeldCopies(b)) = 0
                BY <4>1, FS_EmptySet
            <4> QED
                BY <2>2, <4>2
        <3> QED
            BY <3>1, <3>2
    <2>6. Cardinality(sold) <= supply[b]
        BY <2>2, <2>4, <2>5
    <2> QED
        BY <2>6 DEF sold
<1> QED
    BY <1>1, CalmSafety, PTL
=============================================================================
