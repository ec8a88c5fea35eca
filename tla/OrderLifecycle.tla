---------------------------- MODULE OrderLifecycle ----------------------------
(***************************************************************************)
(* What the readers of an order may rely on (customer, notifications,      *)
(* analytics): its status moves along the edges below, never back, and     *)
(* every status it takes is announced in the outbox exactly once, in       *)
(* order.  Source: internal/order/domain/order.go and the callers of       *)
(* UpdateOrderState and BeginPayment.                                      *)
(***************************************************************************)
EXTENDS Sequences, OrderIds

VARIABLES status, events

lifecycleVars == <<status, events>>

Edges == {<<"none", "pending">>,
          <<"pending", "stock_reserved">>, <<"pending", "cancelled">>,
          <<"pending", "compensation_pending">>,
          <<"stock_reserved", "payment_pending">>, <<"stock_reserved", "compensation_pending">>,
          <<"payment_pending", "confirmed">>, <<"payment_pending", "cancelled">>,
          <<"payment_pending", "compensation_pending">>,
          <<"compensation_pending", "cancelled">>}

Init ==
    /\ status = [o \in Orders |-> "none"]
    /\ events = [o \in Orders |-> <<>>]

Advance(o, target) ==
    /\ <<status[o], target>> \in Edges
    /\ status' = [status EXCEPT ![o] = target]
    /\ events' = [events EXCEPT ![o] = Append(@, target)]

Next == \E o \in Orders : \E edge \in Edges : Advance(o, edge[2])

Spec == Init /\ [][Next]_lifecycleVars
=============================================================================
