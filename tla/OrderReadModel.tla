---------------------------- MODULE OrderReadModel ----------------------------
(***************************************************************************)
(* The analytics row of one order: ApplyOrderEvent in                      *)
(* internal/analytics/adapter/postgres/repository.go.  The Order Service   *)
(* announces the statuses of the order, each with the clock its replica    *)
(* read before it had the row; records come from Kafka any number of times *)
(* and, after dead letters, in any order.  An event is its position in the *)
(* order's history.                                                        *)
(***************************************************************************)
EXTENDS Naturals, Sequences

CONSTANT Clocks     \* values of occurred_at

\* 0 is NULL, or the clock of no event.
ASSUME ClockAssumption == Clocks \subseteq Nat \ {0}

VARIABLES
    announced,      \* the order's rows in orders.outbox_events: status, clock, failure stage
    received,       \* analytics.kafka_inbox_events
    overtaken,      \* events handled after a later one (history)
    lifecycle       \* the row of analytics.order_lifecycle, last = 0 when there is none

readModelVars == <<announced, received, overtaken, lifecycle>>

Status == IF announced = <<>> THEN "none" ELSE announced[Len(announced)].status

\* The statuses come as OrderSaga is shown to announce them.
Contract == INSTANCE OrderLifecycle WITH
    Orders <- {"order"},
    status <- [o \in {"order"} |-> Status],
    events <- [o \in {"order"} |-> [i \in 1..Len(announced) |-> announced[i].status]]

\* The columns each status fills in: eventTimes and terminalEventTimes.
Fills == {<<"stock_reserved", "stock_reserved_at">>, <<"payment_pending", "payment_pending_at">>,
          <<"confirmed", "payment_succeeded_at">>, <<"confirmed", "confirmed_at">>,
          <<"compensation_pending", "payment_succeeded_at">>,
          <<"compensation_pending", "compensation_pending_at">>,
          <<"cancelled", "cancelled_at">>, <<"cancelled", "payment_failed_at">>}
Columns == {fill[2] : fill \in Fills}

Sets(event, c) ==
    <<event.status, c>> \in Fills /\ (c = "payment_failed_at" => event.stage = "payment")

ReadModelInit ==
    /\ announced = <<>>
    /\ received = {} /\ overtaken = {}
    /\ lifecycle = [last |-> 0, at |-> 0, created |-> 0, stamps |-> [c \in Columns |-> 0], stage |-> ""]

\* failureStage of the next status; "customer" is an order claimed by its customer,
\* which is possible only before it is paid.
Stages(target) ==
    CASE target = "compensation_pending" -> {"stock_commit"}
      [] target = "cancelled" /\ Status = "pending" -> {"stock_reservation"}
      [] target = "cancelled" /\ Status = "payment_pending" -> {"payment"}
      [] target = "cancelled" /\ Status = "compensation_pending" ->
            IF announced[Len(announced) - 1].status = "payment_pending"
              THEN {"compensation"} ELSE {"compensation", "customer"}
      [] OTHER -> {""}

\* writeOrderEvent: the order takes its next status and announces it.
Announce(target, clock) ==
    /\ <<Status, target>> \in Contract!Edges
    /\ \E stage \in Stages(target) :
           announced' = Append(announced, [status |-> target, at |-> clock, stage |-> stage])
    /\ UNCHANGED <<received, overtaken, lifecycle>>

Inserted(i) ==
    LET event == announced[i] IN
    [last |-> i, at |-> event.at, created |-> event.at, stage |-> event.stage,
     stamps |-> [c \in Columns |-> IF Sets(event, c) THEN event.at ELSE 0]]

\* Mutation: the row's state is that of the event handled last.
UpsertAlways(i) ==
    IF lifecycle.last = 0 THEN Inserted(i)
    ELSE LET new == Inserted(i) IN
         [new EXCEPT !.created = lifecycle.created,
                     !.stamps = [c \in Columns |-> IF lifecycle.stamps[c] # 0 THEN lifecycle.stamps[c] ELSE @[c]]]

\* ON CONFLICT DO UPDATE: the state is of the event with the later clock, the new one
\* if they are equal; a timestamp or failure stage that is set stays; created_at, set
\* by the event that came first, is never touched.
Upsert(i) ==
    IF lifecycle.last = 0 THEN Inserted(i)
    ELSE LET new == Inserted(i)
             newer == new.at >= lifecycle.at IN
         [last |-> IF newer THEN i ELSE lifecycle.last,
          at |-> IF newer THEN new.at ELSE lifecycle.at,
          created |-> lifecycle.created,
          stamps |-> [c \in Columns |->
                        IF lifecycle.stamps[c] # 0 THEN lifecycle.stamps[c] ELSE new.stamps[c]],
          stage |-> IF lifecycle.stage = "" /\ newer THEN new.stage ELSE lifecycle.stage]

\* An event that is in the inbox is acknowledged and changes nothing.
ApplyOrderEvent(i) ==
    /\ i \notin received
    /\ received' = received \cup {i}
    /\ overtaken' = IF \E j \in received : j > i THEN overtaken \cup {i} ELSE overtaken
    /\ lifecycle' = Upsert(i)
    /\ UNCHANGED announced

ReadModelNext ==
    \/ \E edge \in Contract!Edges, clock \in Clocks : Announce(edge[2], clock)
    \/ \E i \in 1..Len(announced) : ApplyOrderEvent(i)

ReadModelSpec == ReadModelInit /\ [][ReadModelNext]_readModelVars

-----------------------------------------------------------------------------
\* What the report shows of an order depends on the events handled so far, not on
\* their order: the state is of the event with the greatest clock, and each timestamp
\* is that of the one event that has it (for payment_succeeded_at, of the two that
\* never happen to one order).  Where the order of handling does count, events
\* handled in their own order are shown right: of equal clocks the newest event wins,
\* and created_at is the clock of order.created.
ReadModelConverges ==
    received # {} =>
        /\ lifecycle.last \in received
        /\ \A i \in received :
            /\ announced[i].at <= announced[lifecycle.last].at
            /\ announced[i].at = announced[lifecycle.last].at /\ i > lifecycle.last
                   => lifecycle.last \in overtaken
        /\ \A c \in Columns :
            /\ \A i \in received : Sets(announced[i], c) => lifecycle.stamps[c] = announced[i].at
            /\ lifecycle.stamps[c] # 0 => \E i \in received : Sets(announced[i], c)
        /\ 1 \in received \ overtaken => lifecycle.created = announced[1].at
=============================================================================
