------------------------------ MODULE BookStock ------------------------------
(***************************************************************************)
(* The stock transactions of the Book Service, statement by statement,     *)
(* under PostgreSQL's READ COMMITTED: a statement sees committed rows,     *)
(* SELECT ... FOR UPDATE and UPDATE wait for the row lock and then see the *)
(* latest row, locks are kept until commit or rollback.  Writes become     *)
(* visible in the single step that commits.  Refines StockContract.        *)
(***************************************************************************)
EXTENDS StockContract

CONSTANTS
    Txs,            \* database connections, each running one transaction at a time
    Free            \* the owner of a row lock nobody holds

ASSUME TxAssumption == Free \notin Txs /\ Books # {}

VARIABLES
    tx,             \* what each connection is doing
    bookLock,       \* owner of the lock on each catalog.books row
    resLock         \* owner of the lock on each catalog.stock_reservations row

txVars == <<tx, bookLock, resLock>>
vars == <<stockVars, txVars>>

Kinds == {"reserve", "commit", "release", "update", "delete"}
\* start: first statement to come; book: waits for the book row; check: a delete
\* holds the book row and looks for reservations; ready: every lock held and
\* every check passed, about to commit.
TxPcs == {"idle", "start", "book", "check", "ready", "ok", "refused", "aborted"}

TxTypeOK ==
    /\ StockTypeOK
    /\ tx \in [Txs -> [pc: TxPcs, kind: Kinds, o: Orders, b: Books, q: 0..(MaxQuantity + MaxStock)]]
    /\ bookLock \in [Books -> Txs \cup {Free}]
    /\ resLock \in [Orders -> [Books -> Txs \cup {Free}]]

Init ==
    /\ StockInit
    /\ tx \in [Txs -> [pc: {"idle"}, kind: {"update"}, q: {0},
                       o: {CHOOSE o \in Orders : TRUE}, b: {CHOOSE b \in Books : TRUE}]]
    /\ bookLock = [b \in Books |-> Free]
    /\ resLock = [o \in Orders |-> [b \in Books |-> Free]]

Running(t) == tx[t].pc \in {"start", "book", "check", "ready"}
Advance(t, pc) == tx' = [tx EXCEPT ![t].pc = pc]

\* Mutation: a transaction that ends keeps its reservation lock.
UnlockBookOnly(t) ==
    /\ bookLock' = [b \in Books |-> IF bookLock[b] = t THEN Free ELSE bookLock[b]]
    /\ UNCHANGED resLock

\* COMMIT and ROLLBACK free every row lock of the transaction.
Unlock(t) ==
    /\ bookLock' = [b \in Books |-> IF bookLock[b] = t THEN Free ELSE bookLock[b]]
    /\ resLock' = [o \in Orders |-> [b \in Books |-> IF resLock[o][b] = t THEN Free ELSE resLock[o][b]]]

End(t, answer) == Advance(t, answer) /\ Unlock(t)
Refuse(t, answer) == End(t, answer) /\ UNCHANGED stockVars

-----------------------------------------------------------------------------
Call(t, kind, o, b, q) ==
    /\ ~Running(t)
    /\ tx' = [tx EXCEPT ![t] = [pc |-> "start", kind |-> kind, o |-> o, b |-> b, q |-> q]]
    /\ UNCHANGED <<stockVars, bookLock, resLock>>

\* The order of a book edit plays no part: it is left as it was.
Begin(t) ==
    \E b \in Books :
        \/ \E o \in Orders, q \in 1..MaxQuantity : Call(t, "reserve", o, b, q)
        \/ \E o \in Orders, kind \in {"commit", "release"} : Call(t, kind, o, b, 0)
        \/ \E n \in 0..MaxStock : Call(t, "update", tx[t].o, b, n)
        \/ Call(t, "delete", tx[t].o, b, 0)

\* First statement of ReserveStock: an unlocked read answers a repeated call.
ReserveLookup(t) ==
    LET o == tx[t].o  b == tx[t].b  q == tx[t].q IN
    /\ tx[t].pc = "start" /\ tx[t].kind = "reserve"
    /\ IF resState[o][b] = "none"
       THEN Advance(t, "book") /\ UNCHANGED <<bookLock, resLock>>
       ELSE End(t, IF ReserveAccepted(o, b, q) THEN "ok" ELSE "refused")
    /\ UNCHANGED stockVars

\* Mutation: the book row is read without FOR UPDATE.
ReserveUnlocked(t) ==
    LET o == tx[t].o  b == tx[t].b  q == tx[t].q IN
    /\ tx[t].pc = "book" /\ tx[t].kind = "reserve"
    /\ IF resState[o][b] = "none" /\ ReserveAccepted(o, b, q)
       THEN Advance(t, "ready") /\ UNCHANGED <<stockVars, bookLock, resLock>>
       ELSE Refuse(t, IF ReserveAccepted(o, b, q) THEN "ok" ELSE "refused")

\* Mutation: no second lookup, so that the insertion runs into the unique index.
ReserveLockedOnce(t) ==
    LET o == tx[t].o  b == tx[t].b  q == tx[t].q IN
    /\ tx[t].pc = "book" /\ tx[t].kind = "reserve"
    /\ bookLock[b] = Free
    /\ IF b \in listed /\ stock[b] >= q
       THEN /\ bookLock' = [bookLock EXCEPT ![b] = t]
            /\ Advance(t, "ready")
            /\ UNCHANGED <<stockVars, resLock>>
       ELSE Refuse(t, "refused")

\* Under the lock of the book row the reservation is looked up again, then the
\* stock is compared.
ReserveLocked(t) ==
    LET o == tx[t].o  b == tx[t].b  q == tx[t].q IN
    /\ tx[t].pc = "book" /\ tx[t].kind = "reserve"
    /\ bookLock[b] = Free
    /\ IF resState[o][b] = "none" /\ ReserveAccepted(o, b, q)
       THEN /\ bookLock' = [bookLock EXCEPT ![b] = t]
            /\ Advance(t, "ready")
            /\ UNCHANGED <<stockVars, resLock>>
       ELSE Refuse(t, IF ReserveAccepted(o, b, q) THEN "ok" ELSE "refused")

\* UNIQUE (order_id, book_id) rolls back a second insertion.
ReserveCommit(t) ==
    LET o == tx[t].o  b == tx[t].b  q == tx[t].q IN
    /\ tx[t].pc = "ready" /\ tx[t].kind = "reserve"
    /\ \/ /\ resState[o][b] = "none"
          /\ stock' = [stock EXCEPT ![b] = @ - q]
          /\ resState' = [resState EXCEPT ![o][b] = "reserved"]
          /\ resQuantity' = [resQuantity EXCEPT ![o][b] = q]
          /\ UNCHANGED <<listed, supply>>
          /\ End(t, "ok")
       \/ resState[o][b] # "none" /\ Refuse(t, "refused")

\* Mutation: the reservation row is read without FOR UPDATE.
TransitionUnlocked(t) ==
    LET o == tx[t].o  b == tx[t].b
        target == IF tx[t].kind = "commit" THEN "committed" ELSE "released" IN
    /\ tx[t].pc = "start" /\ tx[t].kind \in {"commit", "release"}
    /\ IF resState[o][b] \in {"none", "released", target}
       THEN Refuse(t, IF resState[o][b] = target THEN "ok" ELSE "refused")
       ELSE /\ Advance(t, IF target = "released" THEN "book" ELSE "ready")
            /\ UNCHANGED <<stockVars, bookLock, resLock>>

\* Mutation: a released reservation may be committed.
TransitionReviving(t) ==
    LET o == tx[t].o  b == tx[t].b
        target == IF tx[t].kind = "commit" THEN "committed" ELSE "released" IN
    /\ tx[t].pc = "start" /\ tx[t].kind \in {"commit", "release"}
    /\ resLock[o][b] = Free
    /\ IF resState[o][b] \in {"none", target}
       THEN Refuse(t, IF resState[o][b] = target THEN "ok" ELSE "refused")
       ELSE /\ resLock' = [resLock EXCEPT ![o][b] = t]
            /\ Advance(t, IF target = "released" THEN "book" ELSE "ready")
            /\ UNCHANGED <<stockVars, bookLock>>

\* SELECT ... FOR UPDATE on the reservation row, then the checks of
\* transitionReservation; a release goes on to lock the book row.
TransitionLocked(t) ==
    LET o == tx[t].o  b == tx[t].b
        target == IF tx[t].kind = "commit" THEN "committed" ELSE "released" IN
    /\ tx[t].pc = "start" /\ tx[t].kind \in {"commit", "release"}
    /\ resLock[o][b] = Free
    /\ \/ /\ resState[o][b] \in {"none", "released", target}
          /\ Refuse(t, IF resState[o][b] = target THEN "ok" ELSE "refused")
       \/ /\ resState[o][b] \notin {"none", "released", target}
          /\ resLock' = [resLock EXCEPT ![o][b] = t]
          /\ Advance(t, IF target = "released" THEN "book" ELSE "ready")
          /\ UNCHANGED <<stockVars, bookLock>>

ReleaseLockBook(t) ==
    /\ tx[t].pc = "book" /\ tx[t].kind = "release"
    /\ bookLock[tx[t].b] = Free
    /\ bookLock' = [bookLock EXCEPT ![tx[t].b] = t]
    /\ Advance(t, "ready")
    /\ UNCHANGED <<stockVars, resLock>>

\* Mutation: the copies are not given back.
TransitionKeepingStock(t) ==
    LET o == tx[t].o  b == tx[t].b IN
    /\ tx[t].pc = "ready" /\ tx[t].kind \in {"commit", "release"}
    /\ resState' = [resState EXCEPT ![o][b] = IF tx[t].kind = "release" THEN "released" ELSE "committed"]
    /\ UNCHANGED <<listed, stock, resQuantity, supply>>
    /\ End(t, "ok")

TransitionCommit(t) ==
    LET o == tx[t].o  b == tx[t].b IN
    /\ tx[t].pc = "ready" /\ tx[t].kind \in {"commit", "release"}
    /\ IF tx[t].kind = "release"
       THEN /\ stock' = [stock EXCEPT ![b] = @ + resQuantity[o][b]]
            /\ resState' = [resState EXCEPT ![o][b] = "released"]
       ELSE /\ resState' = [resState EXCEPT ![o][b] = "committed"]
            /\ UNCHANGED stock
    /\ UNCHANGED <<listed, resQuantity, supply>>
    /\ End(t, "ok")

\* UPDATE and DELETE lock the row they find.
EditLocked(t) ==
    LET b == tx[t].b IN
    /\ tx[t].pc = "start" /\ tx[t].kind \in {"update", "delete"}
    /\ bookLock[b] = Free
    /\ IF b \in listed
       THEN /\ bookLock' = [bookLock EXCEPT ![b] = t]
            /\ Advance(t, IF tx[t].kind = "delete" THEN "check" ELSE "ready")
            /\ UNCHANGED <<stockVars, resLock>>
       ELSE Refuse(t, "refused")

\* Mutation: the reservations have no foreign key to the book.
DeleteUnchecked(t) ==
    tx[t].pc = "check" /\ Advance(t, "ready") /\ UNCHANGED <<stockVars, bookLock, resLock>>

\* The foreign key of a DELETE reads the reservations of the book FOR KEY SHARE,
\* which waits for a row that a commit or a release has locked.
DeleteCheck(t) ==
    LET b == tx[t].b IN
    /\ tx[t].pc = "check"
    /\ \/ /\ \A o \in Orders : resState[o][b] = "none"
          /\ Advance(t, "ready") /\ UNCHANGED <<stockVars, bookLock, resLock>>
       \/ /\ \E o \in Orders : resState[o][b] # "none" /\ resLock[o][b] = Free
          /\ Refuse(t, "refused")

EditCommit(t) ==
    LET b == tx[t].b  n == IF tx[t].kind = "update" THEN tx[t].q ELSE 0 IN
    /\ tx[t].pc = "ready" /\ tx[t].kind \in {"update", "delete"}
    /\ stock' = [stock EXCEPT ![b] = n]
    /\ supply' = [supply EXCEPT ![b] = n + Cardinality(HeldCopies(b))]
    /\ listed' = IF tx[t].kind = "delete" THEN listed \ {b} ELSE listed
    /\ UNCHANGED <<resState, resQuantity>>
    /\ End(t, "ok")

\* INSERT of a new row: nobody can hold its lock before it commits.
Create(b, n) == CreateBook(b, n) /\ UNCHANGED txVars

\* The deadline of the call, a lost connection or a crash rolls back.
Abort(t) == Running(t) /\ Refuse(t, "aborted")

\* A delete holds the book and waits for a reservation; a release holds the
\* reservation and waits for the book.  PostgreSQL notices and aborts one.
WaitsFor(t, u) ==
    LET b == tx[t].b IN
    \/ tx[t].pc = "book" /\ bookLock[b] = u
    \/ tx[t].pc = "check" /\ \E o \in Orders : resLock[o][b] = u

DeadlockVictim(t) == (\E u \in Txs : WaitsFor(t, u) /\ WaitsFor(u, t)) /\ Refuse(t, "aborted")

Work(t) ==
    \/ ReserveLookup(t) \/ ReserveLocked(t) \/ ReserveCommit(t)
    \/ TransitionLocked(t) \/ ReleaseLockBook(t) \/ TransitionCommit(t)
    \/ EditLocked(t) \/ DeleteCheck(t) \/ EditCommit(t)

Next ==
    \/ \E t \in Txs : Begin(t) \/ Work(t) \/ DeadlockVictim(t) \/ Abort(t)
    \/ \E b \in Books, n \in 0..MaxStock : Create(b, n)

\* PostgreSQL grants a contended row lock in turn, so a transaction that can
\* proceed again and again proceeds; its deadlock detector runs after a second.
Fairness ==
    /\ \A t \in Txs : SF_vars(Work(t))
    /\ WF_vars(\E t \in Txs : DeadlockVictim(t))

Spec == Init /\ [][Next]_vars
FairSpec == Spec /\ Fairness

-----------------------------------------------------------------------------
(* What the caller is told is what the rows say at the moment it is told:  *)
(* a repeated ReserveStock of a line the order still holds is never        *)
(* refused, and OK is never said of a line it does not hold (AC-ORDER-01;  *)
(* the second lookup in ReserveStock exists for two concurrent repeats).   *)
HonestAnswer(t) ==
    LET o == tx[t].o  b == tx[t].b  q == tx[t].q IN
    tx[t].kind = "reserve" /\ tx'[t].pc \in {"ok", "refused"} =>
        LET holds == resState'[o][b] \in Holding /\ resQuantity'[o][b] = q IN
        /\ tx'[t].pc = "ok" => holds
        /\ tx'[t].pc = "refused" => ~holds

HonestAnswers == [][\A t \in Txs : Running(t) => HonestAnswer(t)]_vars

(* Every call returns: a reservation and the book it names are locked in   *)
(* one order by every call but a delete, and the cycle a delete can close  *)
(* with a release is broken by the database (repository.go, Delete and     *)
(* transitionReservation).                                                 *)
CallsReturn == \A t \in Txs : Running(t) ~> ~Running(t)
=============================================================================
