---------------------------- MODULE StockContract ----------------------------
(***************************************************************************)
(* What the Book Service promises the Order Service about stock: one       *)
(* reservation per (order, book), taken from and given back to the shelf   *)
(* in one atomic step.  Source: internal/book/adapter/postgres/            *)
(* repository.go, whose transactions BookStock describes step by step.     *)
(***************************************************************************)
EXTENDS Integers, OrderIds

CONSTANTS
    Books,          \* identities a book row may have
    MaxQuantity,    \* largest quantity of one order line (100 in the service)
    MaxStock        \* bound: largest stock an administrator types in

ASSUME StockAssumption ==
    /\ MaxQuantity \in Nat \ {0}
    /\ MaxStock \in Nat

VARIABLES
    listed,         \* books that have a row in catalog.books
    stock,          \* column stock of each listed book
    resState,       \* status of the reservation row of (order, book), or "none"
    resQuantity,    \* its quantity, 0 when there is no row
    supply          \* history: copies on the shelf or promised to an order

stockVars == <<listed, stock, resState, resQuantity, supply>>

ReservationStates == {"none", "reserved", "committed", "released"}
Holding == {"reserved", "committed"}

StockTypeOK ==
    /\ listed \subseteq Books
    /\ stock \in [Books -> Nat]
    /\ resState \in [Orders -> [Books -> ReservationStates]]
    /\ resQuantity \in [Orders -> [Books -> 0..MaxQuantity]]
    /\ supply \in [Books -> Nat]

\* The copies of b that some order holds, one element per copy.
HeldCopies(b) ==
    {c \in Orders \X (1..MaxQuantity) :
        resState[c[1]][b] \in Holding /\ c[2] <= resQuantity[c[1]][b]}

StockInit ==
    /\ listed = {}
    /\ stock = [b \in Books |-> 0]
    /\ resState = [o \in Orders |-> [b \in Books |-> "none"]]
    /\ resQuantity = [o \in Orders |-> [b \in Books |-> 0]]
    /\ supply = [b \in Books |-> 0]

-----------------------------------------------------------------------------
(* Whether the service answers OK, as a function of the committed rows.    *)

\* Mutation: the stock is not compared with the quantity.
ReserveAcceptedUnchecked(o, b, q) ==
    \/ resState[o][b] \in Holding /\ resQuantity[o][b] = q
    \/ resState[o][b] = "none" /\ b \in listed

ReserveAccepted(o, b, q) ==
    \/ /\ resState[o][b] \in Holding
       /\ resQuantity[o][b] = q
    \/ /\ resState[o][b] = "none"
       /\ b \in listed
       /\ stock[b] >= q

CommitAccepted(o, b) == resState[o][b] \in Holding

\* A missing reservation is NotFound, which the Order Service takes for success
\* (adapter/grpcclient/book.go); a released one is already in the target state.
ReleaseAccepted(o, b) == resState[o][b] \in ReservationStates

-----------------------------------------------------------------------------
ReserveStock(o, b, q) ==
    /\ ReserveAccepted(o, b, q)
    /\ IF resState[o][b] = "none"
       THEN /\ stock' = [stock EXCEPT ![b] = @ - q]
            /\ resState' = [resState EXCEPT ![o][b] = "reserved"]
            /\ resQuantity' = [resQuantity EXCEPT ![o][b] = q]
            /\ UNCHANGED <<listed, supply>>
       ELSE UNCHANGED stockVars

CommitStock(o, b) ==
    /\ CommitAccepted(o, b)
    /\ resState' = [resState EXCEPT ![o][b] = "committed"]
    /\ UNCHANGED <<listed, stock, resQuantity, supply>>

\* Gives the copies back, from a committed reservation as well.
ReleaseStock(o, b) ==
    /\ ReleaseAccepted(o, b)
    /\ IF resState[o][b] \in Holding
       THEN /\ stock' = [stock EXCEPT ![b] = @ + resQuantity[o][b]]
            /\ resState' = [resState EXCEPT ![o][b] = "released"]
            /\ UNCHANGED <<listed, resQuantity, supply>>
       ELSE UNCHANGED stockVars

CreateBook(b, n) ==
    /\ b \notin listed
    /\ listed' = listed \cup {b}
    /\ stock' = [stock EXCEPT ![b] = n]
    /\ supply' = [supply EXCEPT ![b] = n]
    /\ UNCHANGED <<resState, resQuantity>>

\* An edit writes the stock column as an absolute number.
UpdateBook(b, n) ==
    /\ b \in listed
    /\ stock' = [stock EXCEPT ![b] = n]
    /\ supply' = [supply EXCEPT ![b] = n + Cardinality(HeldCopies(b))]
    /\ UNCHANGED <<listed, resState, resQuantity>>

\* ON DELETE RESTRICT: refused while any reservation row names the book.
DeleteBook(b) ==
    /\ b \in listed
    /\ \A o \in Orders : resState[o][b] = "none"
    /\ listed' = listed \ {b}
    /\ stock' = [stock EXCEPT ![b] = 0]
    /\ supply' = [supply EXCEPT ![b] = 0]
    /\ UNCHANGED <<resState, resQuantity>>

StockNext ==
    \E b \in Books :
        \/ \E o \in Orders, q \in 1..MaxQuantity : ReserveStock(o, b, q)
        \/ \E o \in Orders : CommitStock(o, b)
        \/ \E o \in Orders : ReleaseStock(o, b)
        \/ \E n \in 0..MaxStock : CreateBook(b, n)
        \/ \E n \in 0..MaxStock : UpdateBook(b, n)
        \/ DeleteBook(b)

StockSpec == StockInit /\ [][StockNext]_stockVars

-----------------------------------------------------------------------------
(* Every copy the shop owns is either on the shelf or held by exactly the  *)
(* orders whose reservation is reserved or committed: no release gives a   *)
(* copy back twice and no reservation takes one it does not record         *)
(* (ReserveStock, transitionReservation in repository.go).                 *)
StockConserved ==
    \A b \in listed : stock[b] + Cardinality(HeldCopies(b)) = supply[b]

(* A book that any reservation row mentions is still in the catalogue, so  *)
(* a release always finds the row it has to give the copies back to        *)
(* (fk_stock_reservations_book, BR-BOOK-006).                              *)
ReservedBooksListed ==
    \A o \in Orders, b \in Books : resState[o][b] # "none" => b \in listed

(* The life of a reservation: its quantity never changes once written, a   *)
(* released one never holds stock again, a committed one never goes back   *)
(* to reserved (transitionReservation, BR-BOOK-005).                       *)
ReservationStep(o, b) ==
    /\ resState[o][b] # "none" => resQuantity'[o][b] = resQuantity[o][b]
    /\ resState[o][b] = "released" => resState'[o][b] = "released"
    /\ resState[o][b] = "committed" => resState'[o][b] \in {"committed", "released"}

ReservationsOnlyAdvance ==
    [][\A o \in Orders, b \in Books : ReservationStep(o, b)]_stockVars
=============================================================================
