----------------------------- MODULE StockProofs -----------------------------
(***************************************************************************)
(* For every set of books and orders and every quantity bound, the stock   *)
(* contract conserves the copies the shop owns.                            *)
(***************************************************************************)
EXTENDS StockContract, FiniteSetTheorems, TLAPS

\* The copies of b held for one order.
CopiesOf(o, q) == {o} \X (1..q)

(* The three facts that are inductive together: a release needs the type   *)
(* of the stock, a new book needs that no reservation mentions it.         *)
StockInv == StockTypeOK /\ StockConserved /\ ReservedBooksListed

-----------------------------------------------------------------------------
(* Quantities are natural numbers.                                         *)
LEMMA QuantityNat == \A q \in 0..MaxQuantity : q \in Nat
BY StockAssumption

(* A line of q copies counts q in the copies held.                         *)
LEMMA CopiesOfCount ==
    ASSUME NEW o, NEW q \in Nat
    PROVE  IsFiniteSet(CopiesOf(o, q)) /\ Cardinality(CopiesOf(o, q)) = q
<1> DEFINE S == {o}
           T == 1..q
<1>1. IsFiniteSet(S) /\ Cardinality(S) = 1
    BY FS_Singleton
<1>2. IsFiniteSet(T) /\ Cardinality(T) = q
    BY FS_Interval
<1>3. CopiesOf(o, q) = S \X T
    BY DEF CopiesOf
<1> HIDE DEF S, T
<1>4. IsFiniteSet(S \X T) /\ Cardinality(S \X T) = Cardinality(S) * Cardinality(T)
    BY <1>1, <1>2, FS_Product
<1> QED
    BY <1>1, <1>2, <1>3, <1>4

(* The copies held are finite, so that counting them makes sense.          *)
LEMMA HeldFinite ==
    ASSUME NEW b
    PROVE  IsFiniteSet(HeldCopies(b)) /\ Cardinality(HeldCopies(b)) \in Nat
<1> DEFINE T == 1..MaxQuantity
<1>1. IsFiniteSet(T)
    BY FS_Interval, StockAssumption
<1>2. HeldCopies(b) \subseteq Orders \X T
    BY DEF HeldCopies
<1> HIDE DEF T
<1>3. IsFiniteSet(Orders \X T)
    BY <1>1, FS_Product, OrdersAssumption
<1>4. IsFiniteSet(HeldCopies(b))
    BY <1>2, <1>3, FS_Subset
<1> QED
    BY <1>4, FS_CardinalityType

(* Adding a line of q copies to a set that holds none of them adds q.      *)
LEMMA LineCounts ==
    ASSUME NEW S, IsFiniteSet(S), NEW o, NEW q \in Nat,
           S \cap CopiesOf(o, q) = {}
    PROVE  Cardinality(S \cup CopiesOf(o, q)) = Cardinality(S) + q
<1> DEFINE T == CopiesOf(o, q)
<1>1. IsFiniteSet(T) /\ Cardinality(T) = q
    BY CopiesOfCount
<1>2. Cardinality(S \cap T) = 0
    BY FS_EmptySet
<1> HIDE DEF T
<1>3. Cardinality(S \cup T) = Cardinality(S) + Cardinality(T) - Cardinality(S \cap T)
    BY <1>1, FS_Union
<1>4. Cardinality(S) \in Nat
    BY FS_CardinalityType
<1>5. Cardinality(S \cup T) = Cardinality(S) + q
    BY <1>1, <1>2, <1>3, <1>4
<1> QED
    BY <1>5 DEF T

-----------------------------------------------------------------------------
(* A new reservation of q copies moves q copies from the shelf to the      *)
(* order and touches no other book.                                        *)
LEMMA ReserveMoves ==
    ASSUME StockInv, NEW o \in Orders, NEW b \in Books, NEW q \in 1..MaxQuantity,
           ReserveStock(o, b, q), resState[o][b] = "none"
    PROVE  /\ Cardinality(HeldCopies(b)') = Cardinality(HeldCopies(b)) + q
           /\ \A c \in Books \ {b} : HeldCopies(c)' = HeldCopies(c)
<1> USE DEF StockInv, StockTypeOK
<1>1. q \in 0..MaxQuantity /\ q \in Nat
    BY QuantityNat, StockAssumption
<1>2. HeldCopies(b)' = HeldCopies(b) \cup CopiesOf(o, q)
    BY StockAssumption DEF HeldCopies, CopiesOf, ReserveStock, Holding, ReservationStates
<1>3. HeldCopies(b) \cap CopiesOf(o, q) = {}
    BY DEF HeldCopies, CopiesOf, Holding
<1>4. ASSUME NEW c \in Books \ {b}
      PROVE  HeldCopies(c)' = HeldCopies(c)
    <2>1. \A p \in Orders : resState'[p][c] = resState[p][c] /\ resQuantity'[p][c] = resQuantity[p][c]
        BY DEF ReserveStock
    <2> QED
        BY <2>1 DEF HeldCopies
<1> QED
    BY <1>1, <1>2, <1>3, <1>4, LineCounts, HeldFinite

(* A release of a held line moves its copies back to the shelf.            *)
LEMMA ReleaseMoves ==
    ASSUME StockInv, NEW o \in Orders, NEW b \in Books,
           ReleaseStock(o, b), resState[o][b] \in Holding
    PROVE  /\ Cardinality(HeldCopies(b)) = Cardinality(HeldCopies(b)') + resQuantity[o][b]
           /\ Cardinality(HeldCopies(b)') \in Nat
           /\ \A c \in Books \ {b} : HeldCopies(c)' = HeldCopies(c)
<1> USE DEF StockInv, StockTypeOK
<1> DEFINE q == resQuantity[o][b]
<1>1. q \in 0..MaxQuantity /\ q \in Nat
    BY QuantityNat
<1>2. IsFiniteSet(HeldCopies(b)') /\ Cardinality(HeldCopies(b)') \in Nat
    <2>1. HeldCopies(b)' \subseteq HeldCopies(b)
        BY DEF HeldCopies, ReleaseStock, Holding
    <2> QED
        BY <2>1, HeldFinite, FS_Subset, FS_CardinalityType
<1>3. HeldCopies(b) = HeldCopies(b)' \cup CopiesOf(o, q)
    <2>1. ASSUME NEW x
          PROVE  x \in HeldCopies(b) <=> x \in HeldCopies(b)' \cup CopiesOf(o, q)
        BY <1>1, StockAssumption DEF HeldCopies, CopiesOf, ReleaseStock, Holding
    <2> QED
        BY <2>1
<1>4. HeldCopies(b)' \cap CopiesOf(o, q) = {}
    BY DEF HeldCopies, CopiesOf, ReleaseStock, Holding
<1>5. ASSUME NEW c \in Books \ {b}
      PROVE  HeldCopies(c)' = HeldCopies(c)
    <2>1. \A p \in Orders : resState'[p][c] = resState[p][c] /\ resQuantity'[p][c] = resQuantity[p][c]
        BY DEF ReleaseStock
    <2> QED
        BY <2>1 DEF HeldCopies
<1>6. Cardinality(HeldCopies(b)' \cup CopiesOf(o, q)) = Cardinality(HeldCopies(b)') + q
    BY <1>1, <1>2, <1>4, LineCounts
<1> QED
    BY <1>2, <1>3, <1>5, <1>6

(* Every other operation leaves the copies held alone.                     *)
LEMMA HeldUnchanged ==
    ASSUME StockInv, NEW o \in Orders, NEW b \in Books,
           CommitStock(o, b) \/ UNCHANGED <<resState, resQuantity>>
    PROVE  \A c \in Books : HeldCopies(c)' = HeldCopies(c)
<1> USE DEF StockInv, StockTypeOK
<1> TAKE c \in Books
<1>1. CASE CommitStock(o, b)
    <2>1. \A p \in Orders : /\ resState'[p][c] \in Holding <=> resState[p][c] \in Holding
                           /\ resQuantity'[p][c] = resQuantity[p][c]
        BY <1>1 DEF CommitStock, CommitAccepted, Holding
    <2> QED
        BY <2>1 DEF HeldCopies
<1>2. CASE UNCHANGED <<resState, resQuantity>>
    BY <1>2 DEF HeldCopies
<1> QED
    BY <1>1, <1>2

-----------------------------------------------------------------------------
(* No reservation mentions a book that is not listed, so a new row starts  *)
(* with nothing held.                                                      *)
LEMMA UnlistedHoldsNothing ==
    ASSUME StockInv, NEW b \in Books, b \notin listed
    PROVE  Cardinality(HeldCopies(b)) = 0
<1>1. HeldCopies(b) = {}
    BY DEF StockInv, ReservedBooksListed, HeldCopies, Holding
<1> QED
    BY <1>1, FS_EmptySet

(* The empty catalogue holds nothing for anybody.                          *)
LEMMA StockInvInit == StockInit => StockInv
<1> SUFFICES ASSUME StockInit PROVE StockInv
    OBVIOUS
<1>1. StockTypeOK
    BY StockAssumption DEF StockInit, StockTypeOK, ReservationStates
<1>2. StockConserved /\ ReservedBooksListed
    BY DEF StockInit, StockConserved, ReservedBooksListed
<1> QED
    BY <1>1, <1>2 DEF StockInv

(* Writing one status keeps the table of statuses well formed.             *)
LEMMA StateWrite ==
    ASSUME NEW f \in [Orders -> [Books -> ReservationStates]],
           NEW o \in Orders, NEW b \in Books, NEW s \in ReservationStates
    PROVE  [f EXCEPT ![o][b] = s] \in [Orders -> [Books -> ReservationStates]]
OBVIOUS

(* Likewise for the table of quantities.                                   *)
LEMMA QuantityWrite ==
    ASSUME NEW f \in [Orders -> [Books -> 0..MaxQuantity]],
           NEW o \in Orders, NEW b \in Books, NEW q \in 0..MaxQuantity
    PROVE  [f EXCEPT ![o][b] = q] \in [Orders -> [Books -> 0..MaxQuantity]]
OBVIOUS

(* Every operation writes values of the right type; a reservation never    *)
(* drives the stock below zero.                                            *)
LEMMA StockTypeStep ==
    ASSUME StockInv, [StockNext]_stockVars
    PROVE  StockTypeOK'
<1> USE StockAssumption DEF StockInv, StockTypeOK, ReservationStates, Holding
<1>1. ASSUME NEW o \in Orders, NEW b \in Books, NEW q \in 1..MaxQuantity, ReserveStock(o, b, q)
      PROVE  StockTypeOK'
    <2>1. CASE resState[o][b] = "none"
        <3>1. stock[b] - q \in Nat
            BY <1>1, <2>1 DEF ReserveStock, ReserveAccepted
        <3>2. stock' \in [Books -> Nat]
            BY <1>1, <2>1, <3>1 DEF ReserveStock
        <3>3. resState' \in [Orders -> [Books -> ReservationStates]]
            <4>1. "reserved" \in ReservationStates
                OBVIOUS
            <4>2. resState' = [resState EXCEPT ![o][b] = "reserved"]
                BY <1>1, <2>1 DEF ReserveStock
            <4> HIDE DEF ReservationStates
            <4> QED
                BY <4>1, <4>2, StateWrite
        <3>4. resQuantity' \in [Orders -> [Books -> 0..MaxQuantity]]
            <4>1. q \in 0..MaxQuantity
                OBVIOUS
            <4>2. resQuantity' = [resQuantity EXCEPT ![o][b] = q]
                BY <1>1, <2>1 DEF ReserveStock
            <4> QED
                BY <4>1, <4>2, QuantityWrite
        <3> QED
            BY <1>1, <2>1, <3>2, <3>3, <3>4 DEF ReserveStock
    <2>2. CASE resState[o][b] # "none"
        BY <1>1, <2>2 DEF ReserveStock, stockVars
    <2> QED
        BY <2>1, <2>2
<1>2. ASSUME NEW o \in Orders, NEW b \in Books, CommitStock(o, b)
      PROVE  StockTypeOK'
    BY <1>2 DEF CommitStock
<1>3. ASSUME NEW o \in Orders, NEW b \in Books, ReleaseStock(o, b)
      PROVE  StockTypeOK'
    <2>1. stock[b] + resQuantity[o][b] \in Nat
        BY QuantityNat
    <2>2. stock' \in [Books -> Nat]
        BY <1>3, <2>1 DEF ReleaseStock, stockVars
    <2>3. resState' \in [Orders -> [Books -> ReservationStates]]
        <3>1. "released" \in ReservationStates
            OBVIOUS
        <3>2. resState' = [resState EXCEPT ![o][b] = "released"] \/ resState' = resState
            BY <1>3 DEF ReleaseStock, stockVars
        <3> HIDE DEF ReservationStates
        <3>3. [resState EXCEPT ![o][b] = "released"] \in [Orders -> [Books -> ReservationStates]]
            BY <3>1, StateWrite
        <3> QED
            BY <3>2, <3>3
    <2> QED
        BY <1>3, <2>2, <2>3 DEF ReleaseStock, stockVars
<1>4. ASSUME NEW b \in Books, NEW n \in 0..MaxStock, CreateBook(b, n)
      PROVE  StockTypeOK'
    BY <1>4 DEF CreateBook
<1>5. ASSUME NEW b \in Books, NEW n \in 0..MaxStock, UpdateBook(b, n)
      PROVE  StockTypeOK'
    <2>1. Cardinality(HeldCopies(b)) \in Nat /\ n \in Nat
        BY HeldFinite
    <2>2. n + Cardinality(HeldCopies(b)) \in Nat
        BY <2>1
    <2> HIDE DEF StockInv
    <2> QED
        BY <1>5, <2>1, <2>2 DEF UpdateBook, StockInv
<1>6. ASSUME NEW b \in Books, DeleteBook(b)
      PROVE  StockTypeOK'
    BY <1>6 DEF DeleteBook
<1>7. CASE UNCHANGED stockVars
    BY <1>7 DEF stockVars
<1> QED
    BY <1>1, <1>2, <1>3, <1>4, <1>5, <1>6, <1>7 DEF StockNext

(* Every operation keeps the copies of a book in balance.                  *)
LEMMA ConservedStep ==
    ASSUME StockInv, [StockNext]_stockVars
    PROVE  StockConserved'
<1> USE DEF StockInv, StockTypeOK
<1> SUFFICES ASSUME NEW c \in Books, c \in listed'
             PROVE  stock'[c] + Cardinality(HeldCopies(c)') = supply'[c]
    BY StockTypeStep DEF StockConserved
<1>0. /\ c \in listed => stock[c] + Cardinality(HeldCopies(c)) = supply[c]
      /\ stock[c] \in Nat /\ supply[c] \in Nat /\ Cardinality(HeldCopies(c)) \in Nat
    BY HeldFinite DEF StockConserved
<1>1. ASSUME NEW o \in Orders, NEW b \in Books, NEW q \in 1..MaxQuantity, ReserveStock(o, b, q)
      PROVE  stock'[c] + Cardinality(HeldCopies(c)') = supply'[c]
    <2>1. CASE resState[o][b] = "none"
        <3>1. /\ Cardinality(HeldCopies(b)') = Cardinality(HeldCopies(b)) + q
              /\ c # b => Cardinality(HeldCopies(c)') = Cardinality(HeldCopies(c))
            BY <1>1, <2>1, ReserveMoves
        <3>2. b \in listed /\ stock' = [stock EXCEPT ![b] = @ - q] /\ UNCHANGED <<listed, supply>>
            BY <1>1, <2>1 DEF ReserveStock, ReserveAccepted, Holding
        <3>3. q \in Nat
            BY StockAssumption
        <3> QED
            BY <1>0, <3>1, <3>2, <3>3
    <2>2. CASE resState[o][b] # "none"
        BY <1>0, <1>1, <2>2, HeldUnchanged DEF ReserveStock, stockVars
    <2> QED
        BY <2>1, <2>2
<1>2. ASSUME NEW o \in Orders, NEW b \in Books, CommitStock(o, b)
      PROVE  stock'[c] + Cardinality(HeldCopies(c)') = supply'[c]
    BY <1>0, <1>2, HeldUnchanged DEF CommitStock
<1>3. ASSUME NEW o \in Orders, NEW b \in Books, ReleaseStock(o, b)
      PROVE  stock'[c] + Cardinality(HeldCopies(c)') = supply'[c]
    <2>1. CASE resState[o][b] \in Holding
        <3>1. /\ Cardinality(HeldCopies(b)) = Cardinality(HeldCopies(b)') + resQuantity[o][b]
              /\ Cardinality(HeldCopies(b)') \in Nat
              /\ c # b => Cardinality(HeldCopies(c)') = Cardinality(HeldCopies(c))
            BY <1>3, <2>1, ReleaseMoves
        <3>2. /\ stock' = [stock EXCEPT ![b] = @ + resQuantity[o][b]]
              /\ UNCHANGED <<listed, supply>>
            BY <1>3, <2>1 DEF ReleaseStock
        <3>3. resQuantity[o][b] \in Nat
            BY QuantityNat
        <3> QED
            BY <1>0, <3>1, <3>2, <3>3
    <2>2. CASE resState[o][b] \notin Holding
        BY <1>0, <1>3, <2>2, HeldUnchanged DEF ReleaseStock, stockVars
    <2> QED
        BY <2>1, <2>2
<1>4. ASSUME NEW b \in Books, NEW n \in 0..MaxStock, CreateBook(b, n)
      PROVE  stock'[c] + Cardinality(HeldCopies(c)') = supply'[c]
    BY <1>0, <1>4, UnlistedHoldsNothing, StockAssumption DEF CreateBook, HeldCopies
<1>5. ASSUME NEW b \in Books, NEW n \in 0..MaxStock, UpdateBook(b, n)
      PROVE  stock'[c] + Cardinality(HeldCopies(c)') = supply'[c]
    BY <1>0, <1>5, StockAssumption DEF UpdateBook, HeldCopies
<1>6. ASSUME NEW b \in Books, DeleteBook(b)
      PROVE  stock'[c] + Cardinality(HeldCopies(c)') = supply'[c]
    BY <1>0, <1>6 DEF DeleteBook, HeldCopies
<1>7. CASE UNCHANGED stockVars
    BY <1>0, <1>7 DEF stockVars, HeldCopies
<1> QED
    BY <1>1, <1>2, <1>3, <1>4, <1>5, <1>6, <1>7 DEF StockNext

(* No operation removes a book that a reservation names.                   *)
LEMMA ListedStep ==
    ASSUME StockInv, [StockNext]_stockVars
    PROVE  ReservedBooksListed'
<1> USE DEF StockInv, StockTypeOK, ReservedBooksListed
<1>1. ASSUME NEW o \in Orders, NEW b \in Books, NEW q \in 1..MaxQuantity, ReserveStock(o, b, q)
      PROVE  ReservedBooksListed'
    BY <1>1 DEF ReserveStock, ReserveAccepted, Holding, stockVars
<1>2. ASSUME NEW o \in Orders, NEW b \in Books, CommitStock(o, b)
      PROVE  ReservedBooksListed'
    BY <1>2 DEF CommitStock, CommitAccepted, Holding
<1>3. ASSUME NEW o \in Orders, NEW b \in Books, ReleaseStock(o, b)
      PROVE  ReservedBooksListed'
    BY <1>3 DEF ReleaseStock, Holding, stockVars
<1>4. ASSUME NEW b \in Books, \/ \E n \in 0..MaxStock : CreateBook(b, n) \/ UpdateBook(b, n)
                             \/ DeleteBook(b)
      PROVE  ReservedBooksListed'
    BY <1>4 DEF CreateBook, UpdateBook, DeleteBook
<1>5. CASE UNCHANGED stockVars
    BY <1>5 DEF stockVars
<1> QED
    BY <1>1, <1>2, <1>3, <1>4, <1>5 DEF StockNext

-----------------------------------------------------------------------------
(* Every behaviour of the stock contract keeps its rows well formed, never *)
(* lets a stock go negative, and conserves the copies the shop owns, for   *)
(* any number of books and orders (ReserveStock, transitionReservation,    *)
(* Create, Update and Delete in repository.go).                            *)
THEOREM StockSafety == StockSpec => [](StockTypeOK /\ StockConserved /\ ReservedBooksListed)
<1>1. StockInv /\ [StockNext]_stockVars => StockInv'
    BY StockTypeStep, ConservedStep, ListedStep DEF StockInv
<1>2. StockSpec => []StockInv
    BY StockInvInit, <1>1, PTL DEF StockSpec
<1> QED
    BY <1>2, PTL DEF StockInv

(* A reservation only moves forward and its quantity is fixed for life     *)
(* (transitionReservation, BR-BOOK-005).                                   *)
THEOREM ReservationLife == StockSpec => ReservationsOnlyAdvance
<1>1. ASSUME StockInv, [StockNext]_stockVars, NEW p \in Orders, NEW c \in Books
      PROVE  ReservationStep(p, c)
    <2> USE <1>1 DEF StockInv, StockTypeOK, ReservationStep, ReservationStates, Holding
    <2>1. ASSUME NEW o \in Orders, NEW b \in Books, NEW q \in 1..MaxQuantity, ReserveStock(o, b, q)
          PROVE  ReservationStep(p, c)
        BY <2>1 DEF ReserveStock, stockVars
    <2>2. ASSUME NEW o \in Orders, NEW b \in Books, CommitStock(o, b)
          PROVE  ReservationStep(p, c)
        BY <2>2 DEF CommitStock, CommitAccepted
    <2>3. ASSUME NEW o \in Orders, NEW b \in Books, ReleaseStock(o, b)
          PROVE  ReservationStep(p, c)
        BY <2>3 DEF ReleaseStock, stockVars
    <2>4. CASE UNCHANGED <<resState, resQuantity>>
        BY <2>4
    <2> QED
        BY <2>1, <2>2, <2>3, <2>4 DEF StockNext, CreateBook, UpdateBook, DeleteBook, stockVars
<1>2. StockInv /\ [StockNext]_stockVars =>
          [\A o \in Orders, b \in Books : ReservationStep(o, b)]_stockVars
    BY <1>1
<1>3. StockSpec => []StockInv
    BY StockSafety, PTL DEF StockInv
<1> QED
    BY <1>2, <1>3, PTL DEF StockSpec, ReservationsOnlyAdvance
=============================================================================
