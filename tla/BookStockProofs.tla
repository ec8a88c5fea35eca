--------------------------- MODULE BookStockProofs ---------------------------
(***************************************************************************)
(* The stock transactions, with their row locks, implement the stock       *)
(* contract: each one takes effect in the single step that commits it, on  *)
(* rows that are still as its checks found them.  From this the transac-   *)
(* tions inherit what StockProofs proves of the contract, for any number   *)
(* of connections, books and orders.                                       *)
(***************************************************************************)
EXTENDS BookStock, StockProofs

\* A connection and the call it is at.
CallRecord == [pc: TxPcs, kind: Kinds, o: Orders, b: Books, q: 0..(MaxQuantity + MaxStock)]

LocksTypeOK ==
    /\ tx \in [Txs -> CallRecord]
    /\ bookLock \in [Books -> Txs \cup {Free}]
    /\ resLock \in [Orders -> [Books -> Txs \cup {Free}]]

HasBook(t) == tx[t].pc = "check" \/ (tx[t].pc = "ready" /\ tx[t].kind # "commit")
HasReservation(t) == tx[t].pc \in {"book", "ready"} /\ tx[t].kind \in {"commit", "release"}

\* What a transaction has made sure of: the locks it holds, and what its checks
\* found under them, which still holds when it commits.
Secured(t) ==
    /\ tx[t].kind = "reserve" => tx[t].q \in 1..MaxQuantity
    /\ tx[t].kind = "update" => tx[t].q \in 0..MaxStock
    /\ tx[t].pc = "check" => tx[t].kind = "delete"
    /\ tx[t].pc = "book" => tx[t].kind \in {"reserve", "release"}
    /\ HasBook(t) => bookLock[tx[t].b] = t
    /\ HasBook(t) /\ tx[t].kind # "release" => tx[t].b \in listed
    /\ HasReservation(t) => /\ resLock[tx[t].o][tx[t].b] = t
                            /\ resState[tx[t].o][tx[t].b] \in Holding
    /\ tx[t].pc = "ready" /\ tx[t].kind = "reserve" =>
           stock[tx[t].b] >= tx[t].q /\ resState[tx[t].o][tx[t].b] = "none"
    /\ tx[t].pc = "ready" /\ tx[t].kind = "delete" =>
           \A o \in Orders : resState[o][tx[t].b] = "none"

TxInv == StockInv /\ LocksTypeOK /\ \A t \in Txs : Secured(t)

\* What a step of t leaves to transaction u: its call, its locks, and the rows
\* under them.
Spares(u) ==
    /\ tx'[u] = tx[u]
    /\ \A b \in Books : bookLock[b] = u =>
           /\ bookLock'[b] = u
           /\ b \in listed => b \in listed' /\ stock'[b] = stock[b]
           /\ \A o \in Orders : resState[o][b] = "none" => resState'[o][b] = "none"
    /\ \A o \in Orders, b \in Books : resLock[o][b] = u =>
           /\ resLock'[o][b] = u
           /\ resState[o][b] \in Holding => resState'[o][b] = resState[o][b]

\* What every step of t is to do.
TxStep(t) ==
    /\ [StockNext]_stockVars /\ LocksTypeOK' /\ Secured(t)'
    /\ \A u \in Txs \ {t} : Spares(u)
    /\ Running(t) => HonestAnswer(t)

-----------------------------------------------------------------------------
(* Writing the program counter of a call.                                  *)
LEMMA CallWrite ==
    ASSUME NEW r \in CallRecord, NEW p \in TxPcs
    PROVE  /\ [r EXCEPT !.pc = p] \in CallRecord
           /\ [r EXCEPT !.pc = p].pc = p /\ [r EXCEPT !.pc = p].kind = r.kind
           /\ [r EXCEPT !.pc = p].o = r.o /\ [r EXCEPT !.pc = p].b = r.b /\ [r EXCEPT !.pc = p].q = r.q
BY DEF CallRecord

(* Advancing one transaction.                                              *)
LEMMA AdvanceWrites ==
    ASSUME LocksTypeOK, NEW t \in Txs, NEW p \in TxPcs, Advance(t, p)
    PROVE  /\ tx' \in [Txs -> CallRecord]
           /\ tx'[t].pc = p /\ tx'[t].kind = tx[t].kind
           /\ tx'[t].o = tx[t].o /\ tx'[t].b = tx[t].b /\ tx'[t].q = tx[t].q
           /\ \A u \in Txs \ {t} : tx'[u] = tx[u]
<1> DEFINE r == [tx[t] EXCEPT !.pc = p]
<1>1. tx \in [Txs -> CallRecord] /\ tx[t] \in CallRecord
    BY DEF LocksTypeOK
<1>2. /\ r \in CallRecord /\ r.pc = p /\ r.kind = tx[t].kind
      /\ r.o = tx[t].o /\ r.b = tx[t].b /\ r.q = tx[t].q
    BY <1>1, CallWrite
<1>3. tx' = [tx EXCEPT ![t] = r]
    BY DEF Advance
<1> HIDE DEF r
<1> QED
    BY <1>1, <1>2, <1>3

(* What a call is made of.                                                 *)
LEMMA CallTypes ==
    ASSUME LocksTypeOK, NEW t \in Txs
    PROVE  tx[t].pc \in TxPcs /\ tx[t].kind \in Kinds /\ tx[t].o \in Orders /\ tx[t].b \in Books
BY DEF LocksTypeOK, CallRecord

(* A transaction whose rows are spared has secured what it had.            *)
LEMMA SparedStays ==
    ASSUME TxInv, NEW u \in Txs, Spares(u)
    PROVE  Secured(u)'
<1>1. tx[u].o \in Orders /\ tx[u].b \in Books /\ Secured(u) /\ tx'[u] = tx[u]
    BY CallTypes DEF TxInv, Spares
<1> QED
    BY <1>1 DEF Secured, Spares, HasBook, HasReservation

(* COMMIT and ROLLBACK free the locks of the transaction and no other.     *)
LEMMA EndFrees ==
    ASSUME TxInv, NEW t \in Txs, NEW answer \in {"ok", "refused", "aborted"}, End(t, answer)
    PROVE  /\ LocksTypeOK' /\ Secured(t)'
           /\ tx'[t].pc = answer /\ tx'[t].kind = tx[t].kind
           /\ \A u \in Txs \ {t} :
                  /\ tx'[u] = tx[u]
                  /\ \A b \in Books : bookLock[b] = u => bookLock'[b] = u
                  /\ \A o \in Orders, b \in Books : resLock[o][b] = u => resLock'[o][b] = u
<1>1. answer \in TxPcs /\ LocksTypeOK /\ Advance(t, answer) /\ Secured(t)
    BY DEF TxPcs, TxInv, End
<1>2. /\ tx' \in [Txs -> CallRecord]
      /\ tx'[t].pc = answer /\ tx'[t].kind = tx[t].kind /\ tx'[t].q = tx[t].q
      /\ \A u \in Txs \ {t} : tx'[u] = tx[u]
    BY <1>1, AdvanceWrites
<1>3. /\ bookLock' \in [Books -> Txs \cup {Free}]
      /\ resLock' \in [Orders -> [Books -> Txs \cup {Free}]]
      /\ \A u \in Txs \ {t} :
             /\ \A b \in Books : bookLock[b] = u => bookLock'[b] = u
             /\ \A o \in Orders, b \in Books : resLock[o][b] = u => resLock'[o][b] = u
    BY <1>1 DEF LocksTypeOK, End, Unlock
<1>4. Secured(t)'
    BY <1>1, <1>2 DEF Secured, HasBook, HasReservation
<1> QED
    BY <1>2, <1>3, <1>4 DEF LocksTypeOK

(* A call that ends without effect, with an answer the rows bear out.      *)
LEMMA RefuseStep ==
    ASSUME TxInv, NEW t \in Txs, NEW answer \in {"ok", "refused", "aborted"}, Refuse(t, answer),
           tx[t].kind = "reserve" =>
               LET holds == resState[tx[t].o][tx[t].b] \in Holding /\ resQuantity[tx[t].o][tx[t].b] = tx[t].q
               IN  (answer = "ok" => holds) /\ (answer = "refused" => ~holds)
    PROVE  TxStep(t)
<1>1. End(t, answer) /\ UNCHANGED stockVars
    BY DEF Refuse
<1>2. /\ LocksTypeOK' /\ Secured(t)' /\ tx'[t].pc = answer
      /\ \A u \in Txs \ {t} :
                  /\ tx'[u] = tx[u]
                  /\ \A b \in Books : bookLock[b] = u => bookLock'[b] = u
                  /\ \A o \in Orders, b \in Books : resLock[o][b] = u => resLock'[o][b] = u
    BY <1>1, EndFrees
<1>3. \A u \in Txs \ {t} : Spares(u)
    BY <1>1, <1>2 DEF Spares, stockVars
<1>4. HonestAnswer(t)
    BY <1>1, <1>2 DEF HonestAnswer, stockVars
<1> QED
    BY <1>1, <1>2, <1>3, <1>4 DEF TxStep

(* A call that goes on, perhaps with one more lock that nobody held.       *)
LEMMA GoOnStep ==
    ASSUME TxInv, NEW t \in Txs, NEW p \in {"book", "check", "ready"}, Advance(t, p), UNCHANGED stockVars,
           \/ UNCHANGED bookLock
           \/ bookLock[tx[t].b] = Free /\ bookLock' = [bookLock EXCEPT ![tx[t].b] = t],
           \/ UNCHANGED resLock
           \/ resLock[tx[t].o][tx[t].b] = Free /\ resLock' = [resLock EXCEPT ![tx[t].o][tx[t].b] = t],
           Secured(t)'
    PROVE  TxStep(t)
<1>1. p \in TxPcs /\ LocksTypeOK /\ tx[t].o \in Orders /\ tx[t].b \in Books
    BY CallTypes DEF TxPcs, TxInv
<1>2. /\ tx' \in [Txs -> CallRecord] /\ tx'[t].pc = p
      /\ \A u \in Txs \ {t} : tx'[u] = tx[u]
    BY <1>1, AdvanceWrites
<1>3. /\ bookLock' \in [Books -> Txs \cup {Free}]
      /\ \A u \in Txs \ {t} : \A b \in Books : bookLock[b] = u => bookLock'[b] = u
    BY <1>1, TxAssumption DEF LocksTypeOK
<1>4. resLock' \in [Orders -> [Books -> Txs \cup {Free}]]
    BY <1>1 DEF LocksTypeOK
<1>5. \A u \in Txs \ {t} : \A o \in Orders, b \in Books : resLock[o][b] = u => resLock'[o][b] = u
    BY <1>1, TxAssumption DEF LocksTypeOK
<1>6. \A u \in Txs \ {t} : Spares(u)
    BY <1>2, <1>3, <1>5 DEF Spares, stockVars
<1>7. HonestAnswer(t)
    BY <1>2 DEF HonestAnswer
<1> QED
    BY <1>2, <1>3, <1>4, <1>6, <1>7 DEF TxStep, LocksTypeOK

-----------------------------------------------------------------------------
(* The call of a transaction, and an edit of a book.                       *)
LEMMA BeginStep ==
    ASSUME TxInv, NEW t \in Txs, Begin(t)
    PROVE  TxStep(t)
<1>1. tx \in [Txs -> CallRecord] /\ tx[t].o \in Orders /\ ~Running(t)
    BY CallTypes DEF TxInv, LocksTypeOK, Begin, Call
<1>2. PICK kind \in Kinds, o \in Orders, b \in Books, q \in 0..(MaxQuantity + MaxStock) :
          /\ Call(t, kind, o, b, q)
          /\ kind = "reserve" => q \in 1..MaxQuantity
          /\ kind = "update" => q \in 0..MaxStock
    BY <1>1, StockAssumption DEF Begin, Kinds
<1> DEFINE r == [pc |-> "start", kind |-> kind, o |-> o, b |-> b, q |-> q]
<1>3. r \in CallRecord /\ r.pc = "start" /\ r.kind = kind /\ r.q = q
    BY DEF CallRecord, TxPcs
<1>4. tx' = [tx EXCEPT ![t] = r] /\ UNCHANGED <<stockVars, bookLock, resLock>>
    BY <1>2 DEF Call
<1> HIDE DEF r
<1>5. tx' \in [Txs -> CallRecord] /\ tx'[t] = r /\ \A u \in Txs \ {t} : tx'[u] = tx[u]
    BY <1>1, <1>3, <1>4
<1>6. Secured(t)'
    BY <1>2, <1>3, <1>5 DEF Secured, HasBook, HasReservation
<1>7. \A u \in Txs \ {t} : Spares(u)
    BY <1>4, <1>5 DEF Spares, stockVars
<1>8. LocksTypeOK'
    BY <1>4, <1>5 DEF TxInv, LocksTypeOK
<1> QED
    BY <1>1, <1>4, <1>6, <1>7, <1>8 DEF TxStep

(* The first, unlocked, lookup of a reservation answers a repeated call.   *)
LEMMA ReserveLookupStep ==
    ASSUME TxInv, NEW t \in Txs, ReserveLookup(t)
    PROVE  TxStep(t)
<1> DEFINE o == tx[t].o
           b == tx[t].b
           q == tx[t].q
<1>1. CASE resState[o][b] = "none"
    <2>1. Advance(t, "book") /\ UNCHANGED <<stockVars, bookLock, resLock>> /\ tx[t].kind = "reserve"
        BY <1>1 DEF ReserveLookup
    <2>2. tx'[t].pc = "book" /\ tx'[t].kind = "reserve" /\ tx'[t].q = tx[t].q
        BY <2>1, AdvanceWrites DEF TxInv, TxPcs
    <2>3. Secured(t)'
        BY <2>1, <2>2 DEF TxInv, Secured, HasBook, HasReservation
    <2> QED
        BY <2>1, <2>3, GoOnStep
<1>2. CASE resState[o][b] # "none"
    <2>1. PICK answer \in {"ok", "refused"} :
              Refuse(t, answer) /\ (answer = "ok" <=> ReserveAccepted(o, b, q))
        BY <1>2 DEF ReserveLookup, Refuse
    <2>2. ReserveAccepted(o, b, q) <=> resState[o][b] \in Holding /\ resQuantity[o][b] = q
        BY <1>2 DEF ReserveAccepted
    <2> QED
        BY <2>1, <2>2, RefuseStep
<1> QED
    BY <1>1, <1>2

(* The second lookup, once the row of the book is locked.                  *)
LEMMA ReserveLockedStep ==
    ASSUME TxInv, NEW t \in Txs, ReserveLocked(t)
    PROVE  TxStep(t)
<1> DEFINE o == tx[t].o
           b == tx[t].b
           q == tx[t].q
<1>0. o \in Orders /\ b \in Books /\ tx[t].kind = "reserve" /\ bookLock[b] = Free
    BY CallTypes DEF TxInv, ReserveLocked
<1>1. CASE resState[o][b] = "none" /\ ReserveAccepted(o, b, q)
    <2>1. /\ Advance(t, "ready") /\ UNCHANGED <<stockVars, resLock>>
          /\ bookLock' = [bookLock EXCEPT ![b] = t]
        BY <1>1 DEF ReserveLocked
    <2>2. tx'[t].pc = "ready" /\ tx'[t].kind = "reserve" /\ tx'[t].o = o /\ tx'[t].b = b /\ tx'[t].q = q
        BY <1>0, <2>1, AdvanceWrites DEF TxInv, TxPcs
    <2>3. bookLock'[b] = t
        BY <1>0, <2>1 DEF TxInv, LocksTypeOK
    <2>4. b \in listed /\ stock[b] >= q
        BY <1>1 DEF ReserveAccepted, Holding
    <2>5. tx[t].kind = "reserve" /\ Secured(t) /\ UNCHANGED <<listed, stock, resState>>
        BY <1>0, <2>1 DEF TxInv, stockVars
    <2>6. Secured(t)'
        BY <1>1, <2>2, <2>3, <2>4, <2>5 DEF Secured, HasBook, HasReservation
    <2> QED
        BY <1>0, <2>1, <2>6, GoOnStep
<1>2. CASE ~(resState[o][b] = "none" /\ ReserveAccepted(o, b, q))
    <2>1. PICK answer \in {"ok", "refused"} :
              Refuse(t, answer) /\ (answer = "ok" <=> ReserveAccepted(o, b, q))
        BY <1>2 DEF ReserveLocked
    <2>2. ReserveAccepted(o, b, q) <=> resState[o][b] \in Holding /\ resQuantity[o][b] = q
        BY <1>2 DEF ReserveAccepted, Holding
    <2> QED
        BY <2>1, <2>2, RefuseStep
<1> QED
    BY <1>1, <1>2

(* The insertion: the lock of the book has kept stock and rows as checked. *)
LEMMA ReserveCommitStep ==
    ASSUME TxInv, NEW t \in Txs, ReserveCommit(t)
    PROVE  TxStep(t)
<1> DEFINE o == tx[t].o
           b == tx[t].b
           q == tx[t].q
<1>1. /\ o \in Orders /\ b \in Books /\ tx[t].kind = "reserve" /\ tx[t].pc = "ready"
      /\ q \in 1..MaxQuantity /\ bookLock[b] = t /\ b \in listed
      /\ stock[b] >= q /\ resState[o][b] = "none"
    BY CallTypes DEF TxInv, ReserveCommit, Secured, HasBook
<1>2. /\ stock' = [stock EXCEPT ![b] = @ - q]
      /\ resState' = [resState EXCEPT ![o][b] = "reserved"]
      /\ resQuantity' = [resQuantity EXCEPT ![o][b] = q]
      /\ UNCHANGED <<listed, supply>> /\ End(t, "ok")
    BY <1>1 DEF ReserveCommit
<1>3. /\ LocksTypeOK' /\ Secured(t)'
      /\ \A u \in Txs \ {t} :
                  /\ tx'[u] = tx[u]
                  /\ \A c \in Books : bookLock[c] = u => bookLock'[c] = u
                  /\ \A p \in Orders, c \in Books : resLock[p][c] = u => resLock'[p][c] = u
    BY <1>2, EndFrees
<1>4. ReserveStock(o, b, q)
    BY <1>1, <1>2 DEF ReserveStock, ReserveAccepted
<1>5. [StockNext]_stockVars
    BY <1>1, <1>4 DEF StockNext
<1> HIDE DEF o, b, q
<1>6. /\ \A c \in Books : c # b => stock'[c] = stock[c] /\ \A p \in Orders : resState'[p][c] = resState[p][c]
      /\ \A p \in Orders : p # o => resState'[p][b] = resState[p][b]
      /\ resState'[o][b] = "reserved" /\ resQuantity'[o][b] = q
    BY <1>1, <1>2 DEF TxInv, StockInv, StockTypeOK
<1>7. \A u \in Txs \ {t} : Spares(u)
    BY <1>1, <1>2, <1>3, <1>6 DEF Spares, Holding
<1>8. HonestAnswer(t)
    BY <1>2, <1>6, EndFrees DEF HonestAnswer, Holding, o, b, q
<1> QED
    BY <1>3, <1>5, <1>7, <1>8 DEF TxStep

(* The reservation is locked, and is neither missing nor where it should   *)
(* go already.                                                             *)
LEMMA TransitionLockedStep ==
    ASSUME TxInv, NEW t \in Txs, TransitionLocked(t)
    PROVE  TxStep(t)
<1> DEFINE o == tx[t].o
           b == tx[t].b
           target == IF tx[t].kind = "commit" THEN "committed" ELSE "released"
           p == IF target = "released" THEN "book" ELSE "ready"
<1>0. o \in Orders /\ b \in Books /\ tx[t].kind \in {"commit", "release"} /\ resLock[o][b] = Free
    BY CallTypes DEF TxInv, TransitionLocked
<1>1. CASE Refuse(t, IF resState[o][b] = target THEN "ok" ELSE "refused")
    BY <1>0, <1>1, RefuseStep
<1>2. CASE /\ resState[o][b] \notin {"none", "released", target}
           /\ resLock' = [resLock EXCEPT ![o][b] = t]
           /\ Advance(t, p) /\ UNCHANGED <<stockVars, bookLock>>
    <2>1. p \in {"book", "ready"} /\ p \in TxPcs /\ (tx[t].kind = "commit" <=> p = "ready")
        BY <1>0 DEF TxPcs
    <2>2. tx'[t].pc = p /\ tx'[t].kind = tx[t].kind /\ tx'[t].o = o /\ tx'[t].b = b
        BY <1>2, <2>1, AdvanceWrites DEF TxInv
    <2>3. resLock'[o][b] = t
        BY <1>0, <1>2 DEF TxInv, LocksTypeOK
    <2>4. resState[o][b] \in Holding
        BY <1>0, <1>2 DEF TxInv, StockInv, StockTypeOK, ReservationStates, Holding
    <2>5. UNCHANGED <<listed, stock, resState>>
        BY <1>2 DEF stockVars
    <2> HIDE DEF p
    <2>6. Secured(t)'
        BY <1>0, <2>1, <2>2, <2>3, <2>4, <2>5 DEF Secured, HasBook, HasReservation
    <2> QED
        BY <1>0, <1>2, <2>1, <2>6, GoOnStep
<1> QED
    BY <1>1, <1>2 DEF TransitionLocked

(* A release goes on to lock the book.                                     *)
LEMMA ReleaseLockBookStep ==
    ASSUME TxInv, NEW t \in Txs, ReleaseLockBook(t)
    PROVE  TxStep(t)
<1> DEFINE o == tx[t].o
           b == tx[t].b
<1>1. /\ o \in Orders /\ b \in Books /\ tx[t].kind = "release" /\ tx[t].pc = "book" /\ bookLock[b] = Free
      /\ resLock[o][b] = t /\ resState[o][b] \in Holding
      /\ Advance(t, "ready") /\ UNCHANGED <<stockVars, resLock>>
      /\ bookLock' = [bookLock EXCEPT ![b] = t]
    BY CallTypes DEF TxInv, ReleaseLockBook, Secured, HasReservation
<1>2. tx'[t].pc = "ready" /\ tx'[t].kind = "release" /\ tx'[t].o = o /\ tx'[t].b = b
    BY <1>1, AdvanceWrites DEF TxInv, TxPcs
<1>3. bookLock'[b] = t
    BY <1>1 DEF TxInv, LocksTypeOK
<1>4. UNCHANGED <<listed, stock, resState, resLock>>
    BY <1>1 DEF stockVars
<1>5. Secured(t)'
    BY <1>1, <1>2, <1>3, <1>4 DEF Secured, HasBook, HasReservation
<1> QED
    BY <1>1, <1>5, GoOnStep

(* A commit or a release of a reservation that is still held.              *)
LEMMA TransitionCommitStep ==
    ASSUME TxInv, NEW t \in Txs, TransitionCommit(t)
    PROVE  TxStep(t)
<1> DEFINE o == tx[t].o
           b == tx[t].b
<1>1. /\ o \in Orders /\ b \in Books /\ tx[t].kind \in {"commit", "release"} /\ tx[t].pc = "ready"
      /\ resLock[o][b] = t /\ resState[o][b] \in Holding
      /\ tx[t].kind = "release" => bookLock[b] = t
    BY CallTypes DEF TxInv, TransitionCommit, Secured, HasReservation, HasBook
<1>2. /\ \/ /\ tx[t].kind = "release"
            /\ stock' = [stock EXCEPT ![b] = @ + resQuantity[o][b]]
            /\ resState' = [resState EXCEPT ![o][b] = "released"]
         \/ /\ tx[t].kind = "commit"
            /\ resState' = [resState EXCEPT ![o][b] = "committed"]
            /\ UNCHANGED stock
      /\ UNCHANGED <<listed, resQuantity, supply>> /\ End(t, "ok")
    BY <1>1 DEF TransitionCommit
<1>3. /\ LocksTypeOK' /\ Secured(t)'
      /\ \A u \in Txs \ {t} :
                  /\ tx'[u] = tx[u]
                  /\ \A c \in Books : bookLock[c] = u => bookLock'[c] = u
                  /\ \A p \in Orders, c \in Books : resLock[p][c] = u => resLock'[p][c] = u
    BY <1>2, EndFrees
<1>4. ReleaseStock(o, b) \/ CommitStock(o, b)
    BY <1>1, <1>2 DEF ReleaseStock, ReleaseAccepted, CommitStock, CommitAccepted, Holding, ReservationStates
<1>5. [StockNext]_stockVars
    BY <1>1, <1>4 DEF StockNext
<1> HIDE DEF o, b
<1>6. /\ \A c \in Books : c # b => stock'[c] = stock[c]
      /\ tx[t].kind = "commit" => stock' = stock
      /\ \A p \in Orders, c \in Books : p # o \/ c # b => resState'[p][c] = resState[p][c]
    BY <1>1, <1>2 DEF TxInv, StockInv, StockTypeOK
<1>7. resState[o][b] # "none"
    BY <1>1 DEF Holding
<1>8. \A u \in Txs \ {t} : Spares(u)
    BY <1>1, <1>2, <1>3, <1>6, <1>7 DEF Spares
<1>9. HonestAnswer(t)
    BY <1>1 DEF HonestAnswer
<1> QED
    BY <1>3, <1>5, <1>8, <1>9 DEF TxStep

(* An edit or a deletion finds and locks the book.                         *)
LEMMA EditLockedStep ==
    ASSUME TxInv, NEW t \in Txs, EditLocked(t)
    PROVE  TxStep(t)
<1> DEFINE b == tx[t].b
           p == IF tx[t].kind = "delete" THEN "check" ELSE "ready"
<1>0. b \in Books /\ tx[t].kind \in {"update", "delete"} /\ bookLock[b] = Free
    BY CallTypes DEF TxInv, EditLocked
<1>1. CASE b \in listed
    <2>1. /\ Advance(t, p) /\ UNCHANGED <<stockVars, resLock>>
          /\ bookLock' = [bookLock EXCEPT ![b] = t]
        BY <1>1 DEF EditLocked
    <2>2. p \in {"check", "ready"} /\ p \in TxPcs /\ (tx[t].kind = "delete" <=> p = "check")
        BY <1>0 DEF TxPcs
    <2>3. tx'[t].pc = p /\ tx'[t].kind = tx[t].kind /\ tx'[t].b = b /\ tx'[t].q = tx[t].q
        BY <2>1, <2>2, AdvanceWrites DEF TxInv
    <2>4. bookLock'[b] = t
        BY <1>0, <2>1 DEF TxInv, LocksTypeOK
    <2>5. UNCHANGED <<listed, stock, resState>> /\ Secured(t)
        BY <2>1 DEF stockVars, TxInv
    <2> HIDE DEF p
    <2>6. Secured(t)'
        BY <1>0, <1>1, <2>2, <2>3, <2>4, <2>5 DEF Secured, HasBook, HasReservation
    <2> QED
        BY <1>0, <2>1, <2>2, <2>6, GoOnStep
<1>2. CASE b \notin listed
    <2>1. Refuse(t, "refused")
        BY <1>2 DEF EditLocked
    <2> QED
        BY <1>0, <2>1, RefuseStep
<1> QED
    BY <1>1, <1>2

(* A deletion looks for reservations of the locked book.                   *)
LEMMA DeleteCheckStep ==
    ASSUME TxInv, NEW t \in Txs, DeleteCheck(t)
    PROVE  TxStep(t)
<1> DEFINE b == tx[t].b
<1>1. /\ b \in Books /\ tx[t].kind = "delete" /\ tx[t].pc = "check"
      /\ bookLock[b] = t /\ b \in listed
    BY CallTypes DEF TxInv, DeleteCheck, Secured, HasBook
<1>2. CASE Refuse(t, "refused")
    BY <1>1, <1>2, RefuseStep
<1>3. CASE /\ \A o \in Orders : resState[o][b] = "none"
           /\ Advance(t, "ready") /\ UNCHANGED <<stockVars, bookLock, resLock>>
    <2>1. tx'[t].pc = "ready" /\ tx'[t].kind = "delete" /\ tx'[t].b = b
        BY <1>1, <1>3, AdvanceWrites DEF TxInv, TxPcs
    <2>2. UNCHANGED <<listed, stock, resState, bookLock>>
        BY <1>3 DEF stockVars
    <2>3. Secured(t)'
        BY <1>1, <1>3, <2>1, <2>2 DEF Secured, HasBook, HasReservation
    <2> QED
        BY <1>3, <2>3, GoOnStep
<1> QED
    BY <1>2, <1>3 DEF DeleteCheck

(* An edit or a deletion commits: nobody has reserved a deleted book.      *)
LEMMA EditCommitStep ==
    ASSUME TxInv, NEW t \in Txs, EditCommit(t)
    PROVE  TxStep(t)
<1> DEFINE b == tx[t].b
           n == IF tx[t].kind = "update" THEN tx[t].q ELSE 0
<1>1. /\ b \in Books /\ tx[t].kind \in {"update", "delete"} /\ tx[t].pc = "ready"
      /\ bookLock[b] = t /\ b \in listed
      /\ tx[t].kind = "update" => tx[t].q \in 0..MaxStock
      /\ tx[t].kind = "delete" => \A o \in Orders : resState[o][b] = "none"
    BY CallTypes DEF TxInv, EditCommit, Secured, HasBook
<1>2. /\ stock' = [stock EXCEPT ![b] = n]
      /\ supply' = [supply EXCEPT ![b] = n + Cardinality(HeldCopies(b))]
      /\ listed' = IF tx[t].kind = "delete" THEN listed \ {b} ELSE listed
      /\ UNCHANGED <<resState, resQuantity>> /\ End(t, "ok")
    BY DEF EditCommit
<1>3. /\ LocksTypeOK' /\ Secured(t)'
      /\ \A u \in Txs \ {t} :
                  /\ tx'[u] = tx[u]
                  /\ \A c \in Books : bookLock[c] = u => bookLock'[c] = u
                  /\ \A p \in Orders, c \in Books : resLock[p][c] = u => resLock'[p][c] = u
    BY <1>2, EndFrees
<1>4. [StockNext]_stockVars
    <2>1. CASE tx[t].kind = "update"
        <3>1. UpdateBook(b, tx[t].q)
            BY <1>1, <1>2, <2>1 DEF UpdateBook
        <3> QED
            BY <1>1, <2>1, <3>1 DEF StockNext
    <2>2. CASE tx[t].kind = "delete"
        <3>1. HeldCopies(b) = {}
            BY <1>1, <2>2 DEF HeldCopies, Holding
        <3>2. Cardinality(HeldCopies(b)) = 0
            BY <3>1, FS_EmptySet
        <3>3. DeleteBook(b)
            BY <1>1, <1>2, <2>2, <3>2 DEF DeleteBook
        <3> QED
            BY <1>1, <3>3 DEF StockNext
    <2> QED
        BY <1>1, <2>1, <2>2
<1>5. /\ \A c \in Books : c # b => stock'[c] = stock[c]
      /\ \A c \in listed : c # b => c \in listed'
    BY <1>1, <1>2 DEF TxInv, StockInv, StockTypeOK
<1>6. \A u \in Txs \ {t} : Spares(u)
    BY <1>1, <1>2, <1>3, <1>5 DEF Spares
<1>7. HonestAnswer(t)
    BY <1>1 DEF HonestAnswer
<1> QED
    BY <1>3, <1>4, <1>6, <1>7 DEF TxStep

(* Every step of a transaction.                                            *)
LEMMA EveryTxStep ==
    ASSUME TxInv, NEW t \in Txs, Begin(t) \/ Work(t) \/ DeadlockVictim(t) \/ Abort(t)
    PROVE  TxStep(t)
<1>1. CASE DeadlockVictim(t) \/ Abort(t)
    <2>1. Refuse(t, "aborted")
        BY <1>1 DEF DeadlockVictim, Abort
    <2> QED
        BY <2>1, RefuseStep
<1> QED
    BY <1>1, BeginStep, ReserveLookupStep, ReserveLockedStep, ReserveCommitStep, TransitionLockedStep,
       ReleaseLockBookStep, TransitionCommitStep, EditLockedStep, DeleteCheckStep, EditCommitStep DEF Work

(* A new book: no transaction depends on a row that is not there yet.      *)
LEMMA CreateStep ==
    ASSUME TxInv, NEW b \in Books, NEW n \in 0..MaxStock, Create(b, n)
    PROVE  /\ [StockNext]_stockVars /\ LocksTypeOK'
           /\ \A u \in Txs : Spares(u)
<1>1. [StockNext]_stockVars
    BY DEF Create, StockNext
<1>2. LocksTypeOK'
    BY DEF Create, txVars, TxInv, LocksTypeOK
<1>3. \A u \in Txs : Spares(u)
    BY DEF Create, CreateBook, txVars, Spares, TxInv, StockInv, StockTypeOK
<1> QED
    BY <1>1, <1>2, <1>3

(* The contract's invariant is kept by whatever implements its steps.      *)
LEMMA StockInvStep ==
    ASSUME StockInv, [StockNext]_stockVars
    PROVE  StockInv'
BY StockTypeStep, ConservedStep, ListedStep DEF StockInv

(* Every step keeps the invariant and takes a step of the contract.        *)
LEMMA TxInvStep ==
    ASSUME TxInv, [Next]_vars
    PROVE  TxInv' /\ [StockNext]_stockVars
<1>1. ASSUME NEW t \in Txs, Begin(t) \/ Work(t) \/ DeadlockVictim(t) \/ Abort(t)
      PROVE  TxInv' /\ [StockNext]_stockVars
    <2>1. TxStep(t)
        BY <1>1, EveryTxStep
    <2>2. \A u \in Txs : Secured(u)'
        BY <2>1, SparedStays DEF TxStep
    <2> QED
        BY <2>1, <2>2, StockInvStep DEF TxStep, TxInv
<1>2. ASSUME NEW b \in Books, NEW n \in 0..MaxStock, Create(b, n)
      PROVE  TxInv' /\ [StockNext]_stockVars
    BY <1>2, CreateStep, SparedStays, StockInvStep DEF TxInv
<1>3. CASE UNCHANGED vars
    <2>1. [StockNext]_stockVars /\ LocksTypeOK'
        BY <1>3 DEF vars, txVars, TxInv, LocksTypeOK
    <2>2. \A u \in Txs : Spares(u)
        BY <1>3 DEF vars, txVars, stockVars, Spares
    <2> QED
        BY <2>1, <2>2, SparedStays, StockInvStep DEF TxInv
<1> QED
    BY <1>1, <1>2, <1>3 DEF Next

(* The rows at the start; nothing runs and no lock is held.                *)
LEMMA TxInvInit ==
    ASSUME Init
    PROVE  TxInv /\ StockInit
<1>1. StockInv /\ StockInit
    BY StockInvInit DEF Init
<1>2. (CHOOSE o \in Orders : TRUE) \in Orders /\ (CHOOSE b \in Books : TRUE) \in Books
    BY OrdersAssumption, TxAssumption
<1>3. tx \in [Txs -> CallRecord] /\ \A t \in Txs : tx[t].pc = "idle" /\ tx[t].kind = "update" /\ tx[t].q = 0
    BY <1>2, StockAssumption DEF Init, CallRecord, TxPcs, Kinds
<1>4. LocksTypeOK
    BY <1>3 DEF Init, LocksTypeOK
<1>5. \A t \in Txs : Secured(t)
    BY <1>3, StockAssumption DEF Secured, HasBook, HasReservation
<1> QED
    BY <1>1, <1>4, <1>5 DEF TxInv

-----------------------------------------------------------------------------
(* The inductive invariant of the transactions.                            *)
THEOREM TxSafety == Spec => []TxInv
<1>1. Init => TxInv
    BY TxInvInit
<1>2. TxInv /\ [Next]_vars => TxInv'
    BY TxInvStep
<1> QED
    BY <1>1, <1>2, PTL DEF Spec

(* The types of the calls, of the locks and of the rows.                   *)
THEOREM TxTypes == Spec => []TxTypeOK
<1>1. TxInv => TxTypeOK
    BY DEF TxInv, StockInv, LocksTypeOK, TxTypeOK, CallRecord
<1> QED
    BY <1>1, TxSafety, PTL

(* The locking transactions of repository.go implement the contract: every *)
(* step of theirs is one atomic step of it, or changes no committed row.   *)
THEOREM TransactionsAreAtomic == Spec => StockSpec
<1>1. Init => StockInit
    BY TxInvInit
<1>2. TxInv /\ [Next]_vars => [StockNext]_stockVars
    BY TxInvStep
<1> QED
    BY <1>1, <1>2, TxSafety, PTL DEF Spec, StockSpec

(* So no interleaving of transactions loses or invents a copy, nor leaves  *)
(* a reservation of a book that is gone.                                   *)
THEOREM TransactionsConserve == Spec => [](StockConserved /\ ReservedBooksListed)
BY TransactionsAreAtomic, StockSafety, PTL

(* And a reservation only advances, whichever calls overlap.               *)
THEOREM TransactionsAdvance == Spec => ReservationsOnlyAdvance
BY TransactionsAreAtomic, ReservationLife, PTL

(* What a caller of ReserveStock is told is what the rows say when it is   *)
(* told, for any number of concurrent and repeated calls.                  *)
THEOREM AnswersAreHonest == Spec => HonestAnswers
<1>1. ASSUME TxInv, [Next]_vars
      PROVE  [\A t \in Txs : Running(t) => HonestAnswer(t)]_vars
    <2> SUFFICES ASSUME Next, NEW t \in Txs, Running(t)
                 PROVE  HonestAnswer(t)
        BY <1>1
    <2>1. ASSUME tx'[t] = tx[t]
          PROVE  HonestAnswer(t)
        BY <2>1 DEF HonestAnswer, Running
    <2>2. ASSUME NEW u \in Txs, Begin(u) \/ Work(u) \/ DeadlockVictim(u) \/ Abort(u)
          PROVE  HonestAnswer(t)
        <3>1. TxStep(u)
            BY <1>1, <2>2, EveryTxStep
        <3>2. CASE t = u
            BY <3>1, <3>2 DEF TxStep
        <3>3. CASE t # u
            BY <2>1, <3>1, <3>3 DEF TxStep, Spares
        <3> QED
            BY <3>2, <3>3
    <2> QED
        BY <2>1, <2>2 DEF Next, Create, txVars
<1> QED
    BY <1>1, TxSafety, PTL DEF Spec, HonestAnswers
=============================================================================
