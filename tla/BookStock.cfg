SPECIFICATION Spec
CONSTANTS
    Books = {b1}
    Orders = {o1, o2}
    MaxQuantity = 2
    MaxStock = 2
    Txs = {t1, t2}
    Free = Free
SYMMETRY Symmetry
INVARIANTS
    TxTypeOK
    StockConserved
    ReservedBooksListed
PROPERTIES
    StockSpec
    ReservationsOnlyAdvance
    HonestAnswers
