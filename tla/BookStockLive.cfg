SPECIFICATION FairSpec
CONSTANTS
    Books = {b1}
    Orders = {o1}
    MaxQuantity = 1
    MaxStock = 1
    Txs = {t1, t2}
    Free = Free
PROPERTY CallsReturn
