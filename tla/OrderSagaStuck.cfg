SPECIFICATION FairSpec
CONSTANTS
    Books = {b1}
    Orders = {o1}
    MaxQuantity = 1
    MaxStock = 1
    MaxBalance = 1
    OpeningBalances <- Whatever
    Clients = {c1}
    Workers = {w1}
    Quantity <- OneEach
    MaxFaults = 2
    PromptCalls = FALSE
    Overlapping = {"create", "cancel", "pay"}
    BalanceChanges = FALSE
    Vias <- BothProviders
PROPERTY RefundedOrdersClose
CHECK_DEADLOCK FALSE
