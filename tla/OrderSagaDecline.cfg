SPECIFICATION Spec
CONSTANTS
    Books = {b1}
    Orders = {o1}
    MaxQuantity = 1
    MaxStock = 1
    MaxBalance = 1
    OpeningBalances <- Whatever
    Clients = {c1, c2}
    Workers = {w1}
    Quantity <- OneEach
    MaxFaults = 0
    PromptCalls = TRUE
    Overlapping = {"pay"}
    BalanceChanges = FALSE
    Vias <- BothProviders
INVARIANT CancelledKeepsNoMoney
CHECK_DEADLOCK FALSE
