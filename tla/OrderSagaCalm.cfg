SPECIFICATION Spec
CONSTANTS
    Books = {b1}
    Orders = {o1, o2}
    MaxQuantity = 1
    MaxStock = 1
    MaxBalance = 2
    OpeningBalances <- EmptyOrAmple
    Clients = {c1, c2}
    Workers = {w1}
    Quantity <- OneEach
    MaxFaults = 0
    PromptCalls = TRUE
    Overlapping = {"cancel", "pay"}
    BalanceChanges = FALSE
    Vias <- OneProviderEach
SYMMETRY Symmetry
INVARIANTS
    ConfirmedIsDelivered
    CancelledIsUndone
    NeverOversold
CHECK_DEADLOCK FALSE
