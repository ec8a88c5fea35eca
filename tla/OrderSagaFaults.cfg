SPECIFICATION Spec
CONSTANTS
    Books = {b1, b2}
    Orders = {o1}
    MaxQuantity = 1
    MaxStock = 1
    MaxBalance = 1
    OpeningBalances <- Whatever
    Clients = {c1, c2}
    Workers = {w1}
    Quantity <- OneEach
    MaxFaults = 1
    PromptCalls = FALSE
    Overlapping = {"create", "cancel", "pay"}
    BalanceChanges = TRUE
    Vias <- BothProviders
SYMMETRY SymmetryWithBooks
INVARIANTS
    SagaTypeOK
    PaidBeforeConfirmed
    CancelledHoldsNothing
    RefundedBeforeClosed
    CompensatedInCart
PROPERTY LifecycleSpec
