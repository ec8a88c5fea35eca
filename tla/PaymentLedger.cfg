SPECIFICATION LedgerSpec
CONSTANTS
    o1 = o1
    o2 = o2
    ann = ann
    bob = bob
    sue = sue
    platform = platform
    clearing = clearing
    funding = funding
    topAnn = topAnn
    drawSue = drawSue
    Orders = {o1, o2}
    Workers = {t1, t2}
    Nobody = nobody
    Owners <- MCOwners
    Platform = platform
    Clearing = clearing
    Funding = funding
    Buyer <- MCBuyer
    Allocation <- MCAllocation
    FeeBPS = 1000
    Adjustments = {topAnn, drawSue}
    Target <- MCTarget
    Delta <- MCDelta
    OwnerOrder <- MCOwnerOrder
    IdOrder <- MCIdOrder
SYMMETRY Symmetry
INVARIANTS
    LedgerTypeOK
    TransactionsBalance
    WalletsMatchLedger
    NoOverdraft
    PostedAsStatusSays
    GatewayMoneyIsReal
    ConsumedIsApplied
PROPERTY SagaPaymentSpec
CHECK_DEADLOCK FALSE
