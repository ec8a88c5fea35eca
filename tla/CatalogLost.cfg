SPECIFICATION CatalogSpec
CONSTANTS
    Dispatchers = {d1, d2}
    Aggregates = {b1, b2}
    MaxEvents = 2
    MaxTopic = 3
SYMMETRY Symmetry
INVARIANT CommittedIsProcessed
CHECK_DEADLOCK FALSE
