SPECIFICATION CatalogSpec
CONSTANTS
    Dispatchers = {d1, d2}
    Aggregates = {b1, b2}
    MaxEvents = 2
    MaxTopic = 3
SYMMETRY Symmetry
INVARIANTS
    CatalogTypeOK
    PublishedIsInTopic
    NoOvertaking
    IndexKeepsUp
    SearchShowsCatalog
CHECK_DEADLOCK FALSE
