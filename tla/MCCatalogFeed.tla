---------------------------- MODULE MCCatalogFeed ----------------------------
EXTENDS CatalogFeed, TLC
Symmetry == Permutations(Dispatchers) \cup Permutations(Aggregates)
=============================================================================
