----------------------------- MODULE MCOrderSaga -----------------------------
(* OrderSaga on small instances. *)
EXTENDS OrderSaga, TLC

OneEach == [o \in Orders |-> [b \in Books |-> 1]]

BothProviders == [o \in Orders |-> Providers]
GatewayOnly == [o \in Orders |-> {"gateway"}]
OneProviderEach ==
    LET first == CHOOSE o \in Orders : TRUE IN
    [o \in Orders |-> IF o = first THEN {"wallet"} ELSE {"gateway"}]

Symmetry == Permutations(Clients)
SymmetryWithBooks == Permutations(Clients) \cup Permutations(Books)

EmptyOrAmple == {0, 2}
Whatever == 0..MaxBalance
=============================================================================
