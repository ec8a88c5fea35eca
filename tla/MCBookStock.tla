----------------------------- MODULE MCBookStock -----------------------------
(* BookStock on small instances. *)
EXTENDS BookStock, TLC

Symmetry == Permutations(Txs) \cup Permutations(Orders)
=============================================================================
