------------------------------- MODULE OrderIds -------------------------------
(***************************************************************************)
(* The identities of orders, which the Order, Book and Payment Services    *)
(* share by value only: no foreign key crosses a service                   *)
(* (migrations/011_intraservice_foreign_keys.sql).                         *)
(***************************************************************************)
EXTENDS FiniteSets

CONSTANT Orders

ASSUME OrdersAssumption == IsFiniteSet(Orders) /\ Orders # {}
=============================================================================
