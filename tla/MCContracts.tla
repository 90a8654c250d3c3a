------------------------------ MODULE MCContracts ------------------------------
EXTENDS Contracts, TLC

(* Contracts are interchangeable. *)
Interchangeable == Permutations(Contract)
===============================================================================
