------------------------------ MODULE MCDelivery ------------------------------
(* Small instances of Delivery for TLC. *)
EXTENDS Delivery, TLC

(* Hooks and runners are interchangeable. *)
Interchangeable == Permutations(Hook) \union Permutations(Runner)
===============================================================================
