----------------------------- MODULE MCRollover -----------------------------
(* Small instances of Rollover for TLC. *)
EXTENDS Rollover, TLC

(* Workers and thread ids are interchangeable. *)
Interchangeable == Permutations(Worker) \union Permutations(Thread)
==============================================================================
