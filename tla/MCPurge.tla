------------------------------- MODULE MCPurge -------------------------------
(* Small instances of Purge for TLC. *)
EXTENDS Purge

(* The first event of one of the repositories is out of date. *)
FirstOfOne == {[repo |-> CHOOSE r \in Repository : TRUE, number |-> 1]}
===============================================================================
