------------------------------ MODULE MCProjection ------------------------------
EXTENDS Projection, TLC

(* Sessions are interchangeable, and so are request ids. *)
Interchangeable == Permutations(Session) \union Permutations(Request)
===============================================================================
