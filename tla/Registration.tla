------------------------------ MODULE Registration ------------------------------
(***************************************************************************)
(* What setup and uninstall promise: at any time at most one repository is *)
(* registered with Codex, it is registered or not (never half-way), and no *)
(* setup takes over the registration of another repository.                *)
(***************************************************************************)
CONSTANTS Repository, NoRepository

VARIABLE registered

Init == registered = NoRepository

Install(r) ==
  /\ registered \in {NoRepository, r}
  /\ registered' = r

Uninstall == registered' = NoRepository

Next == Uninstall \/ \E r \in Repository : Install(r)

Spec == Init /\ [][Next]_registered
===============================================================================
