---------------------------- MODULE RefreshLifecycle ----------------------------
(***************************************************************************)
(* What the record of an AI fact refresh promises whoever polls it: it     *)
(* goes from pending over thread_created to completed or failed, and what  *)
(* it says then is final.                                                  *)
(***************************************************************************)
CONSTANT Operation

VARIABLE phase

Init == phase = [o \in Operation |-> "absent"]

Becomes(o, from, to) ==
  /\ phase[o] \in from
  /\ phase' = [phase EXCEPT ![o] = to]

Next == \E o \in Operation :
  \/ Becomes(o, {"absent"}, "pending")
  \/ Becomes(o, {"pending"}, "thread_created")
  \/ Becomes(o, {"thread_created"}, "completed")
  \/ Becomes(o, {"pending", "thread_created"}, "failed")

Spec == Init /\ [][Next]_phase
===============================================================================
