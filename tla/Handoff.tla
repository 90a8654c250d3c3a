------------------------------- MODULE Handoff -------------------------------
(***************************************************************************)
(* What the continuation worker of src/src/continuation.rs promises for    *)
(* one operation (one source prompt), whatever the number of invocations,  *)
(* crashes and lost answers: at most one fresh App Server thread is ever   *)
(* created for the prompt, the prompt runs only in that thread, and a      *)
(* caller is told "Started" only once it runs.  A caller told anything     *)
(* else keeps the prompt in the source task.                               *)
(***************************************************************************)
CONSTANTS Thread, NoThread

VARIABLES
  created,  \* the thread created for the prompt, or NoThread
  running,  \* TRUE once a turn carrying the prompt was accepted
  told      \* the answers callers have received

vars == <<created, running, told>>

Answers == {"Started", "Failed", "PendingRecovery"}

Init ==
  /\ created = NoThread
  /\ running = FALSE
  /\ told = {}

Create ==
  /\ created = NoThread
  /\ created' \in Thread
  /\ UNCHANGED <<running, told>>

Run ==
  /\ created # NoThread
  /\ running' = TRUE
  /\ UNCHANGED <<created, told>>

Tell(answer) ==
  /\ answer = "Started" => running
  /\ told' = told \union {answer}
  /\ UNCHANGED <<created, running>>

Next ==
  \/ Create
  \/ Run
  \/ \E answer \in Answers : Tell(answer)

Spec == Init /\ [][Next]_vars
==============================================================================
