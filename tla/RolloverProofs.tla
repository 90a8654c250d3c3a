---------------------------- MODULE RolloverProofs ----------------------------
(***************************************************************************)
(* The safety of the continuation worker, for any number of workers, of    *)
(* thread ids and of grouping operations.                                  *)
(*                                                                         *)
(* The argument: the insertion of the "pending" event elects one first     *)
(* attempt (OneClaimant); only the first attempt may ask for a thread, and *)
(* only while none exists (NotYetCreated); any other worker that gets past *)
(* the reading of the log holds the recorded thread (TookOver).            *)
(***************************************************************************)
EXTENDS Rollover, TLAPS

Before == {"prepare", "connect", "open"}
After == {"check", "link", "turn", "finish"}

OneClaimant ==
  /\ \A v, w \in Worker : first[v] /\ first[w] => v = w
  /\ \A w \in Worker : first[w] => Recorded("pending")

ThreadIsClaimed == threads # {} => \E w \in Worker : first[w]

NotYetCreated ==
  \A w \in Worker : first[w] /\ pc[w] \in Before =>
    threads = {} /\ thread[w] = NoThread

Reading ==
  \A w \in Worker :
    /\ pc[w] \in {"idle", "scan"} => ~first[w] /\ thread[w] = NoThread
    /\ seen[w] \union unread[w] \subseteq RecordedStatuses

TookOver ==
  \A w \in Worker : ~first[w] /\ pc[w] \in Before =>
    thread[w] \in Thread /\ thread[w] = log["thread_created"]

HeldThreads == \A w \in Worker : thread[w] \in threads \union {NoThread}

LoggedThreads ==
  /\ log["thread_created"] \in threads \union {Absent}
  /\ log["failed"] \in threads \union {NoThread, Absent}
  /\ log["started"] # Absent =>
       /\ log["started"] \in threads
       /\ log["started"] = log["thread_created"]
       /\ \E v \in Worker : turn[v] = log["started"]

Stages ==
  \A w \in Worker :
    /\ pc[w] = "record" => thread[w] \in Thread
    /\ pc[w] \in After => thread[w] \in Thread /\ thread[w] = log["thread_created"]
    /\ pc[w] \in {"turn", "finish"} => thread[w] \in sessions
    /\ pc[w] \in {"connect", "open", "record"} \union After => w \in evaluated
    /\ pc[w] = "finish" => \E v \in Worker : turn[v] = thread[w]

(* The inductive invariant. *)
IInv ==
  /\ TypeOK
  /\ OneClaimant
  /\ ThreadIsClaimed
  /\ NotYetCreated
  /\ Reading
  /\ TookOver
  /\ HeldThreads
  /\ LoggedThreads
  /\ Stages
  /\ AtMostOneThread
  /\ TurnIsRecoverable
  /\ StartedMeansRunning

USE SentinelAssumption DEF Status, Answers, Terminal, Calling, Active

LEMMA InitEstablishes == Init => IInv
<1> SUFFICES ASSUME Init PROVE IInv
  OBVIOUS
<1> USE DEF Init
<1>1. TypeOK
  BY DEF TypeOK
<1>2. OneClaimant /\ ThreadIsClaimed /\ NotYetCreated /\ TookOver /\ HeldThreads
  BY DEF OneClaimant, ThreadIsClaimed, NotYetCreated, TookOver, HeldThreads, Before
<1>3. Reading /\ LoggedThreads
  BY DEF Reading, LoggedThreads
<1>4. Stages /\ AtMostOneThread /\ TurnIsRecoverable /\ StartedMeansRunning
  BY DEF Stages, After, AtMostOneThread, TurnIsRecoverable, StartedMeansRunning
<1>5. QED
  BY <1>1, <1>2, <1>3, <1>4 DEF IInv

LEMMA StepPreserves ==
  ASSUME IInv, NEW w \in Worker, Step(w) \/ Die(w)
  PROVE  IInv'
<1> USE DEF IInv, TypeOK, OneClaimant, ThreadIsClaimed, NotYetCreated, Reading,
       TookOver, HeldThreads, LoggedThreads, Stages, AtMostOneThread,
       TurnIsRecoverable, StartedMeansRunning, Recorded, RecordedStatuses,
       Before, After, Goto, Insert, HasRead,
       storeVars, groupVars, serverVars, readVars
<1>1. CASE Begin(w)
  BY <1>1 DEF Begin
<1>2. CASE \E s \in Status : Scan(w, s)
  BY <1>2 DEF Scan
<1>3. CASE ReuseStarted(w)
  BY <1>3 DEF ReuseStarted
<1>4. CASE ReuseFailed(w)
  BY <1>4 DEF ReuseFailed
<1>5. CASE Recover(w)
  BY <1>5 DEF Recover
<1>6. CASE RefuseDuplicate(w)
  BY <1>6 DEF RefuseDuplicate
<1>7. CASE Claim(w)
  <2> USE <1>7 DEF Claim
  <2>1. CASE Recorded("pending")
    BY <2>1
  <2>2. CASE ~Recorded("pending")
    \* The claimant is the first one ever: nobody claimed, so no thread exists.
    <3>1. /\ log' = [log EXCEPT !["pending"] = NoThread]
          /\ first' = [first EXCEPT ![w] = TRUE]
          /\ pc' = [pc EXCEPT ![w] = "prepare"]
      BY <2>2
    <3>2. (\A v \in Worker : ~first[v]) /\ threads = {}
      BY <2>2
    <3>3. TypeOK'
      BY <3>1
    <3>4. OneClaimant' /\ ThreadIsClaimed' /\ NotYetCreated'
      BY <3>1, <3>2
    <3>5. Reading' /\ TookOver' /\ HeldThreads'
      BY <3>1, <3>2
    <3>6. LoggedThreads' /\ Stages' /\ AtMostOneThread'
      BY <3>1, <3>2
    <3>7. TurnIsRecoverable' /\ StartedMeansRunning'
      BY <3>1, <3>2
    <3>8. QED
      BY <3>3, <3>4, <3>5, <3>6, <3>7
  <2>3. QED
    BY <2>1, <2>2
<1>8. CASE Prepare(w)
  BY <1>8 DEF Prepare
<1>9. CASE Connect(w)
  BY <1>9 DEF Connect
<1>10. CASE StartThread(w)
  BY <1>10 DEF StartThread
<1>11. CASE StartThreadUnanswered(w)
  BY <1>11 DEF StartThreadUnanswered
<1>12. CASE RecordThread(w)
  BY <1>12 DEF RecordThread
<1>13. CASE ResumeThread(w)
  BY <1>13 DEF ResumeThread
<1>14. CASE CheckThread(w)
  BY <1>14 DEF CheckThread
<1>15. CASE LinkSession(w)
  BY <1>15 DEF LinkSession
<1>16. CASE StartTurn(w)
  BY <1>16 DEF StartTurn, AcceptTurn
<1>17. CASE StartTurnUnanswered(w)
  BY <1>17 DEF StartTurnUnanswered, AcceptTurn
<1>18. CASE Finish(w)
  BY <1>18 DEF Finish
<1>19. CASE CallFails(w)
  BY <1>19 DEF CallFails
<1>20. CASE RecordFailure(w)
  BY <1>20 DEF RecordFailure
<1>21. CASE Die(w)
  BY <1>21 DEF Die
<1>22. QED
  BY <1>1, <1>2, <1>3, <1>4, <1>5, <1>6, <1>7, <1>8, <1>9, <1>10, <1>11, <1>12,
     <1>13, <1>14, <1>15, <1>16, <1>17, <1>18, <1>19, <1>20, <1>21 DEF Step

(* No step of grouping touches what the invariant speaks of. *)
LEMMA NextPreserves == IInv /\ [Next]_vars => IInv'
<1> SUFFICES ASSUME IInv, [Next]_vars PROVE IInv'
  OBVIOUS
<1>1. CASE \E w \in Worker : Step(w) \/ Die(w)
  BY <1>1, StepPreserves
<1>2. CASE MoveSession \/ UNCHANGED vars
  <2> USE DEF IInv, TypeOK, OneClaimant, ThreadIsClaimed, NotYetCreated, Reading,
         TookOver, HeldThreads, LoggedThreads, Stages, AtMostOneThread,
         TurnIsRecoverable, StartedMeansRunning, Recorded, RecordedStatuses
  <2>1. CASE MoveSession
    BY <2>1 DEF MoveSession, storeVars, serverVars, readVars
  <2>2. CASE UNCHANGED vars
    BY <2>2 DEF vars
  <2>3. QED
    BY <1>2, <2>1, <2>2
<1>3. QED
  BY <1>1, <1>2 DEF Next

(* The inductive invariant holds throughout. *)
THEOREM Invariance == Spec => []IInv
BY InitEstablishes, NextPreserves, PTL DEF Spec

(* Every variable stays in its range. *)
THEOREM TypeCorrect == Spec => []TypeOK
<1>1. IInv => TypeOK
  BY DEF IInv
<1>2. QED
  BY <1>1, Invariance, PTL

(* One prompt never yields two Codex tasks. *)
THEOREM NoDuplicateThread == Spec => []AtMostOneThread
<1>1. IInv => AtMostOneThread
  BY DEF IInv
<1>2. QED
  BY <1>1, Invariance, PTL

(* A running turn can always be found again from the store. *)
THEOREM WriteAhead == Spec => []TurnIsRecoverable
<1>1. IInv => TurnIsRecoverable
  BY DEF IInv
<1>2. QED
  BY <1>1, Invariance, PTL

(* A caller that stops the source turn does not lose the prompt. *)
THEOREM StartedIsTrue == Spec => []StartedMeansRunning
<1>1. IInv => StartedMeansRunning
  BY DEF IInv
<1>2. QED
  BY <1>1, Invariance, PTL
-------------------------------------------------------------------------------
(* One turn.                                                               *)

(* Whoever may start a turn names the thread the store has recorded, and   *)
(* every turn there is runs in that thread: an App Server that drops the   *)
(* repeated message finds the one it repeats.                              *)
LEMMA TurnsAgree ==
  ASSUME IInv, NEW w \in Worker, pc[w] = "turn", NEW v \in Worker, turn[v] # NoThread
  PROVE  turn[v] = thread[w]
BY DEF IInv, Stages, After, TurnIsRecoverable

LEMMA TurnAccepted ==
  ASSUME IInv, AtMostOneTurn, NEW w \in Worker, pc[w] = "turn", AcceptTurn(w), UNCHANGED dedupes
  PROVE  AtMostOneTurn'
<1>1. CASE \E v \in Worker : turn[v] # NoThread
  \* The message was sent before, and is dropped.
  <2>1. \E v \in Worker : turn[v] = thread[w]
    BY <1>1, TurnsAgree
  <2>2. dedupes => UNCHANGED turn
    BY <2>1 DEF AcceptTurn
  <2> QED
    BY <2>2 DEF AtMostOneTurn
<1>2. CASE \A v \in Worker : turn[v] = NoThread
  <2>1. \A v \in Worker : turn'[v] # NoThread => v = w
    BY <1>2 DEF AcceptTurn, IInv, TypeOK
  <2> QED
    BY <2>1 DEF AtMostOneTurn
<1> QED
  BY <1>1, <1>2

LEMMA TurnPreserved ==
  ASSUME IInv, AtMostOneTurn, [Next]_vars
  PROVE  AtMostOneTurn'
<1>1. CASE UNCHANGED <<turn, dedupes>>
  BY <1>1 DEF AtMostOneTurn
<1>2. ASSUME NEW w \in Worker, StartTurn(w) \/ StartTurnUnanswered(w)
      PROVE  AtMostOneTurn'
  BY <1>2, TurnAccepted DEF StartTurn, StartTurnUnanswered
<1>3. ASSUME NEW w \in Worker, Step(w) \/ Die(w), ~(StartTurn(w) \/ StartTurnUnanswered(w))
      PROVE  UNCHANGED <<turn, dedupes>>
  BY <1>3 DEF Step, Die, Begin, Scan, ReuseStarted, ReuseFailed, Recover, RefuseDuplicate,
     Claim, Prepare, Connect, StartThread, StartThreadUnanswered, RecordThread, ResumeThread,
     CheckThread, LinkSession, Finish, CallFails, RecordFailure, serverVars
<1>4. MoveSession \/ UNCHANGED vars => UNCHANGED <<turn, dedupes>>
  BY DEF MoveSession, vars, serverVars
<1> QED
  BY <1>1, <1>2, <1>3, <1>4 DEF Next

(* However many attempts overlap or recover, the prompt runs once if the   *)
(* App Server drops a repeated clientUserMessageId. *)
THEOREM PromptRunsOnce == Spec => []AtMostOneTurn
<1>1. Init => AtMostOneTurn
  BY DEF Init, AtMostOneTurn
<1>2. IInv /\ AtMostOneTurn /\ [Next]_vars => AtMostOneTurn'
  BY TurnPreserved
<1> QED
  BY <1>1, <1>2, Invariance, PTL DEF Spec
-------------------------------------------------------------------------------
(* The refinement of Handoff.                                              *)

(* With at most one thread, CreatedThread is that thread. *)
LEMMA CreatedIsTheThread ==
  ASSUME AtMostOneThread, NEW t \in threads
  PROVE  CreatedThread = t
BY DEF AtMostOneThread, CreatedThread

(* What a step that moves worker w to control point l does to Told. *)
LEMMA ToldGrows ==
  ASSUME TypeOK, NEW w \in Worker, NEW l, Goto(w, l), pc[w] \notin Answers
  PROVE  Told' = IF l \in Answers THEN Told \union {l} ELSE Told
BY DEF TypeOK, Goto, Told

(* Every step of a worker is a step of Handoff, or changes nothing that    *)
(* Handoff can see.                                                        *)
LEMMA StepRefines ==
  ASSUME IInv, IInv', NEW w \in Worker, Step(w) \/ Die(w)
  PROVE  Promise!Next \/ UNCHANGED Promise!vars
<1> USE DEF Promise!vars
<1>1. CASE \/ Begin(w) \/ \E s \in Status : Scan(w, s)
           \/ Recover(w) \/ Prepare(w) \/ Connect(w) \/ RecordThread(w)
           \/ ResumeThread(w) \/ CheckThread(w) \/ LinkSession(w)
           \/ CallFails(w) \/ Die(w)
  <2>1. UNCHANGED <<threads, turn>>
    BY <1>1 DEF Begin, Scan, Recover, Prepare, Connect, RecordThread, ResumeThread,
       CheckThread, LinkSession, CallFails, Die, serverVars
  <2>2. UNCHANGED Told
    <3>1. UNCHANGED pc \/ \E l : l \notin Answers /\ Goto(w, l) /\ pc[w] \notin Answers
      BY <1>1 DEF Begin, Scan, Recover, Prepare, Connect, RecordThread, ResumeThread,
         CheckThread, LinkSession, CallFails, Die, HasRead
    <3>2. QED
      BY <3>1, ToldGrows DEF Told, IInv
  <2>3. QED
    BY <2>1, <2>2 DEF CreatedThread, Running
<1>2. CASE \/ ReuseStarted(w) \/ ReuseFailed(w) \/ RefuseDuplicate(w) \/ Claim(w)
           \/ Finish(w) \/ RecordFailure(w)
  <2>1. UNCHANGED <<CreatedThread, Running>>
    <3>1. UNCHANGED <<threads, turn>>
      BY <1>2 DEF ReuseStarted, ReuseFailed, RefuseDuplicate, Claim, Finish, RecordFailure,
         serverVars
    <3>2. QED
      BY <3>1 DEF CreatedThread, Running
  <2>2. PICK l \in Answers \union {"prepare"} : Goto(w, l) /\ pc[w] \notin Answers
    <3>1. pc[w] \notin Answers
      BY <1>2 DEF ReuseStarted, ReuseFailed, RefuseDuplicate, Claim, Finish, RecordFailure,
         HasRead
    <3>2. \E l \in Answers \union {"prepare"} : Goto(w, l)
      <4>1. CASE Claim(w)
        BY <4>1 DEF Claim
      <4>2. CASE ReuseStarted(w) \/ Finish(w)
        BY <4>2 DEF ReuseStarted, Finish
      <4>3. CASE ReuseFailed(w) \/ RecordFailure(w)
        BY <4>3 DEF ReuseFailed, RecordFailure
      <4>4. CASE RefuseDuplicate(w)
        BY <4>4 DEF RefuseDuplicate
      <4>5. QED
        BY <1>2, <4>1, <4>2, <4>3, <4>4
    <3>3. QED
      BY <3>1, <3>2
  <2>3. CASE l \notin Answers
    BY <2>1, <2>2, <2>3, ToldGrows DEF IInv
  <2>4. CASE l \in Answers
    <3>1. Told' = Told \union {l}
      BY <2>2, <2>4, ToldGrows DEF IInv
    <3>2. l = "Started" => Running
      <4>1. l = pc'[w]
        BY <2>2 DEF Goto, IInv, TypeOK
      <4>2. pc'[w] = "Started" => thread'[w] \in threads' /\ \E v \in Worker : turn'[v] = thread'[w]
        BY DEF IInv, StartedMeansRunning, TypeOK, LoggedThreads, HeldThreads
      <4>3. threads' \subseteq Thread
        BY DEF IInv, TypeOK
      <4>4. l = "Started" => Running'
        BY <4>1, <4>2, <4>3 DEF Running
      <4>5. QED
        BY <2>1, <4>4
    <3>3. Promise!Tell(l)
      BY <2>1, <3>1, <3>2 DEF Promise!Tell
    <3>4. QED
      BY <2>4, <3>3 DEF Promise!Next, Promise!Answers
  <2>5. QED
    BY <2>3, <2>4
<1>3. CASE StartThread(w) \/ StartThreadUnanswered(w)
  <2>1. PICK t \in Thread : threads' = threads \union {t}
    BY <1>3 DEF StartThread, StartThreadUnanswered
  <2>2. threads = {}
    BY <1>3 DEF StartThread, StartThreadUnanswered, IInv, NotYetCreated, TookOver, Before,
       TypeOK
  <2>3. CreatedThread = NoThread /\ CreatedThread' = t
    BY <2>1, <2>2 DEF CreatedThread
  <2>4. UNCHANGED Running
    BY <1>3 DEF StartThread, StartThreadUnanswered, Running
  <2>5. UNCHANGED Told
    <3>1. pc[w] = "open" /\ (Goto(w, "record") \/ Goto(w, "fail"))
      BY <1>3 DEF StartThread, StartThreadUnanswered
    <3>2. QED
      BY <3>1, ToldGrows DEF IInv
  <2>6. QED
    BY <2>1, <2>3, <2>4, <2>5 DEF Promise!Next, Promise!Create
<1>4. CASE StartTurn(w) \/ StartTurnUnanswered(w)
  <2>1. UNCHANGED CreatedThread /\ UNCHANGED Told
    <3>1. UNCHANGED threads /\ pc[w] = "turn" /\ (Goto(w, "finish") \/ Goto(w, "fail"))
      BY <1>4 DEF StartTurn, StartTurnUnanswered
    <3>2. QED
      BY <3>1, ToldGrows DEF CreatedThread, IInv
  <2>2. thread[w] \in threads
    BY <1>4 DEF StartTurn, StartTurnUnanswered, IInv, Stages, After, HeldThreads
  <2>3. CreatedThread # NoThread
    BY <2>2, CreatedIsTheThread DEF IInv, TypeOK
  <2>4. Running'
    BY <1>4, <2>2 DEF StartTurn, StartTurnUnanswered, AcceptTurn, Running, IInv, TypeOK
  <2>5. QED
    BY <2>1, <2>3, <2>4 DEF Promise!Next, Promise!Run
<1>5. QED
  BY <1>1, <1>2, <1>3, <1>4 DEF Step

(* The worker keeps the promise of Handoff. *)
THEOREM Refinement == Spec => ImplementsHandoff
<1>1. Init => Promise!Init
  BY DEF Init, Promise!Init, CreatedThread, Running, Told
<1>2. IInv /\ IInv' /\ [Next]_vars => [Promise!Next]_(Promise!vars)
  <2> SUFFICES ASSUME IInv, IInv', [Next]_vars
               PROVE  Promise!Next \/ UNCHANGED Promise!vars
    OBVIOUS
  <2>1. CASE \E w \in Worker : Step(w) \/ Die(w)
    BY <2>1, StepRefines
  <2>2. CASE MoveSession \/ UNCHANGED vars
    <3>1. UNCHANGED <<threads, turn, pc>>
      BY <2>2 DEF MoveSession, serverVars, vars
    <3>2. QED
      BY <3>1 DEF Promise!vars, CreatedThread, Running, Told
  <2>3. QED
    BY <2>1, <2>2 DEF Next
<1>3. QED
  BY <1>1, <1>2, Invariance, PTL DEF Spec, ImplementsHandoff, Promise!Spec
===============================================================================
