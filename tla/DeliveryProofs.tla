---------------------------- MODULE DeliveryProofs ----------------------------
(***************************************************************************)
(* The safety of the delivery of hook events, for any number of hooks, of  *)
(* runners, of attempts, kills and full disks.                             *)
(*                                                                         *)
(* The argument: as long as no two replays overlapped, one runner at most  *)
(* is replaying (OneReplay), and what it has taken from the replay file is *)
(* in the store before the file goes (ReplayedIsStored); it renames the    *)
(* queue only once the old replay file is gone (RenameIsSafe).  A daemon   *)
(* answers "committed" for stored events only (AnswersAreTrue).            *)
(***************************************************************************)
EXTENDS Delivery, TLAPS

OneReplay ==
  \A p, q \in Runner : pc[p] \in Replaying /\ pc[q] \in Replaying => p = q

ReplayedIsStored ==
  \A p \in Runner : pc[p] \in Reading => Records(replay) \subseteq db \union todo[p]

RenameIsSafe ==
  \A p \in Runner : pc[p] \in {"check", "rename"} => replay = NoFile

AnswersAreTrue ==
  \A d \in Runner : answering[d].status = "committed" =>
    \A a \in answering[d].conn : a.from \in db

CommittedIsStored ==
  \A h \in Hook : hook[h] = "committed" => h \in db

(* Where the events are that a runner found queued when it started. *)
OwedIsKept ==
  \A p \in Runner :
    /\ pc[p] \in {"old", "read old", "check", "rename"} => owed[p] \subseteq Durable
    /\ pc[p] \in {"open new", "read new"} => owed[p] \subseteq db \union Records(replay)
    /\ pc[p] \in {"reserve", "replayed"} => owed[p] \subseteq db

(* What the disk and its reserve have been through. *)
ReserveIsThere ==
  faults = 0 =>
    /\ full \/ ~reserve => fills > 0
    /\ fills < 2 /\ full => reserve

(* The inductive invariant. *)
IInv ==
  /\ TypeOK
  /\ AnswersAreTrue
  /\ CommittedIsStored
  /\ ~overlapped => /\ OneReplay
                    /\ ReplayedIsStored
                    /\ RenameIsSafe
                    /\ OwedIsKept
  /\ SuccessIsDurableIntact
  /\ ReserveIsThere
  /\ ReserveSavesEvents

USE DEF Replaying, Reading, Serving, Outcomes, disk, queueVars, files,
    hookVars, runnerVars, Goto, GotoHook
-------------------------------------------------------------------------------
(* Type correctness.                                                       *)

LEMMA InitType == ASSUME Init PROVE TypeOK
<1>1. NoAnswer \in Answer
  BY DEF NoAnswer, Answer
<1>2. /\ \A h \in Hook : hook[h] = "idle" /\ sends[h] = 0
      /\ sends \in [Hook -> 0..MaxSends]
  <2>1. 0 \in 0..MaxSends /\ 0 < MaxSends
    BY SendsAssumption
  <2> QED
    BY <2>1 DEF Init
<1>3. /\ fills \in Nat /\ faults \in Nat
  BY DEF Init
<1>4. /\ socket \in Runner \union {NoSocket, Stale}
      /\ \A p \in Runner : socket # p
  BY SentinelAssumption DEF Init
<1>5. /\ queue = NoFile /\ replay = NoFile /\ db = {} /\ mail = {}
      /\ ~torn /\ ~garbled /\ reserve /\ ~full /\ ~overlapped
      /\ torn \in BOOLEAN /\ garbled \in BOOLEAN /\ reserve \in BOOLEAN
      /\ full \in BOOLEAN /\ overlapped \in BOOLEAN
  BY DEF Init
<1>6. /\ hook \in [Hook -> {"idle"}]
      /\ pc \in [Runner -> {"idle"}]
      /\ todo \in [Runner -> SUBSET Hook]
      /\ answering \in [Runner -> Answer]
      /\ owed \in [Runner -> SUBSET Hook]
  BY <1>1 DEF Init
<1>7. 0 < MaxSends
  BY SendsAssumption
<1> QED
  BY <1>2, <1>3, <1>4, <1>5, <1>6, <1>7 DEF TypeOK

(* The helpers keep their variables in their ranges. *)
LEMMA EndsType ==
  ASSUME TypeOK, NEW p \in Runner, Ends(p)
  PROVE  /\ pc' \in [Runner -> {"idle", "reserve", "replayed", "unlink", "bind"}
                              \union Replaying \union Serving]
         /\ \A q \in Runner : socket' = q => pc'[q] \in Serving
         /\ socket' \in Runner \union {NoSocket, Stale}
         /\ mail' \subseteq Connection
         /\ todo' \in [Runner -> SUBSET Hook]
         /\ answering' \in [Runner -> Answer]
         /\ owed' \in [Runner -> SUBSET Hook]
<1>1. NoAnswer \in Answer
  BY DEF NoAnswer, Answer
<1> QED
  BY <1>1, SentinelAssumption DEF TypeOK, Ends

LEMMA NextAttempt ==
  ASSUME NEW n \in 0..MaxSends, n < MaxSends
  PROVE  n + 1 \in 1..MaxSends /\ n + 1 \in 0..MaxSends
BY SendsAssumption

LEMMA FaultType == ASSUME TypeOK, Fault PROVE faults' \in Nat
<1>1. faults \in Nat
  BY DEF TypeOK
<1>2. faults' = faults + 1
  BY DEF Fault
<1> QED
  BY <1>1, <1>2

LEMMA HookType ==
  ASSUME TypeOK, NEW h \in Hook, HookStep(h)
  PROVE  TypeOK'
<1> USE DEF TypeOK, Records
<1>1. ASSUME hook[h] \in {"idle", "retry"}
      PROVE  sends[h] + 1 \in 1..MaxSends /\ sends[h] + 1 \in 0..MaxSends
  <2>1. sends[h] \in 0..MaxSends /\ sends[h] < MaxSends
    BY <1>1
  <2> QED
    BY <2>1, NextAttempt
<1>2. CASE Send(h)
  <2>1. sends[h] + 1 \in 1..MaxSends /\ sends[h] + 1 \in 0..MaxSends
    BY <1>1, <1>2 DEF Send
  <2> DEFINE n == sends[h] + 1
  <2>2. [to |-> socket, from |-> h, number |-> n] \in Connection
    BY <1>2, <2>1 DEF Send, Connection
  <2>3. /\ mail' = mail \union {[to |-> socket, from |-> h, number |-> n]}
        /\ sends' = [sends EXCEPT ![h] = n]
    BY <1>2 DEF Send
  <2> HIDE DEF n
  <2>4. mail' \subseteq Connection /\ sends' \in [Hook -> 0..MaxSends]
    BY <2>1, <2>2, <2>3 DEF n
  <2>5. \A g \in Hook : hook'[g] \in {"idle", "retry"} => sends'[g] < MaxSends
    BY <1>2, <2>3 DEF Send
  <2> QED
    BY <1>2, <2>4, <2>5 DEF Send
<1>3. CASE SendFails(h)
  <2> DEFINE n == sends[h] + 1
  <2>1. n \in 0..MaxSends
    BY <1>1, <1>3 DEF SendFails
  <2>2. Retry(h, n)
    BY <1>3 DEF SendFails
  <2> HIDE DEF n
  <2>3. /\ sends' = [sends EXCEPT ![h] = n]
        /\ \E l \in {"retry", "fallback"} :
             hook' = [hook EXCEPT ![h] = l] /\ (l = "retry" => n < MaxSends)
    BY <2>2 DEF Retry
  <2>4. sends' \in [Hook -> 0..MaxSends]
    BY <2>1, <2>3
  <2>5. hook' \in [Hook -> {"idle", "sent", "retry", "fallback"} \union Outcomes]
    BY <2>3
  <2>6. \A g \in Hook : hook'[g] \in {"idle", "retry"} => sends'[g] < MaxSends
    BY <2>3
  <2> QED
    BY <1>3, <2>4, <2>5, <2>6 DEF SendFails
<1>4. CASE GiveUp(h)
  BY <1>4 DEF GiveUp, Retry
<1>5. CASE AppendFallback(h)
  BY <1>5, SentinelAssumption DEF AppendFallback, Append
<1>6. CASE AppendTorn(h)
  BY <1>6, FaultType, SentinelAssumption DEF AppendTorn
<1>7. CASE AppendRefused(h)
  BY <1>7, FaultType DEF AppendRefused
<1> QED
  BY <1>2, <1>3, <1>4, <1>5, <1>6, <1>7 DEF HookStep

LEMMA RunnerType ==
  ASSUME TypeOK, NEW p \in Runner, Start(p) \/ Serve(p) \/ Replay(p) \/ ShutDown(p) \/ Die(p)
  PROVE  TypeOK'
<1> USE EndsType DEF TypeOK, Records
<1>1. CASE Start(p)
  BY <1>1 DEF Start
<1>2. CASE \E a \in mail : Ingest(p, a)
  <2>1. PICK a \in mail : Ingest(p, a)
    BY <1>2
  <2>2. \A status \in {"committed", "retryable"} : [conn |-> {a}, status |-> status] \in Answer
    BY DEF Answer
  <2>3. answering' \in [Runner -> Answer]
    BY <2>1, <2>2 DEF Ingest
  <2>4. a.from \in Hook
    BY DEF Connection
  <2>5. db' \subseteq Hook /\ reserve' \in BOOLEAN /\ full' \in BOOLEAN /\ faults' \in Nat
    BY <2>1, <2>4, FaultType DEF Ingest
  <2> QED
    BY <2>1, <2>3, <2>5 DEF Ingest
<1>3. CASE Acknowledge(p)
  <2>1. NoAnswer \in Answer
    BY DEF NoAnswer, Answer
  <2>2. PICK h \in Hook :
          hook' = [hook EXCEPT ![h] = IF answering[p].status = "committed"
                                      THEN "committed" ELSE "fallback"]
    BY <1>3 DEF Acknowledge
  <2>3. hook' \in [Hook -> {"idle", "sent", "retry", "fallback"} \union Outcomes]
    BY <2>2
  <2>4. \A g \in Hook : hook'[g] \in {"idle", "retry"} => sends[g] < MaxSends
    BY <2>2
  <2> QED
    BY <1>3, <2>1, <2>3, <2>4 DEF Acknowledge
<1>4. CASE AcknowledgeTooLate(p)
  BY <1>4 DEF AcknowledgeTooLate
<1>5. CASE OpenOld(p)
  BY <1>5 DEF OpenOld
<1>6. CASE \E e \in todo[p] : IngestRecord(p, e)
  <2>1. PICK e \in todo[p] : IngestRecord(p, e)
    BY <1>6
  <2>2. db' \subseteq Hook /\ todo' \in [Runner -> SUBSET Hook]
    BY <2>1 DEF IngestRecord
  <2> QED
    BY <2>1, <2>2 DEF IngestRecord
<1>7. CASE IngestFails(p)
  BY <1>7, FaultType DEF IngestFails
<1>8. CASE RemoveReplay(p)
  BY <1>8 DEF RemoveReplay
<1>9. CASE RemoveMissing(p)
  BY <1>9 DEF RemoveMissing
<1>10. CASE CheckQueue(p)
  BY <1>10 DEF CheckQueue
<1>11. CASE RenameQueue(p)
  BY <1>11 DEF RenameQueue
<1>12. CASE OpenNew(p)
  BY <1>12 DEF OpenNew
<1>13. CASE Rearm(p)
  BY <1>13 DEF Rearm
<1>14. CASE Finish(p)
  BY <1>14 DEF Finish
<1>15. CASE ProbeSocket(p)
  BY <1>15 DEF ProbeSocket
<1>16. CASE UnlinkSocket(p)
  BY <1>16, SentinelAssumption DEF UnlinkSocket
<1>17. CASE Bind(p)
  BY <1>17 DEF Bind
<1>18. CASE ShutDown(p)
  BY <1>18, SentinelAssumption DEF ShutDown
<1>19. CASE Die(p)
  BY <1>19, FaultType DEF Die
<1> QED
  BY <1>1, <1>2, <1>3, <1>4, <1>5, <1>6, <1>7, <1>8, <1>9, <1>10, <1>11, <1>12,
     <1>13, <1>14, <1>15, <1>16, <1>17, <1>18, <1>19
     DEF Serve, Replay

LEMMA TypeStep == TypeOK /\ [Next]_vars => TypeOK'
<1> SUFFICES ASSUME TypeOK, [Next]_vars PROVE TypeOK'
  OBVIOUS
<1>1. CASE UNCHANGED vars
  BY <1>1 DEF vars, TypeOK
<1>2. CASE FillDisk \/ FreeDisk
  <2>1. fills \in Nat
    BY DEF TypeOK
  <2>2. fills' = fills + 1 \/ fills' = fills
    BY <1>2 DEF FillDisk, FreeDisk
  <2>3. fills' \in Nat
    BY <2>1, <2>2
  <2>4. /\ full' \in BOOLEAN
        /\ UNCHANGED <<db, files, reserve, socket, mail, hookVars, runnerVars, faults>>
    BY <1>2 DEF FillDisk, FreeDisk
  <2> QED
    BY <2>3, <2>4 DEF TypeOK
<1>3. CASE \E h \in Hook : HookStep(h)
  BY <1>3, HookType
<1>4. CASE \E p \in Runner : Start(p) \/ Serve(p) \/ Replay(p) \/ ShutDown(p) \/ Die(p)
  BY <1>4, RunnerType
<1> QED
  BY <1>1, <1>2, <1>3, <1>4 DEF Next

(* Every variable of the delivery stays in its range. *)
THEOREM TypeCorrect == Spec => []TypeOK
BY InitType, TypeStep, PTL DEF Spec
-------------------------------------------------------------------------------
(* The inductive invariant.                                                *)

LEMMA InitEstablishes == ASSUME Init PROVE IInv
<1>1. /\ db = {} /\ replay = NoFile /\ fills = 0 /\ ~full /\ reserve
      /\ \A h \in Hook : hook[h] = "idle"
      /\ \A p \in Runner : pc[p] = "idle" /\ answering[p].status = "none"
  BY DEF Init, NoAnswer
<1> QED
  BY <1>1, InitType DEF IInv, AnswersAreTrue, CommittedIsStored, OneReplay,
     ReplayedIsStored, RenameIsSafe, OwedIsKept, SuccessIsDurableIntact,
     SuccessIsDurable, ReserveIsThere, ReserveSavesEvents

(* The parts of the type invariant the following proofs use. *)
LEMMA Typed ==
  ASSUME TypeOK
  PROVE  /\ db \subseteq Hook
         /\ queue = NoFile \/ queue \subseteq Hook
         /\ replay = NoFile \/ replay \subseteq Hook
         /\ hook \in [Hook -> {"idle", "sent", "retry", "fallback"} \union Outcomes]
         /\ pc \in [Runner -> {"idle", "reserve", "replayed", "unlink", "bind"}
                              \union Replaying \union Serving]
         /\ todo \in [Runner -> SUBSET Hook]
         /\ answering \in [Runner -> Answer]
         /\ owed \in [Runner -> SUBSET Hook]
         /\ \A a \in mail : a.from \in Hook
         /\ \A p \in Runner : \A a \in answering[p].conn : a.from \in Hook
         /\ overlapped \in BOOLEAN /\ garbled \in BOOLEAN /\ torn \in BOOLEAN
<1>1. \A a \in Connection : a.from \in Hook
  BY DEF Connection
<1>2. \A p \in Runner : answering[p].conn \subseteq Connection
  BY DEF TypeOK, Answer
<1> QED
  BY <1>1, <1>2 DEF TypeOK

LEMMA RecordsIs ==
  /\ Records(NoFile) = {}
  /\ \A S \in SUBSET Hook : Records(S) = S
BY SentinelAssumption DEF Records

(* The parts of the invariant that are about files and answers. *)
Delivered ==
  /\ AnswersAreTrue
  /\ CommittedIsStored
  /\ ~overlapped => OneReplay /\ ReplayedIsStored /\ RenameIsSafe
  /\ ~overlapped => OwedIsKept
  /\ SuccessIsDurableIntact

(* Hooks. *)
LEMMA HookDelivers ==
  ASSUME TypeOK, TypeOK', Delivered, NEW h \in Hook, HookStep(h)
  PROVE  Delivered'
<1> USE Typed, RecordsIs DEF Delivered
<1>1. CASE Send(h)
  <2>1. AnswersAreTrue' /\ CommittedIsStored'
    BY <1>1 DEF Send, AnswersAreTrue, CommittedIsStored
  <2>2. ~overlapped' => OneReplay' /\ ReplayedIsStored' /\ RenameIsSafe'
    BY <1>1 DEF Send, OneReplay, ReplayedIsStored, RenameIsSafe
  <2>3. ~overlapped' => OwedIsKept'
    BY <1>1 DEF Send, OwedIsKept, Durable
  <2>4. SuccessIsDurableIntact'
    BY <1>1 DEF Send, SuccessIsDurableIntact, SuccessIsDurable, Durable
  <2> QED
    BY <2>1, <2>2, <2>3, <2>4
<1>2. CASE SendFails(h)
  <2>1. AnswersAreTrue' /\ CommittedIsStored'
    BY <1>2 DEF SendFails, Retry, AnswersAreTrue, CommittedIsStored
  <2>2. ~overlapped' => OneReplay' /\ ReplayedIsStored' /\ RenameIsSafe'
    BY <1>2 DEF SendFails, Retry, OneReplay, ReplayedIsStored, RenameIsSafe
  <2>3. ~overlapped' => OwedIsKept'
    BY <1>2 DEF SendFails, Retry, OwedIsKept, Durable
  <2>4. SuccessIsDurableIntact'
    BY <1>2 DEF SendFails, Retry, SuccessIsDurableIntact, SuccessIsDurable, Durable
  <2> QED
    BY <2>1, <2>2, <2>3, <2>4
<1>3. CASE GiveUp(h)
  <2>1. AnswersAreTrue' /\ CommittedIsStored'
    BY <1>3 DEF GiveUp, Retry, AnswersAreTrue, CommittedIsStored
  <2>2. ~overlapped' => OneReplay' /\ ReplayedIsStored' /\ RenameIsSafe'
    BY <1>3 DEF GiveUp, Retry, OneReplay, ReplayedIsStored, RenameIsSafe
  <2>3. ~overlapped' => OwedIsKept'
    BY <1>3 DEF GiveUp, Retry, OwedIsKept, Durable
  <2>4. SuccessIsDurableIntact'
    BY <1>3 DEF GiveUp, Retry, SuccessIsDurableIntact, SuccessIsDurable, Durable
  <2> QED
    BY <2>1, <2>2, <2>3, <2>4
<1>4. CASE AppendFallback(h)
  <2>1. /\ UNCHANGED <<db, replay, runnerVars>>
        /\ Records(queue) \subseteq Records(queue')
        /\ ~garbled' => ~garbled /\ (hook'[h] = "queued" => h \in Records(queue'))
        /\ \A g \in Hook : g # h => hook'[g] = hook[g]
        /\ hook'[h] # "committed"
    <3>1. UNCHANGED <<db, replay, runnerVars>>
      BY <1>4 DEF AppendFallback
    <3>2. \/ \E fragment \in BOOLEAN : Append(h, fragment)
          \/ /\ hook' = [hook EXCEPT ![h] = "lost"]
             /\ UNCHANGED garbled
             /\ queue' \in {queue, Records(queue)}
      BY <1>4 DEF AppendFallback
    <3>3. Records(queue) \in SUBSET Hook
      OBVIOUS
    <3>4. CASE \E fragment \in BOOLEAN : Append(h, fragment)
      <4>1. PICK fragment \in BOOLEAN : Append(h, fragment)
        BY <3>4
      <4>2. /\ hook' = [hook EXCEPT ![h] = "queued"]
            /\ garbled' = (garbled \/ fragment)
            /\ queue' = Records(queue) \union (IF fragment THEN {} ELSE {h})
        BY <4>1 DEF Append
      <4>3. queue' \in SUBSET Hook
        BY <3>3, <4>2
      <4>4. Records(queue') = queue'
        BY <4>3
      <4> QED
        BY <3>1, <4>2, <4>4
    <3>5. CASE /\ hook' = [hook EXCEPT ![h] = "lost"]
               /\ UNCHANGED garbled
               /\ queue' \in {queue, Records(queue)}
      <4>1. Records(queue') = Records(queue)
        BY <3>3, <3>5
      <4> QED
        BY <3>1, <3>5, <4>1
    <3> QED
      BY <3>2, <3>4, <3>5
  <2>2. AnswersAreTrue' /\ CommittedIsStored'
    BY <2>1 DEF AnswersAreTrue, CommittedIsStored
  <2>3. ~overlapped' => OneReplay' /\ ReplayedIsStored' /\ RenameIsSafe'
    BY <2>1 DEF OneReplay, ReplayedIsStored, RenameIsSafe
  <2>4. Durable \subseteq Durable'
    BY <2>1 DEF Durable
  <2>5. ~overlapped' => OwedIsKept'
    BY <2>1, <2>4 DEF OwedIsKept
  <2>6. SuccessIsDurableIntact'
    <3> SUFFICES ASSUME ~overlapped', ~garbled', NEW g \in Hook,
                        hook'[g] \in {"committed", "queued"}
                 PROVE  g \in Durable'
      BY DEF SuccessIsDurableIntact, SuccessIsDurable
    <3>1. CASE g = h
      BY <2>1, <3>1 DEF Durable
    <3>2. CASE g # h
      BY <2>1, <2>4, <3>2 DEF SuccessIsDurableIntact, SuccessIsDurable
    <3> QED
      BY <3>1, <3>2
  <2> QED
    BY <2>2, <2>3, <2>5, <2>6
<1>5. CASE AppendTorn(h)
  <2>1. AnswersAreTrue' /\ CommittedIsStored'
    BY <1>5 DEF AppendTorn, AnswersAreTrue, CommittedIsStored
  <2>2. ~overlapped' => OneReplay' /\ ReplayedIsStored' /\ RenameIsSafe'
    BY <1>5 DEF AppendTorn, OneReplay, ReplayedIsStored, RenameIsSafe
  <2>3. ~overlapped' => OwedIsKept'
    BY <1>5 DEF AppendTorn, OwedIsKept, Durable
  <2>4. SuccessIsDurableIntact'
    BY <1>5 DEF AppendTorn, SuccessIsDurableIntact, SuccessIsDurable, Durable
  <2> QED
    BY <2>1, <2>2, <2>3, <2>4
<1>6. CASE AppendRefused(h)
  <2>1. AnswersAreTrue' /\ CommittedIsStored'
    BY <1>6 DEF AppendRefused, AnswersAreTrue, CommittedIsStored
  <2>2. ~overlapped' => OneReplay' /\ ReplayedIsStored' /\ RenameIsSafe'
    BY <1>6 DEF AppendRefused, OneReplay, ReplayedIsStored, RenameIsSafe
  <2>3. ~overlapped' => OwedIsKept'
    BY <1>6 DEF AppendRefused, OwedIsKept, Durable
  <2>4. SuccessIsDurableIntact'
    BY <1>6 DEF AppendRefused, SuccessIsDurableIntact, SuccessIsDurable, Durable
  <2> QED
    BY <2>1, <2>2, <2>3, <2>4
<1> QED
  BY <1>1, <1>2, <1>3, <1>4, <1>5, <1>6 DEF HookStep

(* The end of a process. *)
LEMMA EndDelivers ==
  ASSUME TypeOK, Delivered, NEW p \in Runner, Ends(p),
         UNCHANGED <<db, files, hook, overlapped>>
  PROVE  Delivered'
<1> USE Typed DEF Delivered
<1>1. AnswersAreTrue' /\ CommittedIsStored'
  BY DEF Ends, NoAnswer, AnswersAreTrue, CommittedIsStored
<1>2. ~overlapped' => OneReplay' /\ ReplayedIsStored' /\ RenameIsSafe'
  BY DEF Ends, OneReplay, ReplayedIsStored, RenameIsSafe
<1>3. ~overlapped' => OwedIsKept'
  BY DEF Ends, OwedIsKept, Durable
<1>4. SuccessIsDurableIntact'
  BY DEF SuccessIsDurableIntact, SuccessIsDurable, Durable
<1> QED
  BY <1>1, <1>2, <1>3, <1>4

(* Daemons and replays. *)
LEMMA RunnerDelivers ==
  ASSUME TypeOK, TypeOK', Delivered, NEW p \in Runner,
         Start(p) \/ Serve(p) \/ Replay(p) \/ ShutDown(p) \/ Die(p)
  PROVE  Delivered'
<1> USE Typed, RecordsIs DEF Delivered
<1>1. CASE Start(p)
  <2>1. AnswersAreTrue' /\ CommittedIsStored'
    BY <1>1 DEF Start, AnswersAreTrue, CommittedIsStored
  <2>2. ~overlapped' => OneReplay' /\ ReplayedIsStored' /\ RenameIsSafe'
    BY <1>1 DEF Start, OneReplay, ReplayedIsStored, RenameIsSafe
  <2>3. ~overlapped' => OwedIsKept'
    BY <1>1 DEF Start, OwedIsKept, Durable
  <2>4. SuccessIsDurableIntact'
    BY <1>1 DEF Start, SuccessIsDurableIntact, SuccessIsDurable, Durable
  <2> QED
    BY <2>1, <2>2, <2>3, <2>4
<1>2. CASE \E a \in mail : Ingest(p, a)
  <2>1. PICK a \in mail : Ingest(p, a)
    BY <1>2
  <2>7. /\ db \subseteq db'
        /\ pc' = [pc EXCEPT ![p] = "answer"]
        /\ UNCHANGED <<files, hook, todo, owed, overlapped>>
    BY <2>1 DEF Ingest
  <2>8. \/ /\ answering' = [answering EXCEPT ![p] = [conn |-> {a}, status |-> "committed"]]
           /\ a.from \in db'
        \/ answering' = [answering EXCEPT ![p] = [conn |-> {a}, status |-> "retryable"]]
    BY <2>1 DEF Ingest
  <2>9. \A q \in Runner : q # p => answering'[q] = answering[q]
    BY <2>8
  <2>10. answering'[p].status = "committed" => \A b \in answering'[p].conn : b.from \in db'
    <3>1. CASE /\ answering' = [answering EXCEPT ![p] = [conn |-> {a}, status |-> "committed"]]
               /\ a.from \in db'
      <4>1. answering'[p].conn = {a}
        BY <3>1
      <4> QED
        BY <3>1, <4>1
    <3>2. CASE answering' = [answering EXCEPT ![p] = [conn |-> {a}, status |-> "retryable"]]
      <4>1. answering'[p].status = "retryable"
        BY <3>2
      <4> QED
        BY <4>1
    <3> QED
      BY <2>8, <3>1, <3>2
  <2>2. /\ db \subseteq db'
        /\ answering'[p].status = "committed" => \A b \in answering'[p].conn : b.from \in db'
        /\ \A q \in Runner : q # p => answering'[q] = answering[q]
        /\ pc' = [pc EXCEPT ![p] = "answer"]
        /\ UNCHANGED <<files, hook, todo, owed, overlapped>>
    BY <2>7, <2>9, <2>10
  <2>3. AnswersAreTrue' /\ CommittedIsStored'
    BY <2>2 DEF AnswersAreTrue, CommittedIsStored
  <2>4. ~overlapped' => OneReplay' /\ ReplayedIsStored' /\ RenameIsSafe'
    BY <2>2 DEF OneReplay, ReplayedIsStored, RenameIsSafe
  <2>5. ~overlapped' => OwedIsKept'
    BY <2>2 DEF OwedIsKept, Durable
  <2>6. SuccessIsDurableIntact'
    BY <2>2 DEF SuccessIsDurableIntact, SuccessIsDurable, Durable
  <2> QED
    BY <2>3, <2>4, <2>5, <2>6
<1>3. CASE Acknowledge(p)
  <2>1. PICK h \in Hook, a \in answering[p].conn :
          /\ a.from = h
          /\ hook' = [hook EXCEPT ![h] = IF answering[p].status = "committed"
                                      THEN "committed" ELSE "fallback"]
    BY <1>3 DEF Acknowledge, Awaits
  <2>2. hook'[h] = "committed" => h \in db
    BY <2>1 DEF AnswersAreTrue
  <2>3. AnswersAreTrue'
    BY <1>3 DEF Acknowledge, AnswersAreTrue, NoAnswer
  <2>4. CommittedIsStored'
    BY <1>3, <2>1, <2>2 DEF Acknowledge, CommittedIsStored
  <2>5. ~overlapped' => OneReplay' /\ ReplayedIsStored' /\ RenameIsSafe'
    BY <1>3 DEF Acknowledge, OneReplay, ReplayedIsStored, RenameIsSafe
  <2>6. ~overlapped' => OwedIsKept'
    BY <1>3 DEF Acknowledge, OwedIsKept, Durable
  <2>7. SuccessIsDurableIntact'
    BY <1>3, <2>1, <2>2 DEF Acknowledge, SuccessIsDurableIntact, SuccessIsDurable, Durable
  <2> QED
    BY <2>3, <2>4, <2>5, <2>6, <2>7
<1>4. CASE AcknowledgeTooLate(p)
  BY <1>4, EndDelivers DEF AcknowledgeTooLate
<1>5. CASE OpenOld(p)
  <2>1. AnswersAreTrue' /\ CommittedIsStored'
    BY <1>5 DEF OpenOld, AnswersAreTrue, CommittedIsStored
  <2>2. ~overlapped' => OneReplay' /\ ReplayedIsStored' /\ RenameIsSafe'
    BY <1>5 DEF OpenOld, OneReplay, ReplayedIsStored, RenameIsSafe
  <2>3. ~overlapped' => OwedIsKept'
    BY <1>5 DEF OpenOld, OwedIsKept, Durable
  <2>4. SuccessIsDurableIntact'
    BY <1>5 DEF OpenOld, SuccessIsDurableIntact, SuccessIsDurable, Durable
  <2> QED
    BY <2>1, <2>2, <2>3, <2>4
<1>6. CASE \E e \in todo[p] : IngestRecord(p, e)
  <2>1. PICK e \in todo[p] : IngestRecord(p, e)
    BY <1>6
  <2>2. /\ db \subseteq db'
        /\ db \union todo[p] \subseteq db' \union todo'[p]
        /\ \A q \in Runner : q # p => todo'[q] = todo[q]
        /\ UNCHANGED <<files, hook, pc, answering, owed, overlapped>>
    BY <2>1 DEF IngestRecord
  <2>3. AnswersAreTrue' /\ CommittedIsStored'
    BY <2>2 DEF AnswersAreTrue, CommittedIsStored
  <2>4. ~overlapped' => OneReplay' /\ ReplayedIsStored' /\ RenameIsSafe'
    BY <2>2 DEF OneReplay, ReplayedIsStored, RenameIsSafe
  <2>5. ~overlapped' => OwedIsKept'
    BY <2>2 DEF OwedIsKept, Durable
  <2>6. SuccessIsDurableIntact'
    BY <2>2 DEF SuccessIsDurableIntact, SuccessIsDurable, Durable
  <2> QED
    BY <2>3, <2>4, <2>5, <2>6
<1>7. CASE IngestFails(p)
  BY <1>7, EndDelivers DEF IngestFails
<1>8. CASE RemoveReplay(p)
  <2>1. AnswersAreTrue' /\ CommittedIsStored'
    BY <1>8 DEF RemoveReplay, AnswersAreTrue, CommittedIsStored
  <2>2. ~overlapped' => OneReplay' /\ ReplayedIsStored' /\ RenameIsSafe'
    BY <1>8 DEF RemoveReplay, OneReplay, ReplayedIsStored, RenameIsSafe
  <2>3. ~overlapped' => OwedIsKept'
    BY <1>8 DEF RemoveReplay, OwedIsKept, Durable, ReplayedIsStored
  <2>4. SuccessIsDurableIntact'
    BY <1>8 DEF RemoveReplay, SuccessIsDurableIntact, SuccessIsDurable, Durable, ReplayedIsStored
  <2> QED
    BY <2>1, <2>2, <2>3, <2>4
<1>9. CASE RemoveMissing(p)
  BY <1>9, EndDelivers DEF RemoveMissing
<1>10. CASE CheckQueue(p)
  <2>1. AnswersAreTrue' /\ CommittedIsStored'
    BY <1>10 DEF CheckQueue, AnswersAreTrue, CommittedIsStored
  <2>2. ~overlapped' => OneReplay' /\ ReplayedIsStored' /\ RenameIsSafe'
    BY <1>10 DEF CheckQueue, OneReplay, ReplayedIsStored, RenameIsSafe
  <2>3. ~overlapped' => OwedIsKept'
    BY <1>10 DEF CheckQueue, OwedIsKept, Durable, RenameIsSafe
  <2>4. SuccessIsDurableIntact'
    BY <1>10 DEF CheckQueue, SuccessIsDurableIntact, SuccessIsDurable, Durable
  <2> QED
    BY <2>1, <2>2, <2>3, <2>4
<1>11. CASE RenameQueue(p)
  <2>1. AnswersAreTrue' /\ CommittedIsStored'
    BY <1>11 DEF RenameQueue, AnswersAreTrue, CommittedIsStored
  <2>2. ~overlapped' => OneReplay' /\ ReplayedIsStored' /\ RenameIsSafe'
    BY <1>11 DEF RenameQueue, OneReplay, ReplayedIsStored, RenameIsSafe
  <2>3. ~overlapped' => OwedIsKept'
    BY <1>11 DEF RenameQueue, OwedIsKept, Durable, RenameIsSafe
  <2>4. SuccessIsDurableIntact'
    BY <1>11 DEF RenameQueue, SuccessIsDurableIntact, SuccessIsDurable, Durable, RenameIsSafe
  <2> QED
    BY <2>1, <2>2, <2>3, <2>4
<1>12. CASE OpenNew(p)
  <2>1. AnswersAreTrue' /\ CommittedIsStored'
    BY <1>12 DEF OpenNew, AnswersAreTrue, CommittedIsStored
  <2>2. ~overlapped' => OneReplay' /\ ReplayedIsStored' /\ RenameIsSafe'
    BY <1>12 DEF OpenNew, OneReplay, ReplayedIsStored, RenameIsSafe
  <2>3. ~overlapped' => OwedIsKept'
    BY <1>12 DEF OpenNew, OwedIsKept, Durable
  <2>4. SuccessIsDurableIntact'
    BY <1>12 DEF OpenNew, SuccessIsDurableIntact, SuccessIsDurable, Durable
  <2> QED
    BY <2>1, <2>2, <2>3, <2>4
<1>13. CASE Rearm(p)
  <2>1. CASE Ends(p)
    BY <1>13, <2>1, EndDelivers DEF Rearm
  <2>2. CASE /\ pc' = [pc EXCEPT ![p] = "replayed"]
             /\ UNCHANGED <<todo, answering, owed>>
    <3>1. AnswersAreTrue' /\ CommittedIsStored'
      BY <1>13, <2>2 DEF Rearm, AnswersAreTrue, CommittedIsStored
    <3>2. ~overlapped' => OneReplay' /\ ReplayedIsStored' /\ RenameIsSafe'
      BY <1>13, <2>2 DEF Rearm, OneReplay, ReplayedIsStored, RenameIsSafe
    <3>3. ~overlapped' => OwedIsKept'
      BY <1>13, <2>2 DEF Rearm, OwedIsKept, Durable
    <3>4. SuccessIsDurableIntact'
      BY <1>13, <2>2 DEF Rearm, SuccessIsDurableIntact, SuccessIsDurable, Durable
    <3> QED
      BY <3>1, <3>2, <3>3, <3>4
  <2> QED
    BY <1>13, <2>1, <2>2 DEF Rearm
<1>14. CASE Finish(p)
  BY <1>14, EndDelivers DEF Finish
<1>15. CASE ProbeSocket(p)
  <2>1. AnswersAreTrue' /\ CommittedIsStored'
    BY <1>15 DEF ProbeSocket, AnswersAreTrue, CommittedIsStored
  <2>2. ~overlapped' => OneReplay' /\ ReplayedIsStored' /\ RenameIsSafe'
    BY <1>15 DEF ProbeSocket, OneReplay, ReplayedIsStored, RenameIsSafe
  <2>3. ~overlapped' => OwedIsKept'
    BY <1>15 DEF ProbeSocket, OwedIsKept, Durable
  <2>4. SuccessIsDurableIntact'
    BY <1>15 DEF ProbeSocket, SuccessIsDurableIntact, SuccessIsDurable, Durable
  <2> QED
    BY <2>1, <2>2, <2>3, <2>4
<1>16. CASE UnlinkSocket(p)
  <2>1. CASE Ends(p)
    BY <1>16, <2>1, EndDelivers DEF UnlinkSocket
  <2>2. CASE /\ pc' = [pc EXCEPT ![p] = "bind"]
             /\ UNCHANGED <<todo, answering, owed>>
    <3>1. AnswersAreTrue' /\ CommittedIsStored'
      BY <1>16, <2>2 DEF UnlinkSocket, AnswersAreTrue, CommittedIsStored
    <3>2. ~overlapped' => OneReplay' /\ ReplayedIsStored' /\ RenameIsSafe'
      BY <1>16, <2>2 DEF UnlinkSocket, OneReplay, ReplayedIsStored, RenameIsSafe
    <3>3. ~overlapped' => OwedIsKept'
      BY <1>16, <2>2 DEF UnlinkSocket, OwedIsKept, Durable
    <3>4. SuccessIsDurableIntact'
      BY <1>16, <2>2 DEF UnlinkSocket, SuccessIsDurableIntact, SuccessIsDurable, Durable
    <3> QED
      BY <3>1, <3>2, <3>3, <3>4
  <2> QED
    BY <1>16, <2>1, <2>2 DEF UnlinkSocket
<1>17. CASE Bind(p)
  <2>1. CASE Ends(p)
    BY <1>17, <2>1, EndDelivers DEF Bind
  <2>2. CASE /\ pc' = [pc EXCEPT ![p] = "serve"]
             /\ UNCHANGED <<todo, answering, owed>>
    <3>1. AnswersAreTrue' /\ CommittedIsStored'
      BY <1>17, <2>2 DEF Bind, AnswersAreTrue, CommittedIsStored
    <3>2. ~overlapped' => OneReplay' /\ ReplayedIsStored' /\ RenameIsSafe'
      BY <1>17, <2>2 DEF Bind, OneReplay, ReplayedIsStored, RenameIsSafe
    <3>3. ~overlapped' => OwedIsKept'
      BY <1>17, <2>2 DEF Bind, OwedIsKept, Durable
    <3>4. SuccessIsDurableIntact'
      BY <1>17, <2>2 DEF Bind, SuccessIsDurableIntact, SuccessIsDurable, Durable
    <3> QED
      BY <3>1, <3>2, <3>3, <3>4
  <2> QED
    BY <1>17, <2>1, <2>2 DEF Bind
<1>18. CASE ShutDown(p)
  <2>1. AnswersAreTrue' /\ CommittedIsStored'
    BY <1>18 DEF ShutDown, AnswersAreTrue, CommittedIsStored
  <2>2. ~overlapped' => OneReplay' /\ ReplayedIsStored' /\ RenameIsSafe'
    BY <1>18 DEF ShutDown, OneReplay, ReplayedIsStored, RenameIsSafe
  <2>3. ~overlapped' => OwedIsKept'
    BY <1>18 DEF ShutDown, OwedIsKept, Durable
  <2>4. SuccessIsDurableIntact'
    BY <1>18 DEF ShutDown, SuccessIsDurableIntact, SuccessIsDurable, Durable
  <2> QED
    BY <2>1, <2>2, <2>3, <2>4
<1>19. CASE Die(p)
  BY <1>19, EndDelivers DEF Die
<1> QED
  BY <1>1, <1>2, <1>3, <1>4, <1>5, <1>6, <1>7, <1>8, <1>9, <1>10,
     <1>11, <1>12, <1>13, <1>14, <1>15, <1>16, <1>17, <1>18, <1>19
     DEF Serve, Replay

LEMMA EnvironmentDelivers ==
  ASSUME TypeOK, Delivered, UNCHANGED <<db, files, hook, runnerVars>>
  PROVE  Delivered'
BY DEF Delivered, AnswersAreTrue, CommittedIsStored, OneReplay, ReplayedIsStored,
       RenameIsSafe, OwedIsKept, SuccessIsDurableIntact, SuccessIsDurable, Durable
-------------------------------------------------------------------------------
(* The reserve.                                                            *)

Reserved == ReserveIsThere /\ ReserveSavesEvents

(* After a fault, nothing is claimed. *)
LEMMA FaultExcuses ==
  ASSUME TypeOK, Fault
  PROVE  Reserved'
<1>1. faults \in Nat
  BY DEF TypeOK
<1>2. faults' > 0 /\ faults' # 0
  BY <1>1 DEF Fault
<1> QED
  BY <1>2 DEF Reserved, ReserveIsThere, ReserveSavesEvents

LEMMA OtherStepsReserve ==
  ASSUME Reserved, UNCHANGED <<reserve, full, fills, faults>>,
         \A h \in Hook : hook'[h] = "lost" => hook[h] = "lost"
  PROVE  Reserved'
BY DEF Reserved, ReserveIsThere, ReserveSavesEvents

(* Releasing the reserve of a full disk makes room, unless it is gone.     *)
LEMMA ReleaseReserves ==
  ASSUME TypeOK, Reserved, full, ~reserve', full' = ~reserve, UNCHANGED <<fills, faults>>,
         \A h \in Hook : hook'[h] = "lost" => hook[h] = "lost"
  PROVE  Reserved'
BY DEF TypeOK, Reserved, ReserveIsThere, ReserveSavesEvents

LEMMA HookReserves ==
  ASSUME TypeOK, Reserved, NEW h \in Hook, HookStep(h)
  PROVE  Reserved'
<1>1. hook \in [Hook -> {"idle", "sent", "retry", "fallback"} \union Outcomes]
  BY DEF TypeOK
<1>2. CASE Send(h) \/ SendFails(h) \/ GiveUp(h)
  <2>1. \A g \in Hook : hook'[g] = "lost" => hook[g] = "lost"
    BY <1>1, <1>2 DEF Send, SendFails, GiveUp, Retry
  <2>2. UNCHANGED <<reserve, full, fills, faults>>
    BY <1>2 DEF Send, SendFails, GiveUp
  <2> QED
    BY <2>1, <2>2, OtherStepsReserve
<1>3. CASE AppendFallback(h)
  <2>1. UNCHANGED <<fills, faults>>
    BY <1>3 DEF AppendFallback
  <2>2. CASE ~full
    <3>1. /\ \A g \in Hook : hook'[g] = "lost" => hook[g] = "lost"
          /\ UNCHANGED <<reserve, full>>
      BY <1>1, <1>3, <2>2 DEF AppendFallback, Append
    <3> QED
      BY <2>1, <3>1, OtherStepsReserve
  <2>3. CASE full /\ reserve
    <3>1. /\ \A g \in Hook : hook'[g] = "lost" => hook[g] = "lost"
          /\ reserve' = FALSE /\ full' = FALSE
      BY <1>1, <1>3, <2>3 DEF AppendFallback, Append
    <3> QED
      BY <2>1, <2>3, <3>1, ReleaseReserves
  <2>4. CASE full /\ ~reserve
    <3>1. UNCHANGED <<reserve, full>>
      BY <1>3, <2>4 DEF AppendFallback
    <3>2. ReserveIsThere'
      BY <2>1, <3>1 DEF Reserved, ReserveIsThere
    <3>3. fills \in Nat /\ faults \in Nat
      BY DEF TypeOK
    <3>4. faults = 0 => fills > 1
      BY <2>4, <3>3 DEF Reserved, ReserveIsThere
    <3>5. fills' > 1 \/ faults' > 0
      BY <2>1, <3>3, <3>4
    <3> QED
      BY <3>2, <3>5 DEF Reserved, ReserveSavesEvents
  <2> QED
    BY <2>2, <2>3, <2>4
<1>4. CASE AppendTorn(h) \/ AppendRefused(h)
  BY <1>4, FaultExcuses DEF AppendTorn, AppendRefused
<1> QED
  BY <1>2, <1>3, <1>4 DEF HookStep

LEMMA ReplayReserves ==
  ASSUME TypeOK, Reserved, NEW p \in Runner, Replay(p)
  PROVE  Reserved'
<1>1. UNCHANGED hook
  BY DEF Replay, OpenOld, IngestRecord, IngestFails, RemoveReplay, RemoveMissing,
     CheckQueue, RenameQueue, OpenNew, Rearm, Finish, ProbeSocket, UnlinkSocket, Bind
<1>2. CASE Rearm(p)
  <2>1. /\ UNCHANGED <<full, fills, faults>>
        /\ reserve' = reserve \/ reserve' = TRUE
    BY <1>2 DEF Rearm
  <2> QED
    BY <1>1, <2>1 DEF Reserved, ReserveIsThere, ReserveSavesEvents
<1>3. CASE IngestFails(p)
  <2>1. CASE Fault
    BY <2>1, FaultExcuses
  <2>2. CASE UNCHANGED faults
    BY <1>1, <1>3, <2>2, OtherStepsReserve DEF IngestFails
  <2> QED
    BY <1>3, <2>1, <2>2 DEF IngestFails
<1>4. CASE ~Rearm(p) /\ ~IngestFails(p)
  <2>1. UNCHANGED <<reserve, full, fills, faults>>
    BY <1>4 DEF Replay, OpenOld, IngestRecord, RemoveReplay, RemoveMissing,
       CheckQueue, RenameQueue, OpenNew, Finish, ProbeSocket, UnlinkSocket, Bind
  <2> QED
    BY <1>1, <2>1, OtherStepsReserve
<1> QED
  BY <1>2, <1>3, <1>4

LEMMA ServeReserves ==
  ASSUME TypeOK, Reserved, NEW p \in Runner, Serve(p)
  PROVE  Reserved'
<1>1. hook \in [Hook -> {"idle", "sent", "retry", "fallback"} \union Outcomes]
  BY DEF TypeOK
<1>2. CASE \E a \in mail : Ingest(p, a)
  <2>1. PICK a \in mail : Ingest(p, a)
    BY <1>2
  <2>2. UNCHANGED <<fills, hook>>
    BY <2>1 DEF Ingest
  <2>3. \/ UNCHANGED <<reserve, full, faults>>
        \/ full /\ reserve' = FALSE /\ full' = ~reserve /\ UNCHANGED faults
        \/ Fault
    BY <2>1 DEF Ingest
  <2> QED
    BY <2>2, <2>3, OtherStepsReserve, ReleaseReserves, FaultExcuses
<1>3. CASE Acknowledge(p)
  <2>1. \A g \in Hook : hook'[g] = "lost" => hook[g] = "lost"
    BY <1>1, <1>3 DEF Acknowledge
  <2> QED
    BY <1>3, <2>1, OtherStepsReserve DEF Acknowledge
<1>4. CASE AcknowledgeTooLate(p)
  BY <1>4, OtherStepsReserve DEF AcknowledgeTooLate
<1> QED
  BY <1>2, <1>3, <1>4 DEF Serve

LEMMA RunnerReserves ==
  ASSUME TypeOK, Reserved, NEW p \in Runner,
         Start(p) \/ Serve(p) \/ Replay(p) \/ ShutDown(p) \/ Die(p)
  PROVE  Reserved'
<1>1. CASE Start(p) \/ ShutDown(p)
  BY <1>1, OtherStepsReserve DEF Start, ShutDown
<1>2. CASE Die(p)
  BY <1>2, FaultExcuses DEF Die
<1> QED
  BY <1>1, <1>2, ServeReserves, ReplayReserves

(* A disk that is full for the first time still has its reserve.           *)
LEMMA EnvironmentReserves ==
  ASSUME TypeOK, Reserved, FillDisk \/ FreeDisk
  PROVE  Reserved'
<1>1. fills \in Nat /\ faults \in Nat
  BY DEF TypeOK
<1>2. UNCHANGED <<hook, reserve, faults>>
  BY DEF FillDisk, FreeDisk
<1>3. CASE FillDisk
  <2>1. fills' = fills + 1 /\ ~full
    BY <1>3 DEF FillDisk
  <2> QED
    BY <1>1, <1>2, <2>1 DEF Reserved, ReserveIsThere, ReserveSavesEvents
<1>4. CASE FreeDisk
  <2>1. UNCHANGED fills /\ ~full'
    BY <1>4 DEF FreeDisk
  <2> QED
    BY <1>1, <1>2, <2>1 DEF Reserved, ReserveIsThere, ReserveSavesEvents
<1> QED
  BY <1>3, <1>4
-------------------------------------------------------------------------------
(* The theorems.                                                           *)

LEMMA NextPreserves ==
  IInv /\ [Next]_vars => IInv'
<1> SUFFICES ASSUME IInv, [Next]_vars PROVE IInv'
  OBVIOUS
<1>1. TypeOK /\ Delivered /\ Reserved
  BY DEF IInv, Delivered, Reserved
<1>2. TypeOK'
  BY <1>1, TypeStep
<1>3. Delivered'
  <2>1. CASE FillDisk \/ FreeDisk \/ UNCHANGED vars
    BY <1>1, <2>1, EnvironmentDelivers DEF FillDisk, FreeDisk, vars
  <2>2. CASE \E h \in Hook : HookStep(h)
    BY <1>1, <1>2, <2>2, HookDelivers
  <2>3. CASE \E p \in Runner : Start(p) \/ Serve(p) \/ Replay(p) \/ ShutDown(p) \/ Die(p)
    BY <1>1, <1>2, <2>3, RunnerDelivers
  <2> QED
    BY <2>1, <2>2, <2>3 DEF Next
<1>4. Reserved'
  <2>1. CASE UNCHANGED vars
    BY <1>1, <2>1, OtherStepsReserve DEF vars
  <2>2. CASE \E h \in Hook : HookStep(h)
    BY <1>1, <2>2, HookReserves
  <2>3. CASE \E p \in Runner : Start(p) \/ Serve(p) \/ Replay(p) \/ ShutDown(p) \/ Die(p)
    BY <1>1, <2>3, RunnerReserves
  <2>4. CASE FillDisk \/ FreeDisk
    BY <1>1, <2>4, EnvironmentReserves
  <2> QED
    BY <2>1, <2>2, <2>3, <2>4 DEF Next
<1> QED
  BY <1>2, <1>3, <1>4 DEF IInv, Delivered, Reserved

(* The inductive invariant holds in every state. *)
THEOREM Invariance == Spec => []IInv
BY InitEstablishes, NextPreserves, PTL DEF Spec

(* An event whose hook reported success (hook.rs) is in the store or in a  *)
(* file that a later run replays, as long as no two replays overlap and no *)
(* record is appended behind a fragment.                                   *)
THEOREM SuccessKeepsTheEvent == Spec => []SuccessIsDurableIntact
<1>1. IInv => SuccessIsDurableIntact
  BY DEF IInv
<1> QED
  BY <1>1, Invariance, PTL

(* A replay that ran alone to its end has ingested every event that was    *)
(* queued when it started (replay_fallback_path).                          *)
THEOREM UndisturbedReplayIsComplete == Spec => []ReplayIsComplete
<1>1. IInv => ReplayIsComplete
  BY DEF IInv, OwedIsKept, ReplayIsComplete
<1> QED
  BY <1>1, Invariance, PTL

(* No event is lost to the first full disk (append_fallback_with_reserve), *)
(* unless a kill, a failed ingestion or a refused append came first.       *)
THEOREM FirstFullDiskLosesNothing == Spec => []ReserveSavesEvents
<1>1. IInv => ReserveSavesEvents
  BY DEF IInv
<1> QED
  BY <1>1, Invariance, PTL
===============================================================================
