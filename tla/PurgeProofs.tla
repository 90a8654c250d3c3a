------------------------------ MODULE PurgeProofs ------------------------------
(***************************************************************************)
(* The safety of purge, recovery, retention and replay, for any number of  *)
(* processes, of repositories, of events and of crashes.                   *)
(*                                                                         *)
(* The argument: everything between taking the lock and freeing it is      *)
(* undisturbed (FilesAreClean, CopyIsExact).  While no recovery has acted  *)
(* on an outdated journal, the repository a process works on is either     *)
(* the one the journal names or one that was purged completely             *)
(* (WorksOnTheCondemned), and a journal in its second phase tells that the *)
(* queue files are clean (PhaseIsEarned, PhaseIsTrue).  So when a process  *)
(* removes the journal nothing condemned is left.  While no two replays    *)
(* overlap, one renames the queue only if there is no replay file          *)
(* (RenameIsFree), and has ingested what it unlinks (ReplayIsRead).        *)
(***************************************************************************)
EXTENDS Purge, TLAPS

SecondPhase == "related_data_purged"

(* p works from a journal, which is on disk by now. *)
Condemns(p) == target[p] # NoJournal /\ pc[p] # "journal"
Works(p) == pc[p] \in Holding /\ Condemns(p)

Clean(file, r) == \A l \in Lines(file) : l.event.repo # r

StartsAnew ==
  \A p \in Process :
    pc[p] = "journal" => journal = NoJournal /\ target[p].phase = "tombstoned"

WasRequested ==
  /\ journal # NoJournal => journal.repo \in requested
  /\ \A p \in Process : Condemns(p) => target[p].repo \in requested

FilesAreClean ==
  \A p \in Process :
    /\ pc[p] \in {"replay", "advance"} => Clean(queue, target[p].repo)
    /\ pc[p] = "advance" => Clean(replay, target[p].repo)

Retained(p, e) ==
  IF target[p] = NoJournal THEN e \notin Outdated ELSE e.repo # target[p].repo

CopyIsExact ==
  \A p \in Process :
    IF pc[p] = "copy" THEN copy[p] \union todo[p] = {e \in db : Retained(p, e)}
                      ELSE copy[p] = {}

RetentionIsCounted ==
  \A p \in Process :
    pc[p] = "copy" /\ target[p] = NoJournal => count["retentions"] > 0

WorksOnTheCondemned ==
  \A p \in Process : Works(p) =>
    \/ journal # NoJournal /\ journal.repo = target[p].repo
    \/ journal = NoJournal /\ target[p].repo \in tombstones

PhaseIsEarned ==
  \A p \in Process :
    Works(p) /\ (pc[p] \in {"list", "copy", "finish"} \/
                 target[p].phase = SecondPhase)
      => journal.phase = SecondPhase

PhaseIsTrue ==
  journal.phase = SecondPhase =>
    Clean(queue, journal.repo) /\ Clean(replay, journal.repo)

CondemnedIsNamed ==
  /\ \A e \in db : e.repo \in tombstones => journal.repo = e.repo
  /\ \A l \in Lines(queue) \union Lines(replay) :
       l.event.repo \in tombstones => journal.repo = l.event.repo

OneReplay ==
  \A p, q \in Process : pc[p] \in Replaying /\ pc[q] \in Replaying => p = q

RenameIsFree == \A p \in Process : pc[p] \in {"check", "rename"} => replay = NoFile

(* e was purged, or is too old for retention. *)
MayBeGone(e) == e.repo \in requested \/ (e \in Outdated /\ count["retentions"] > 0)

ReplayIsRead ==
  \A p \in Process : pc[p] \in Reading =>
    \A e \in Records(replay) : e \in todo[p] \union db \/ MayBeGone(e)

Undisturbed ==
  StartsAnew /\ WasRequested /\ FilesAreClean /\ CopyIsExact /\ RetentionIsCounted
Guarded == WorksOnTheCondemned /\ PhaseIsEarned /\ PhaseIsTrue /\ CondemnedIsNamed
Exclusive == OneReplay /\ RenameIsFree /\ ReplayIsRead

(* The inductive invariant. *)
IInv ==
  /\ TypeOK
  /\ Undisturbed
  /\ ~overtaken => Guarded
  /\ ~overlapped => Exclusive

USE SentinelAssumption, CapturesAssumption
    DEF Phases, Journal, NoJournal, Holding, Replaying, Reading,
        fileVars, queueVars, gateVars, workVars, historyVars, Goto, Counted
-------------------------------------------------------------------------------
(* What a queue file holds is events.                                      *)
LEMMA RecordsAreEvents ==
  ASSUME FilesOK
  PROVE  Records(queue) \union Records(replay) \subseteq Event
  BY DEF FilesOK, Records, Lines, Line

(* What a process leaves behind is events.                                 *)
LEMMA TemporaryIsEvents ==
  ASSUME TypeOK, NEW p \in Process, NEW left \in Temporary(p)
  PROVE  left \subseteq Event
<1>1. copy[p] \subseteq Event
  BY DEF TypeOK, WorkOK
<1>2. Records(Kept(p, queue)) \union Records(Kept(p, replay)) \subseteq Event
  <2>1. \A f \in {queue, replay} :
          Kept(p, f) \subseteq Line /\ Lines(Kept(p, f)) \subseteq Line
    BY DEF TypeOK, FilesOK, Kept, Lines
  <2> QED
    BY <2>1 DEF Records, Line
<1> QED
  BY <1>1, <1>2 DEF Temporary

(* The journal of a purge in its second phase.                             *)
LEMMA Advanced ==
  ASSUME NEW j \in Journal
  PROVE  [j EXCEPT !.phase = "related_data_purged"]
           = [repo |-> j.repo, phase |-> SecondPhase]
  BY DEF SecondPhase

(* A purge starts, is resumed, or gives way to another repository's.       *)
LEMMA PurgeStarts ==
  ASSUME NEW p \in Process, NEW r \in Repository, StartPurge(p, r)
  PROVE  \/ /\ journal = NoJournal
            /\ lock' = p
            /\ target' = [target EXCEPT ![p] = [repo |-> r, phase |-> "tombstoned"]]
            /\ pc' = [pc EXCEPT ![p] = "journal"]
         \/ /\ journal # NoJournal
            /\ lock' = p
            /\ target' = [target EXCEPT ![p] = journal]
            /\ pc' = [pc EXCEPT ![p] = "tombstone"]
         \/ /\ lock' = lock
            /\ target' = target
            /\ pc' = [pc EXCEPT ![p] = "idle"]
<1>1. CASE journal = NoJournal
  BY <1>1 DEF StartPurge
<1>2. CASE journal # NoJournal /\ journal.repo = r
  BY <1>2 DEF StartPurge
<1>3. CASE journal # NoJournal /\ journal.repo # r
  BY <1>3 DEF StartPurge
<1> QED
  BY <1>1, <1>2, <1>3

(* What a hook appends is added to the lines of the queue.                 *)
LEMMA Appended ==
  ASSUME FilesOK, NEW e \in carried, NEW whole \in BOOLEAN, Append(e, whole)
  PROVE  /\ queue' \subseteq Line
         /\ Lines(queue') = Lines(queue) \union {[event |-> e, whole |-> whole]}
<1>1. [event |-> e, whole |-> whole] \in Line
  BY DEF FilesOK, Line
<1>2. Lines(queue) \subseteq Line
  BY DEF FilesOK, Lines
<1>3. queue' = Lines(queue) \union {[event |-> e, whole |-> whole]}
  BY DEF Append
<1> QED
  BY <1>1, <1>2, <1>3 DEF Lines

(* Initially every variable is in its range.                               *)
LEMMA InitType ==
  ASSUME Init PROVE TypeOK
  BY DEF Init, TypeOK, FilesOK, ControlOK, WorkOK, Lines
-------------------------------------------------------------------------------
(* Every step keeps the variables in their ranges.                         *)
LEMMA TypeStep ==
  ASSUME TypeOK, [Next]_vars
  PROVE  TypeOK'
<1>1. ASSUME NEW r \in Repository, Capture(r) PROVE TypeOK'
  <2>1. FilesOK'
    <3>1. count[r] + 1 \in 1..MaxCaptures
      BY <1>1 DEF Capture, TypeOK, WorkOK
    <3>2. [repo |-> r, number |-> count[r] + 1] \in Event
      BY <3>1 DEF Event
    <3>3. carried' \subseteq Event
      BY <1>1, <3>2 DEF Capture, TypeOK, FilesOK
    <3> QED
      BY <1>1, <3>3 DEF Capture, TypeOK, FilesOK
  <2>2. ControlOK'
    BY <1>1 DEF Capture, TypeOK, ControlOK
  <2>3. WorkOK'
    BY <1>1 DEF Capture, Gated, Lines, Malformed, Records, TypeOK, Event, Line,
       FilesOK, WorkOK
  <2> QED
    BY <2>1, <2>2, <2>3 DEF TypeOK
<1>2. ASSUME NEW e \in carried, Queue(e) PROVE TypeOK'
  <2>1. FilesOK'
    BY <1>2 DEF Queue, Append, Gated, Lines, Malformed, Records, TypeOK, Event,
       Line, FilesOK
  <2>2. ControlOK'
    BY <1>2 DEF Queue, Append, TypeOK, ControlOK
  <2>3. WorkOK'
    BY <1>2 DEF Queue, Append, Gated, Lines, Malformed, Records, TypeOK, Event,
       Line, FilesOK, WorkOK
  <2> QED
    BY <2>1, <2>2, <2>3 DEF TypeOK
<1>3. ASSUME NEW e \in carried, AppendTorn(e) PROVE TypeOK'
  <2>1. FilesOK'
    <3>1. queue' \subseteq Line
      BY <1>3, Appended DEF AppendTorn, TypeOK
    <3> QED
      BY <1>3, <3>1 DEF AppendTorn, Append, TypeOK, FilesOK
  <2>2. ControlOK'
    BY <1>3 DEF AppendTorn, Append, TypeOK, ControlOK
  <2>3. WorkOK'
    BY <1>3 DEF AppendTorn, Append, Gated, Lines, Malformed, Records, TypeOK,
       Event, Line, FilesOK, WorkOK
  <2> QED
    BY <2>1, <2>2, <2>3 DEF TypeOK
<1>4. ASSUME NEW r \in Repository, Reactivate(r) PROVE TypeOK'
  <2>1. FilesOK'
    BY <1>4 DEF Reactivate, Gated, Lines, Malformed, Records, TypeOK, Event,
       Line, FilesOK
  <2>2. ControlOK'
    BY <1>4 DEF Reactivate, TypeOK, ControlOK
  <2>3. WorkOK'
    BY <1>4 DEF Reactivate, Gated, Lines, Malformed, Records, TypeOK, Event,
       Line, FilesOK, WorkOK
  <2> QED
    BY <2>1, <2>2, <2>3 DEF TypeOK
<1>5. ASSUME NEW p \in Process, Die(p) PROVE TypeOK'
  <2>1. FilesOK'
    BY <1>5, TemporaryIsEvents
      DEF Die, Ends, TypeOK, FilesOK
  <2>2. ControlOK'
    BY <1>5 DEF Die, Ends, TypeOK, ControlOK
  <2>3. WorkOK'
    BY <1>5 DEF Die, Ends, Gated, Lines, Malformed, Records, TypeOK, Event,
       Line, FilesOK, WorkOK
  <2> QED
    BY <2>1, <2>2, <2>3 DEF TypeOK
<1>6. ASSUME NEW p \in Process, StartReplay(p) PROVE TypeOK'
  <2>1. FilesOK'
    BY <1>6 DEF StartReplay, Gated, Lines, Malformed, Records, TypeOK, Event,
       Line, FilesOK
  <2>2. ControlOK'
    BY <1>6 DEF StartReplay, TypeOK, ControlOK
  <2>3. WorkOK'
    <3>1. Records(replay) \subseteq Event
      BY RecordsAreEvents DEF TypeOK
    <3>2. overlapped' \in BOOLEAN
      BY <1>6 DEF StartReplay
    <3> QED
      BY <1>6, <3>1, <3>2 DEF StartReplay, TypeOK, WorkOK
  <2> QED
    BY <2>1, <2>2, <2>3 DEF TypeOK
<1>7. ASSUME NEW p \in Process, OpenNew(p) PROVE TypeOK'
  <2>1. FilesOK'
    BY <1>7 DEF OpenNew, Gated, Lines, Malformed, Records, TypeOK, Event, Line,
       FilesOK
  <2>2. ControlOK'
    BY <1>7 DEF OpenNew, TypeOK, ControlOK
  <2>3. WorkOK'
    BY <1>7, RecordsAreEvents DEF OpenNew, TypeOK, WorkOK
  <2> QED
    BY <2>1, <2>2, <2>3 DEF TypeOK
<1>8. ASSUME NEW p \in Process, IngestRecord(p) PROVE TypeOK'
  <2>1. FilesOK'
    <3>1. todo[p] \subseteq Event
      BY DEF TypeOK, WorkOK
    <3> QED
      BY <1>8, <3>1 DEF IngestRecord, TypeOK, FilesOK
  <2>2. ControlOK'
    BY <1>8 DEF IngestRecord, TypeOK, ControlOK
  <2>3. WorkOK'
    BY <1>8 DEF IngestRecord, Gated, Lines, Malformed, Records, TypeOK, Event,
       Line, FilesOK, WorkOK
  <2> QED
    BY <2>1, <2>2, <2>3 DEF TypeOK
<1>9. ASSUME NEW p \in Process, NEW r \in Repository, StartPurge(p, r)
      PROVE  TypeOK'
  <2>1. FilesOK'
    BY <1>9 DEF StartPurge, Gated, Lines, Malformed, Records, TypeOK, Event,
       Line, FilesOK
  <2>2. ControlOK'
    <3>1. /\ [repo |-> r, phase |-> "tombstoned"] \in Journal
          /\ [repo |-> r, phase |-> "tombstoned"] # NoJournal
      OBVIOUS
    <3>2. journal \in Journal \union {NoJournal}
      BY DEF TypeOK, FilesOK
    <3>3. lock = NoProcess /\ pc[p] = "open" /\ recovering' = recovering
      BY <1>9 DEF StartPurge
    <3>4. PICK j \in Journal, l \in {"journal", "tombstone"} :
            \/ /\ lock' = p
               /\ target' = [target EXCEPT ![p] = j]
               /\ pc' = [pc EXCEPT ![p] = l]
            \/ lock' = lock /\ target' = target /\ pc' = [pc EXCEPT ![p] = "idle"]
      BY <1>9, <3>1, <3>2, PurgeStarts
    <3>5. j # NoJournal
      OBVIOUS
    <3>6. CASE lock' = p
      <4>1. /\ target' = [target EXCEPT ![p] = j]
            /\ pc' = [pc EXCEPT ![p] = l]
        BY <3>3, <3>4, <3>6
      <4>2. \A q \in Process : q # p => pc[q] \notin Holding
        BY <3>3 DEF TypeOK, ControlOK
      <4> QED
        BY <3>3, <3>5, <3>6, <4>1, <4>2 DEF TypeOK, ControlOK
    <3>7. CASE lock' # p
      BY <3>3, <3>4, <3>7 DEF TypeOK, ControlOK
    <3> QED
      BY <3>6, <3>7
  <2>3. WorkOK'
    BY <1>9 DEF StartPurge, Gated, Lines, Malformed, Records, TypeOK, Event,
       Line, FilesOK, WorkOK
  <2> QED
    BY <2>1, <2>2, <2>3 DEF TypeOK
<1>10. ASSUME NEW p \in Process, StartRecovery(p) PROVE TypeOK'
  <2>1. FilesOK'
    BY <1>10 DEF StartRecovery, Stale, Gated, Lines, Malformed, Records, TypeOK,
       Event, Line, FilesOK
  <2>2. ControlOK'
    BY <1>10 DEF StartRecovery, Stale, TypeOK, ControlOK
  <2>3. WorkOK'
    BY <1>10 DEF StartRecovery, Stale, Gated, Lines, Malformed, Records, TypeOK,
       Event, Line, FilesOK, WorkOK
  <2> QED
    BY <2>1, <2>2, <2>3 DEF TypeOK
<1>11. ASSUME NEW p \in Process, AdvanceJournal(p) PROVE TypeOK'
  <2>1. FilesOK'
    <3>1. target[p] \in Journal
      BY <1>11 DEF AdvanceJournal, TypeOK, ControlOK
    <3>2. journal' \in Journal
      BY <1>11, <3>1, Advanced DEF AdvanceJournal, SecondPhase
    <3> QED
      BY <1>11, <3>2 DEF AdvanceJournal, TypeOK, FilesOK
  <2>2. ControlOK'
    <3>1. target[p] \in Journal
      BY <1>11 DEF AdvanceJournal, TypeOK, ControlOK
    <3>2. journal' \in Journal
      BY <1>11, <3>1, Advanced DEF AdvanceJournal, SecondPhase
    <3> QED
      BY <1>11, <3>2 DEF AdvanceJournal, TypeOK, ControlOK
  <2>3. WorkOK'
    BY <1>11 DEF AdvanceJournal, Gated, Lines, Malformed, Records, TypeOK, Event,
       Line, FilesOK, WorkOK
  <2> QED
    BY <2>1, <2>2, <2>3 DEF TypeOK
<1>12. ASSUME NEW p \in Process, StartRetention(p) PROVE TypeOK'
  <2>1. FilesOK'
    BY <1>12 DEF StartRetention, Gated, Lines, Malformed, Records, TypeOK, Event,
       Line, FilesOK
  <2>2. ControlOK'
    BY <1>12 DEF StartRetention, TypeOK, ControlOK
  <2>3. WorkOK'
    BY <1>12 DEF StartRetention, Gated, Lines, Malformed, Records, TypeOK, Event,
       Line, FilesOK, WorkOK
  <2> QED
    BY <2>1, <2>2, <2>3 DEF TypeOK
<1>13. ASSUME NEW p \in Process, CopyEvent(p) PROVE TypeOK'
  <2>1. FilesOK'
    BY <1>13 DEF CopyEvent, Gated, Lines, Malformed, Records, TypeOK, Event,
       Line, FilesOK
  <2>2. ControlOK'
    BY <1>13 DEF CopyEvent, TypeOK, ControlOK
  <2>3. WorkOK'
    BY <1>13 DEF CopyEvent, Gated, Lines, Malformed, Records, TypeOK, Event,
       Line, FilesOK, WorkOK
  <2> QED
    BY <2>1, <2>2, <2>3 DEF TypeOK
<1>14. ASSUME NEW p \in Process, Swap(p) PROVE TypeOK'
  <2>1. FilesOK'
    <3>1. copy[p] \subseteq Event
      BY DEF TypeOK, WorkOK
    <3> QED
      BY <1>14, <3>1 DEF Swap, TypeOK, FilesOK
  <2>2. ControlOK'
    <3>1. CASE target[p] = NoJournal
      <4>1. lock' = NoProcess /\ pc' = [pc EXCEPT ![p] = "open"]
        BY <1>14, <3>1 DEF Swap
      <4> QED
        BY <1>14, <3>1, <4>1 DEF Swap, TypeOK, ControlOK
    <3>2. CASE target[p] # NoJournal
      BY <1>14, <3>2 DEF Swap, TypeOK, ControlOK
    <3> QED
      BY <3>1, <3>2
  <2>3. WorkOK'
    BY <1>14 DEF Swap, Gated, Lines, Malformed, Records, TypeOK, Event, Line,
       FilesOK, WorkOK
  <2> QED
    BY <2>1, <2>2, <2>3 DEF TypeOK
<1> USE DEF Gated, Lines, Malformed, Records, Event, Line, TypeOK, FilesOK,
   ControlOK, WorkOK
<1>15. ASSUME NEW e \in carried, Insert(e) PROVE TypeOK'
  BY <1>15 DEF Insert
<1>16. ASSUME NEW e \in carried, Refuse(e) PROVE TypeOK'
  BY <1>16 DEF Refuse
<1>17. ASSUME NEW p \in Process, Open(p) PROVE TypeOK'
  BY <1>17 DEF Open
<1>18. ASSUME NEW p \in Process, Close(p) PROVE TypeOK'
  BY <1>18 DEF Close
<1>19. ASSUME NEW p \in Process, CheckQueue(p) PROVE TypeOK'
  BY <1>19 DEF CheckQueue
<1>20. ASSUME NEW p \in Process, RenameQueue(p) PROVE TypeOK'
  BY <1>20 DEF RenameQueue
<1>21. ASSUME NEW p \in Process, RefuseRecord(p) PROVE TypeOK'
  BY <1>21 DEF RefuseRecord, Ends
<1>22. ASSUME NEW p \in Process, Unlink(p) PROVE TypeOK'
  BY <1>22 DEF Unlink
<1>23. ASSUME NEW p \in Process, WriteJournal(p) PROVE TypeOK'
  BY <1>23 DEF WriteJournal
<1>24. ASSUME NEW p \in Process, ReadJournal(p) PROVE TypeOK'
  BY <1>24 DEF ReadJournal
<1>25. ASSUME NEW p \in Process, WriteTombstone(p) PROVE TypeOK'
  BY <1>25 DEF WriteTombstone
<1>26. ASSUME NEW p \in Process, PurgeQueue(p) PROVE TypeOK'
  BY <1>26 DEF PurgeQueue, Scrub, Kept
<1>27. ASSUME NEW p \in Process, PurgeReplay(p) PROVE TypeOK'
  BY <1>27 DEF PurgeReplay, Scrub, Kept
<1>28. ASSUME NEW p \in Process, RefuseFile(p) PROVE TypeOK'
  BY <1>28 DEF RefuseFile, Ends
<1>29. ASSUME NEW p \in Process, ListRetained(p) PROVE TypeOK'
  BY <1>29 DEF ListRetained
<1>30. ASSUME NEW p \in Process, Finish(p) PROVE TypeOK'
  BY <1>30 DEF Finish
<1>31. ASSUME NEW p \in Process, RefuseCopy(p) PROVE TypeOK'
  BY <1>31 DEF RefuseCopy, Ends
<1>32. CASE UNCHANGED vars
  BY <1>32 DEF vars
<1> QED
  BY <1>1, <1>2, <1>3, <1>4, <1>5, <1>6, <1>7, <1>8, <1>9, <1>10, <1>11,
     <1>12, <1>13, <1>14, <1>15, <1>16, <1>17, <1>18, <1>19, <1>20, <1>21,
     <1>22, <1>23, <1>24, <1>25, <1>26, <1>27, <1>28, <1>29, <1>30, <1>31,
     <1>32 DEF Next, Starting, Recovery, Replay, Writing
-------------------------------------------------------------------------------
(* Every step keeps what the lock protects.                                *)
LEMMA UndisturbedStep ==
  ASSUME TypeOK, Undisturbed, [Next]_vars
  PROVE  Undisturbed'
<1>1. ASSUME NEW r \in Repository, Capture(r) PROVE Undisturbed'
  <2>1. StartsAnew'
    BY <1>1 DEF Capture, TypeOK, ControlOK, Undisturbed, StartsAnew
  <2>2. WasRequested'
    BY <1>1 DEF Capture, TypeOK, ControlOK, Undisturbed, WasRequested,
       StartsAnew, Condemns
  <2>3. FilesAreClean'
    BY <1>1 DEF Capture, TypeOK, ControlOK, Undisturbed, FilesAreClean, Clean,
       Lines
  <2>4. CopyIsExact'
    BY <1>1 DEF Capture, TypeOK, FilesOK, ControlOK, WorkOK, Undisturbed,
       CopyIsExact, Retained
  <2>5. RetentionIsCounted'
    <3>1. count'["retentions"] >= count["retentions"]
      BY <1>1 DEF Capture, TypeOK, WorkOK
    <3>2. pc' = pc /\ target' = target
      BY <1>1 DEF Capture
    <3>3. count["retentions"] \in Nat /\ count'["retentions"] \in Nat
      BY TypeStep DEF TypeOK, WorkOK
    <3> QED
      BY <3>1, <3>2, <3>3 DEF Undisturbed, RetentionIsCounted
  <2> QED
    BY <2>1, <2>2, <2>3, <2>4, <2>5 DEF Undisturbed
<1>2. ASSUME NEW p \in Process, NEW r \in Repository, StartPurge(p, r)
      PROVE  Undisturbed'
  <2>1. StartsAnew'
    <3>1. lock = NoProcess /\ journal' = journal /\ pc[p] = "open"
      BY <1>2 DEF StartPurge
    <3>2. \A q \in Process : pc[q] # "journal"
      BY <3>1 DEF TypeOK, ControlOK
    <3>3. [repo |-> r, phase |-> "tombstoned"].phase = "tombstoned"
      OBVIOUS
    <3> QED
      BY <3>1, <3>2, <3>3, <1>2, PurgeStarts DEF TypeOK, ControlOK, StartsAnew
  <2>2. WasRequested'
    BY <1>2 DEF StartPurge, TypeOK, ControlOK, Undisturbed, WasRequested,
       StartsAnew, Condemns
  <2>3. FilesAreClean'
    BY <1>2 DEF StartPurge, TypeOK, ControlOK, Undisturbed, FilesAreClean,
       Clean, Lines
  <2>4. CopyIsExact'
    <3>1. UNCHANGED <<db, todo, copy>> /\ pc[p] = "open"
      BY <1>2 DEF StartPurge
    <3>2. \A q \in Process : pc'[q] = "copy" <=> pc[q] = "copy"
      BY <3>1, PurgeStarts, <1>2 DEF TypeOK, ControlOK
    <3>3. \A q \in Process : q # p => target'[q] = target[q]
      BY PurgeStarts, <1>2 DEF TypeOK, ControlOK
    <3> QED
      BY <3>1, <3>2, <3>3 DEF Undisturbed, CopyIsExact, Retained
  <2>5. RetentionIsCounted'
    BY <1>2 DEF StartPurge, TypeOK, ControlOK, WorkOK, Undisturbed,
       RetentionIsCounted
  <2> QED
    BY <2>1, <2>2, <2>3, <2>4, <2>5 DEF Undisturbed
<1>3. ASSUME NEW p \in Process, AdvanceJournal(p) PROVE Undisturbed'
  <2>1. StartsAnew'
    BY <1>3 DEF AdvanceJournal, TypeOK, ControlOK, Undisturbed, StartsAnew
  <2>2. WasRequested'
    BY <1>3 DEF AdvanceJournal, TypeOK, ControlOK, Undisturbed, WasRequested,
       StartsAnew, Condemns
  <2>3. FilesAreClean'
    BY <1>3 DEF AdvanceJournal, TypeOK, ControlOK, Undisturbed, FilesAreClean,
       Clean, Lines
  <2>4. CopyIsExact'
    BY <1>3 DEF AdvanceJournal, TypeOK, FilesOK, ControlOK, WorkOK, Undisturbed,
       CopyIsExact, Retained
  <2>5. RetentionIsCounted'
    BY <1>3 DEF AdvanceJournal, TypeOK, ControlOK, WorkOK, Undisturbed,
       RetentionIsCounted
  <2> QED
    BY <2>1, <2>2, <2>3, <2>4, <2>5 DEF Undisturbed
<1>4. ASSUME NEW p \in Process, ListRetained(p) PROVE Undisturbed'
  <2>1. StartsAnew'
    BY <1>4 DEF ListRetained, TypeOK, ControlOK, Undisturbed, StartsAnew
  <2>2. WasRequested'
    BY <1>4 DEF ListRetained, TypeOK, ControlOK, Undisturbed, WasRequested,
       StartsAnew, Condemns
  <2>3. FilesAreClean'
    BY <1>4 DEF ListRetained, TypeOK, ControlOK, Undisturbed, FilesAreClean,
       Clean, Lines
  <2>4. CopyIsExact'
    <3>1. /\ pc[p] = "list" /\ pc' = [pc EXCEPT ![p] = "copy"]
          /\ UNCHANGED <<db, copy, target>>
      BY <1>4 DEF ListRetained
    <3>2. target[p] # NoJournal
      BY <3>1 DEF TypeOK, ControlOK
    <3>3. copy'[p] \union todo'[p] = {e \in db : Retained(p, e)}
      <4>1. copy[p] = {}
        BY <3>1 DEF Undisturbed, CopyIsExact
      <4>2. todo'[p] = {e \in db : Retained(p, e)}
        BY <1>4, <3>2 DEF ListRetained, Retained, TypeOK, WorkOK
      <4> QED
        BY <3>1, <4>1, <4>2
    <3>4. \A q \in Process : q # p => pc'[q] = pc[q] /\ todo'[q] = todo[q]
      BY <1>4, <3>1 DEF ListRetained, TypeOK, ControlOK, WorkOK
    <3>5. pc'[p] = "copy"
      BY <3>1 DEF TypeOK, ControlOK
    <3> QED
      BY <3>1, <3>3, <3>4, <3>5 DEF Undisturbed, CopyIsExact, Retained
  <2>5. RetentionIsCounted'
    BY <1>4 DEF ListRetained, TypeOK, ControlOK, WorkOK, Undisturbed,
       RetentionIsCounted
  <2> QED
    BY <2>1, <2>2, <2>3, <2>4, <2>5 DEF Undisturbed
<1>5. ASSUME NEW p \in Process, StartRetention(p) PROVE Undisturbed'
  <2>1. StartsAnew'
    BY <1>5 DEF StartRetention, TypeOK, ControlOK, Undisturbed, StartsAnew
  <2>2. WasRequested'
    BY <1>5 DEF StartRetention, TypeOK, ControlOK, Undisturbed, WasRequested,
       StartsAnew, Condemns
  <2>3. FilesAreClean'
    BY <1>5 DEF StartRetention, TypeOK, ControlOK, Undisturbed, FilesAreClean,
       Clean, Lines
  <2>4. CopyIsExact'
    BY <1>5 DEF StartRetention, TypeOK, FilesOK, ControlOK, WorkOK, Undisturbed,
       CopyIsExact, Retained
  <2>5. RetentionIsCounted'
    BY <1>5, TypeStep DEF StartRetention, TypeOK, WorkOK, RetentionIsCounted
  <2> QED
    BY <2>1, <2>2, <2>3, <2>4, <2>5 DEF Undisturbed
<1>6. ASSUME NEW p \in Process, CopyEvent(p) PROVE Undisturbed'
  <2>1. StartsAnew'
    BY <1>6 DEF CopyEvent, TypeOK, ControlOK, Undisturbed, StartsAnew
  <2>2. WasRequested'
    BY <1>6 DEF CopyEvent, TypeOK, ControlOK, Undisturbed, WasRequested,
       StartsAnew, Condemns
  <2>3. FilesAreClean'
    BY <1>6 DEF CopyEvent, TypeOK, ControlOK, Undisturbed, FilesAreClean, Clean,
       Lines
  <2>4. CopyIsExact'
    <3>1. PICK e \in todo[p] : /\ todo' = [todo EXCEPT ![p] = todo[p] \ {e}]
                               /\ copy' = [copy EXCEPT ![p] = copy[p] \union {e}]
      BY <1>6 DEF CopyEvent
    <3>2. copy'[p] \union todo'[p] = copy[p] \union todo[p]
      BY <3>1 DEF TypeOK, WorkOK
    <3>3. \A q \in Process : q # p => copy'[q] = copy[q] /\ todo'[q] = todo[q]
      BY <3>1 DEF TypeOK, WorkOK
    <3>4. UNCHANGED <<db, pc, target>> /\ pc[p] = "copy"
      BY <1>6 DEF CopyEvent
    <3> QED
      BY <3>2, <3>3, <3>4 DEF Undisturbed, CopyIsExact, Retained
  <2>5. RetentionIsCounted'
    BY <1>6 DEF CopyEvent, TypeOK, ControlOK, WorkOK, Undisturbed,
       RetentionIsCounted
  <2> QED
    BY <2>1, <2>2, <2>3, <2>4, <2>5 DEF Undisturbed
<1>7. ASSUME NEW p \in Process, Swap(p) PROVE Undisturbed'
  <2>1. StartsAnew'
    BY <1>7 DEF Swap, TypeOK, ControlOK, Undisturbed, StartsAnew
  <2>2. WasRequested'
    BY <1>7 DEF Swap, TypeOK, ControlOK, Undisturbed, WasRequested, StartsAnew,
       Condemns
  <2>3. FilesAreClean'
    BY <1>7 DEF Swap, TypeOK, ControlOK, Undisturbed, FilesAreClean, Clean, Lines
  <2>4. CopyIsExact'
    BY <1>7 DEF Swap, TypeOK, FilesOK, ControlOK, WorkOK, Undisturbed,
       CopyIsExact, Retained
  <2>5. RetentionIsCounted'
    BY <1>7 DEF Swap, TypeOK, ControlOK, WorkOK, Undisturbed, RetentionIsCounted
  <2> QED
    BY <2>1, <2>2, <2>3, <2>4, <2>5 DEF Undisturbed
<1> USE DEF Gated, Lines, Malformed, Clean, Retained, Condemns, TypeOK,
   ControlOK, WorkOK, Undisturbed, StartsAnew, WasRequested, FilesAreClean,
   CopyIsExact, RetentionIsCounted
<1>8. ASSUME NEW e \in carried, Insert(e) PROVE Undisturbed'
  BY <1>8 DEF Insert
<1>9. ASSUME NEW e \in carried, Queue(e) PROVE Undisturbed'
  BY <1>9 DEF Queue, Append
<1>10. ASSUME NEW e \in carried, AppendTorn(e) PROVE Undisturbed'
  BY <1>10 DEF AppendTorn, Append
<1>11. ASSUME NEW e \in carried, Refuse(e) PROVE Undisturbed'
  BY <1>11 DEF Refuse
<1>12. ASSUME NEW r \in Repository, Reactivate(r) PROVE Undisturbed'
  BY <1>12 DEF Reactivate
<1>13. ASSUME NEW p \in Process, Open(p) PROVE Undisturbed'
  BY <1>13 DEF Open
<1>14. ASSUME NEW p \in Process, Close(p) PROVE Undisturbed'
  BY <1>14 DEF Close
<1>15. ASSUME NEW p \in Process, Die(p) PROVE Undisturbed'
  BY <1>15 DEF Die, Ends
<1>16. ASSUME NEW p \in Process, StartReplay(p) PROVE Undisturbed'
  BY <1>16 DEF StartReplay
<1>17. ASSUME NEW p \in Process, CheckQueue(p) PROVE Undisturbed'
  BY <1>17 DEF CheckQueue
<1>18. ASSUME NEW p \in Process, RenameQueue(p) PROVE Undisturbed'
  BY <1>18 DEF RenameQueue
<1>19. ASSUME NEW p \in Process, OpenNew(p) PROVE Undisturbed'
  BY <1>19 DEF OpenNew
<1>20. ASSUME NEW p \in Process, IngestRecord(p) PROVE Undisturbed'
  BY <1>20 DEF IngestRecord
<1>21. ASSUME NEW p \in Process, RefuseRecord(p) PROVE Undisturbed'
  BY <1>21 DEF RefuseRecord, Ends
<1>22. ASSUME NEW p \in Process, Unlink(p) PROVE Undisturbed'
  BY <1>22 DEF Unlink
<1>23. ASSUME NEW p \in Process, WriteJournal(p) PROVE Undisturbed'
  BY <1>23 DEF WriteJournal
<1>24. ASSUME NEW p \in Process, ReadJournal(p) PROVE Undisturbed'
  BY <1>24 DEF ReadJournal
<1>25. ASSUME NEW p \in Process, StartRecovery(p) PROVE Undisturbed'
  BY <1>25 DEF StartRecovery, Stale
<1>26. ASSUME NEW p \in Process, WriteTombstone(p) PROVE Undisturbed'
  BY <1>26 DEF WriteTombstone
<1>27. ASSUME NEW p \in Process, PurgeQueue(p) PROVE Undisturbed'
  BY <1>27 DEF PurgeQueue, Scrub, Kept
<1>28. ASSUME NEW p \in Process, PurgeReplay(p) PROVE Undisturbed'
  BY <1>28 DEF PurgeReplay, Scrub, Kept
<1>29. ASSUME NEW p \in Process, RefuseFile(p) PROVE Undisturbed'
  BY <1>29 DEF RefuseFile, Ends
<1>30. ASSUME NEW p \in Process, Finish(p) PROVE Undisturbed'
  BY <1>30 DEF Finish
<1>31. ASSUME NEW p \in Process, RefuseCopy(p) PROVE Undisturbed'
  BY <1>31 DEF RefuseCopy, Ends
<1>32. CASE UNCHANGED vars
  BY <1>32 DEF vars
<1> QED
  BY <1>1, <1>2, <1>3, <1>4, <1>5, <1>6, <1>7, <1>8, <1>9, <1>10, <1>11,
     <1>12, <1>13, <1>14, <1>15, <1>16, <1>17, <1>18, <1>19, <1>20, <1>21,
     <1>22, <1>23, <1>24, <1>25, <1>26, <1>27, <1>28, <1>29, <1>30, <1>31,
     <1>32 DEF Next, Starting, Recovery, Replay, Writing
-------------------------------------------------------------------------------
(* Every event is of some repository.                                      *)
LEMMA EventsHaveRepository ==
  ASSUME FilesOK
  PROVE  /\ \A e \in db : e.repo \in Repository
         /\ \A l \in Lines(queue) \union Lines(replay) : l.event.repo \in Repository
  BY DEF FilesOK, Lines, Line, Event

(* An event gets into the queue only if it is not condemned.               *)
LEMMA AppendGuarded ==
  ASSUME TypeOK, Guarded, NEW e \in carried, NEW whole \in BOOLEAN, Append(e, whole)
  PROVE  Guarded'
<1>1. /\ ~Gated(e.repo)
      /\ UNCHANGED <<db, replay, journal, tombstones, pc, target>>
  BY DEF Append
<1>2. \A l \in Lines(queue') : l \in Lines(queue) \/ l.event = e
  BY Appended DEF TypeOK
<1>3. WorksOnTheCondemned' /\ PhaseIsEarned'
  BY <1>1 DEF Guarded, WorksOnTheCondemned, PhaseIsEarned, Works, Condemns
<1>4. PhaseIsTrue'
  BY <1>1, <1>2 DEF Guarded, PhaseIsTrue, Clean, Gated
<1>5. CondemnedIsNamed'
  BY <1>1, <1>2 DEF Guarded, CondemnedIsNamed, Gated
<1> QED
  BY <1>3, <1>4, <1>5 DEF Guarded

(* As long as no recovery has acted on an outdated journal, every step keeps*)
(* what is known of the journal and of condemned data.                     *)
LEMMA GuardedStep ==
  ASSUME TypeOK, Undisturbed, Guarded, ~overtaken', [Next]_vars
  PROVE  Guarded'
<1>1. ASSUME NEW e \in carried, Queue(e) PROVE Guarded'
  BY <1>1, AppendGuarded DEF Queue
<1>2. ASSUME NEW e \in carried, AppendTorn(e) PROVE Guarded'
  BY <1>2, AppendGuarded DEF AppendTorn
<1>3. ASSUME NEW p \in Process, NEW r \in Repository, StartPurge(p, r)
      PROVE  Guarded'
  <2>1. WorksOnTheCondemned'
    BY <1>3 DEF StartPurge, TypeOK, FilesOK, ControlOK, Undisturbed, StartsAnew,
       Condemns, Works, Guarded, WorksOnTheCondemned
  <2>2. PhaseIsEarned'
    BY <1>3 DEF StartPurge, TypeOK, FilesOK, ControlOK, Undisturbed, StartsAnew,
       Condemns, Works, Guarded, PhaseIsEarned, SecondPhase
  <2>3. PhaseIsTrue'
    BY <1>3 DEF StartPurge, Gated, Lines, TypeOK, FilesOK, ControlOK, Event,
       Line, Undisturbed, StartsAnew, FilesAreClean, Guarded, PhaseIsTrue,
       Clean, Kept, SecondPhase
  <2>4. CondemnedIsNamed'
    BY <1>3 DEF StartPurge, Gated, Lines, TypeOK, FilesOK, ControlOK, Event,
       Line, Undisturbed, StartsAnew, Condemns, Works, Guarded,
       CondemnedIsNamed, WorksOnTheCondemned, Kept
  <2> QED
    BY <2>1, <2>2, <2>3, <2>4 DEF Guarded
<1>4. ASSUME NEW p \in Process, WriteJournal(p) PROVE Guarded'
  <2>1. WorksOnTheCondemned'
    BY <1>4 DEF WriteJournal, TypeOK, FilesOK, ControlOK, Undisturbed,
       StartsAnew, Condemns, Works, Guarded, WorksOnTheCondemned
  <2>2. PhaseIsEarned'
    BY <1>4 DEF WriteJournal, TypeOK, FilesOK, ControlOK, Undisturbed,
       StartsAnew, Condemns, Works, Guarded, PhaseIsEarned, SecondPhase
  <2>3. PhaseIsTrue'
    BY <1>4 DEF WriteJournal, Gated, Lines, TypeOK, FilesOK, ControlOK, Event,
       Line, Undisturbed, StartsAnew, FilesAreClean, Guarded, PhaseIsTrue,
       Clean, Kept, SecondPhase
  <2>4. CondemnedIsNamed'
    <3>1. journal = NoJournal /\ UNCHANGED <<db, queue, replay, tombstones>>
      BY <1>4 DEF WriteJournal, Undisturbed, StartsAnew
    <3> QED
      BY <3>1, EventsHaveRepository DEF TypeOK, FilesOK, Guarded,
         CondemnedIsNamed
  <2> QED
    BY <2>1, <2>2, <2>3, <2>4 DEF Guarded
<1>5. ASSUME NEW p \in Process, StartRecovery(p) PROVE Guarded'
  <2>1. WorksOnTheCondemned'
    BY <1>5 DEF StartRecovery, Stale, TypeOK, FilesOK, ControlOK, Undisturbed,
       StartsAnew, Condemns, Works, Guarded, WorksOnTheCondemned
  <2>2. PhaseIsEarned'
    <3>1. /\ ~Stale(p)
          /\ UNCHANGED <<journal, target>>
          /\ pc' = [pc EXCEPT ![p] = "tombstone"]
      BY <1>5 DEF StartRecovery
    <3>2. \A q \in Process : q # p => ~Works(q)'
      BY <1>5, <3>1 DEF StartRecovery, Works, TypeOK, ControlOK
    <3>3. target[p].phase = SecondPhase => journal.phase = SecondPhase
      BY <3>1 DEF Stale, TypeOK, FilesOK, SecondPhase
    <3>4. pc'[p] = "tombstone"
      BY <3>1 DEF TypeOK, ControlOK
    <3> QED
      BY <3>1, <3>2, <3>3, <3>4 DEF PhaseIsEarned
  <2>3. PhaseIsTrue'
    BY <1>5 DEF StartRecovery, Stale, Gated, Lines, TypeOK, FilesOK, ControlOK,
       Event, Line, Undisturbed, StartsAnew, FilesAreClean, Guarded,
       PhaseIsTrue, Clean, Kept, SecondPhase
  <2>4. CondemnedIsNamed'
    BY <1>5 DEF StartRecovery, Stale, Gated, Lines, TypeOK, FilesOK, ControlOK,
       Event, Line, Undisturbed, StartsAnew, Condemns, Works, Guarded,
       CondemnedIsNamed, WorksOnTheCondemned, Kept
  <2> QED
    BY <2>1, <2>2, <2>3, <2>4 DEF Guarded
<1>6. ASSUME NEW p \in Process, AdvanceJournal(p) PROVE Guarded'
  <2>1. WorksOnTheCondemned'
    BY <1>6 DEF AdvanceJournal, TypeOK, FilesOK, ControlOK, Undisturbed,
       StartsAnew, Condemns, Works, Guarded, WorksOnTheCondemned
  <2>2. PhaseIsEarned'
    <3>1. target[p] \in Journal
      BY <1>6 DEF AdvanceJournal, TypeOK, ControlOK
    <3>2. journal' = [repo |-> target[p].repo, phase |-> SecondPhase]
      BY <1>6, <3>1, Advanced DEF AdvanceJournal
    <3> QED
      BY <3>2 DEF PhaseIsEarned
  <2>3. PhaseIsTrue'
    <3>1. target[p] \in Journal
      BY <1>6 DEF AdvanceJournal, TypeOK, ControlOK
    <3>2. journal' = [repo |-> target[p].repo, phase |-> SecondPhase]
      BY <1>6, <3>1, Advanced DEF AdvanceJournal
    <3>3. Clean(queue, target[p].repo) /\ Clean(replay, target[p].repo)
      BY <1>6 DEF AdvanceJournal, Undisturbed, FilesAreClean
    <3>4. UNCHANGED <<queue, replay>>
      BY <1>6 DEF AdvanceJournal
    <3> QED
      BY <3>2, <3>3, <3>4 DEF PhaseIsTrue, Clean
  <2>4. CondemnedIsNamed'
    <3>1. target[p] \in Journal
      BY <1>6 DEF AdvanceJournal, TypeOK, ControlOK
    <3>2. journal' = [repo |-> target[p].repo, phase |-> SecondPhase]
      BY <1>6, <3>1, Advanced DEF AdvanceJournal
    <3>3. Works(p)
      BY <1>6 DEF AdvanceJournal, Works, Condemns, TypeOK, ControlOK
    <3>4. journal = NoJournal \/ journal.repo = target[p].repo
      BY <3>3 DEF Guarded, WorksOnTheCondemned
    <3>5. UNCHANGED <<db, queue, replay, tombstones>>
      BY <1>6 DEF AdvanceJournal
    <3> QED
      BY <3>2, <3>4, <3>5, EventsHaveRepository
        DEF TypeOK, FilesOK, Guarded, CondemnedIsNamed
  <2> QED
    BY <2>1, <2>2, <2>3, <2>4 DEF Guarded
<1>7. ASSUME NEW p \in Process, Finish(p) PROVE Guarded'
  <2>1. WorksOnTheCondemned'
    BY <1>7 DEF Finish, TypeOK, FilesOK, ControlOK, Undisturbed, StartsAnew,
       Condemns, Works, Guarded, WorksOnTheCondemned
  <2>2. PhaseIsEarned'
    BY <1>7 DEF Finish, TypeOK, FilesOK, ControlOK, Undisturbed, StartsAnew,
       Condemns, Works, Guarded, PhaseIsEarned, SecondPhase
  <2>3. PhaseIsTrue'
    <3>1. journal' = NoJournal /\ UNCHANGED <<queue, replay>>
      BY <1>7 DEF Finish
    <3>2. Clean(queue, NoRepository) /\ Clean(replay, NoRepository)
      BY EventsHaveRepository DEF TypeOK, Clean
    <3> QED
      BY <3>1, <3>2 DEF PhaseIsTrue, Clean
  <2>4. CondemnedIsNamed'
    <3>1. /\ journal' = NoJournal /\ pc[p] = "finish"
          /\ \A e \in db : e.repo # target[p].repo
          /\ UNCHANGED <<db, queue, replay, tombstones>>
      BY <1>7 DEF Finish, Of
    <3>2. Works(p)
      BY <3>1 DEF Works, Condemns, TypeOK, ControlOK
    <3>3. journal = NoJournal \/ journal.repo = target[p].repo
      BY <3>2 DEF Guarded, WorksOnTheCondemned
    <3>4. Clean(queue, journal.repo) /\ Clean(replay, journal.repo)
      BY <3>1, <3>2 DEF Guarded, PhaseIsEarned, PhaseIsTrue
    <3> QED
      BY <3>1, <3>3, <3>4, EventsHaveRepository
        DEF TypeOK, Clean, Guarded, CondemnedIsNamed
  <2> QED
    BY <2>1, <2>2, <2>3, <2>4 DEF Guarded
<1> USE DEF Gated, Lines, Malformed, Clean, Condemns, Works, TypeOK, FilesOK,
   ControlOK, Undisturbed, StartsAnew, FilesAreClean, CopyIsExact, Guarded,
   WorksOnTheCondemned, PhaseIsEarned, PhaseIsTrue, CondemnedIsNamed,
   SecondPhase
<1>8. ASSUME NEW r \in Repository, Capture(r) PROVE Guarded'
  BY <1>8 DEF Capture
<1>9. ASSUME NEW e \in carried, Insert(e) PROVE Guarded'
  BY <1>9 DEF Insert
<1>10. ASSUME NEW e \in carried, Refuse(e) PROVE Guarded'
  BY <1>10 DEF Refuse
<1>11. ASSUME NEW r \in Repository, Reactivate(r) PROVE Guarded'
  BY <1>11 DEF Reactivate
<1>12. ASSUME NEW p \in Process, Open(p) PROVE Guarded'
  BY <1>12 DEF Open
<1>13. ASSUME NEW p \in Process, Close(p) PROVE Guarded'
  BY <1>13 DEF Close
<1>14. ASSUME NEW p \in Process, Die(p) PROVE Guarded'
  BY <1>14 DEF Die, Ends
<1>15. ASSUME NEW p \in Process, StartReplay(p) PROVE Guarded'
  BY <1>15 DEF StartReplay
<1>16. ASSUME NEW p \in Process, CheckQueue(p) PROVE Guarded'
  BY <1>16 DEF CheckQueue
<1>17. ASSUME NEW p \in Process, RenameQueue(p) PROVE Guarded'
  BY <1>17 DEF RenameQueue
<1>18. ASSUME NEW p \in Process, OpenNew(p) PROVE Guarded'
  BY <1>18 DEF OpenNew
<1>19. ASSUME NEW p \in Process, IngestRecord(p) PROVE Guarded'
  BY <1>19 DEF IngestRecord
<1>20. ASSUME NEW p \in Process, RefuseRecord(p) PROVE Guarded'
  BY <1>20 DEF RefuseRecord, Ends
<1>21. ASSUME NEW p \in Process, Unlink(p) PROVE Guarded'
  BY <1>21 DEF Unlink
<1>22. ASSUME NEW p \in Process, ReadJournal(p) PROVE Guarded'
  BY <1>22 DEF ReadJournal
<1>23. ASSUME NEW p \in Process, WriteTombstone(p) PROVE Guarded'
  BY <1>23 DEF WriteTombstone
<1>24. ASSUME NEW p \in Process, PurgeQueue(p) PROVE Guarded'
  BY <1>24 DEF PurgeQueue, Scrub, Kept
<1>25. ASSUME NEW p \in Process, PurgeReplay(p) PROVE Guarded'
  BY <1>25 DEF PurgeReplay, Scrub, Kept
<1>26. ASSUME NEW p \in Process, RefuseFile(p) PROVE Guarded'
  BY <1>26 DEF RefuseFile, Ends
<1>27. ASSUME NEW p \in Process, ListRetained(p) PROVE Guarded'
  BY <1>27 DEF ListRetained
<1>28. ASSUME NEW p \in Process, StartRetention(p) PROVE Guarded'
  BY <1>28 DEF StartRetention
<1>29. ASSUME NEW p \in Process, CopyEvent(p) PROVE Guarded'
  BY <1>29 DEF CopyEvent
<1>30. ASSUME NEW p \in Process, RefuseCopy(p) PROVE Guarded'
  BY <1>30 DEF RefuseCopy, Ends
<1>31. ASSUME NEW p \in Process, Swap(p) PROVE Guarded'
  BY <1>31 DEF Swap
<1>32. CASE UNCHANGED vars
  BY <1>32 DEF vars
<1> QED
  BY <1>1, <1>2, <1>3, <1>4, <1>5, <1>6, <1>7, <1>8, <1>9, <1>10, <1>11,
     <1>12, <1>13, <1>14, <1>15, <1>16, <1>17, <1>18, <1>19, <1>20, <1>21,
     <1>22, <1>23, <1>24, <1>25, <1>26, <1>27, <1>28, <1>29, <1>30, <1>31,
     <1>32 DEF Next, Starting, Recovery, Replay, Writing
-------------------------------------------------------------------------------
(* A step that lets nobody begin to replay, keeps the replay file and does *)
(* not take events from the database keeps what is known of the replay.    *)
LEMMA NoNewReplay ==
  ASSUME Exclusive,
         UNCHANGED <<replay, todo>>, db \subseteq db',
         \A q \in Process : pc'[q] \in Replaying => pc'[q] = pc[q],
         \A e \in Records(replay) : MayBeGone(e) => MayBeGone(e)'
  PROVE  Exclusive'
<1>1. Records(replay') = Records(replay)
  BY DEF Records
<1>2. OneReplay' /\ RenameIsFree'
  BY DEF Exclusive, OneReplay, RenameIsFree
<1>3. ReplayIsRead'
  BY <1>1 DEF Exclusive, ReplayIsRead
<1> QED
  BY <1>2, <1>3 DEF Exclusive

(* As long as no two replays overlap, every step keeps what is known of the*)
(* replay.                                                                 *)
LEMMA ExclusiveStep ==
  ASSUME TypeOK, Undisturbed, Exclusive, ~overlapped', [Next]_vars
  PROVE  Exclusive'
<1>1. ASSUME NEW r \in Repository, Capture(r) PROVE Exclusive'
  <2>1. UNCHANGED <<db, replay, todo, pc, requested>>
    BY <1>1 DEF Capture
  <2>2. count["retentions"] > 0 => count'["retentions"] > 0
    BY <1>1 DEF Capture, TypeOK, WorkOK
  <2>3. \A e \in Records(replay) : MayBeGone(e) => MayBeGone(e)'
    BY <2>1, <2>2 DEF MayBeGone
  <2> QED
    BY <2>1, <2>3, NoNewReplay
<1>2. ASSUME NEW p \in Process, StartReplay(p) PROVE Exclusive'
  <2>1. OneReplay'
    <3>1. \A q \in Process : pc[q] \notin Replaying
      BY <1>2 DEF StartReplay
    <3>2. \A q \in Process : q # p => pc'[q] = pc[q]
      BY <1>2 DEF StartReplay, TypeOK, ControlOK
    <3> QED
      BY <3>1, <3>2 DEF OneReplay
  <2>2. RenameIsFree'
    BY <1>2 DEF StartReplay, Lines, Kept, Malformed, TypeOK, ControlOK,
       Exclusive, OneReplay, RenameIsFree
  <2>3. ReplayIsRead'
    BY <1>2 DEF StartReplay, Gated, Lines, Malformed, Records, Kept, TypeOK,
       ControlOK, WorkOK, Undisturbed, WasRequested, CopyIsExact,
       RetentionIsCounted, Retained, Condemns, Exclusive, OneReplay,
       ReplayIsRead, MayBeGone
  <2> QED
    BY <2>1, <2>2, <2>3 DEF Exclusive
<1>3. ASSUME NEW p \in Process, CheckQueue(p) PROVE Exclusive'
  <2>1. OneReplay'
    <3>1. \A q \in Process : pc'[q] \in Replaying => pc[q] \in Replaying
      BY <1>3 DEF CheckQueue, TypeOK, ControlOK
    <3> QED
      BY <3>1 DEF Exclusive, OneReplay
  <2>2. RenameIsFree'
    BY <1>3 DEF CheckQueue, Lines, Kept, Malformed, TypeOK, ControlOK,
       Exclusive, OneReplay, RenameIsFree
  <2>3. ReplayIsRead'
    BY <1>3 DEF CheckQueue, Gated, Lines, Malformed, Records, Kept, TypeOK,
       ControlOK, WorkOK, Undisturbed, WasRequested, CopyIsExact,
       RetentionIsCounted, Retained, Condemns, Exclusive, OneReplay,
       ReplayIsRead, MayBeGone
  <2> QED
    BY <2>1, <2>2, <2>3 DEF Exclusive
<1>4. ASSUME NEW p \in Process, IngestRecord(p) PROVE Exclusive'
  <2>1. OneReplay'
    BY <1>4 DEF IngestRecord, TypeOK, ControlOK, Exclusive, OneReplay
  <2>2. RenameIsFree'
    BY <1>4 DEF IngestRecord, Lines, Kept, Malformed, TypeOK, ControlOK,
       Exclusive, OneReplay, RenameIsFree
  <2>3. ReplayIsRead'
    <3>1. PICK e \in todo[p] : /\ db' = db \union {e}
                               /\ todo' = [todo EXCEPT ![p] = todo[p] \ {e}]
      BY <1>4 DEF IngestRecord
    <3>2. \A q \in Process : todo[q] \union db \subseteq todo'[q] \union db'
      BY <3>1 DEF TypeOK, WorkOK
    <3>3. UNCHANGED <<replay, pc, requested, count>>
      BY <1>4 DEF IngestRecord
    <3> QED
      BY <3>2, <3>3 DEF Exclusive, ReplayIsRead, Records, MayBeGone
  <2> QED
    BY <2>1, <2>2, <2>3 DEF Exclusive
<1>5. ASSUME NEW p \in Process, Unlink(p) PROVE Exclusive'
  <2>1. OneReplay'
    <3>1. \A q \in Process : pc'[q] \in Replaying => pc[q] \in Replaying
      BY <1>5 DEF Unlink, TypeOK, ControlOK
    <3> QED
      BY <3>1 DEF Exclusive, OneReplay
  <2>2. RenameIsFree'
    BY <1>5 DEF Unlink, Lines, Kept, Malformed, TypeOK, ControlOK, Exclusive,
       OneReplay, RenameIsFree
  <2>3. ReplayIsRead'
    BY <1>5 DEF Unlink, Gated, Lines, Malformed, Records, Kept, TypeOK,
       ControlOK, WorkOK, Undisturbed, WasRequested, CopyIsExact,
       RetentionIsCounted, Retained, Condemns, Exclusive, OneReplay,
       ReplayIsRead, MayBeGone
  <2> QED
    BY <2>1, <2>2, <2>3 DEF Exclusive
<1>6. ASSUME NEW p \in Process, NEW r \in Repository, StartPurge(p, r)
      PROVE  Exclusive'
  <2>1. UNCHANGED <<db, replay, todo, requested>>
    BY <1>6 DEF StartPurge
  <2>2. count["retentions"] > 0 => count'["retentions"] > 0
    BY <1>6 DEF StartPurge, TypeOK, WorkOK
  <2>3. \A e \in Records(replay) : MayBeGone(e) => MayBeGone(e)'
    BY <2>1, <2>2 DEF MayBeGone
  <2>4. \A q \in Process : pc'[q] \in Replaying => pc'[q] = pc[q]
    BY <1>6, PurgeStarts DEF TypeOK, ControlOK
  <2> QED
    BY <2>1, <2>3, <2>4, NoNewReplay
<1>7. ASSUME NEW p \in Process, PurgeReplay(p) PROVE Exclusive'
  <2>1. OneReplay'
    BY <1>7 DEF PurgeReplay, Scrub, Kept, TypeOK, ControlOK, Exclusive, OneReplay
  <2>2. RenameIsFree'
    BY <1>7 DEF PurgeReplay, Scrub, Kept, Lines, Kept, Malformed, TypeOK,
       ControlOK, Exclusive, OneReplay, RenameIsFree
  <2>3. ReplayIsRead'
    <3>1. Records(replay') \subseteq Records(replay)
      BY <1>7 DEF PurgeReplay, Scrub, Kept, Records, Lines
    <3>2. UNCHANGED <<db, todo, requested, count>>
      BY <1>7 DEF PurgeReplay
    <3>3. \A q \in Process : pc'[q] \in Reading => pc'[q] = pc[q]
      BY <1>7 DEF PurgeReplay, TypeOK, ControlOK
    <3> QED
      BY <3>1, <3>2, <3>3 DEF Exclusive, ReplayIsRead, MayBeGone
  <2> QED
    BY <2>1, <2>2, <2>3 DEF Exclusive
<1>8. ASSUME NEW p \in Process, StartRetention(p) PROVE Exclusive'
  <2>1. UNCHANGED <<db, replay, requested>> /\ pc' = [pc EXCEPT ![p] = "copy"]
    BY <1>8 DEF StartRetention
  <2>2. count["retentions"] > 0 => count'["retentions"] > 0
    BY <1>8 DEF StartRetention, TypeOK, WorkOK
  <2>3. \A q \in Process :
          pc'[q] \in Replaying => pc'[q] = pc[q] /\ todo'[q] = todo[q]
    BY <1>8, <2>1 DEF StartRetention, TypeOK, ControlOK, WorkOK
  <2>4. OneReplay' /\ RenameIsFree'
    BY <2>1, <2>3 DEF Exclusive, OneReplay, RenameIsFree
  <2>5. ReplayIsRead'
    BY <2>1, <2>2, <2>3 DEF Exclusive, ReplayIsRead, Records, MayBeGone
  <2> QED
    BY <2>4, <2>5 DEF Exclusive
<1>9. ASSUME NEW p \in Process, Swap(p) PROVE Exclusive'
  <2>1. /\ UNCHANGED <<replay, todo, requested, count>>
        /\ db' = copy[p] /\ pc[p] = "copy" /\ todo[p] = {}
    BY <1>9 DEF Swap
  <2>2. \A q \in Process : pc'[q] \in Replaying => pc'[q] = pc[q]
    BY <1>9 DEF Swap, TypeOK, ControlOK
  <2>3. \A e \in db \ db' : MayBeGone(e)
    <3>1. db' = {e \in db : Retained(p, e)}
      BY <2>1 DEF Undisturbed, CopyIsExact
    <3>2. CASE target[p] = NoJournal
      BY <2>1, <3>1, <3>2 DEF Undisturbed, RetentionIsCounted, Retained,
         MayBeGone
    <3>3. CASE target[p] # NoJournal
      BY <2>1, <3>1, <3>3 DEF Undisturbed, WasRequested, Condemns, Retained,
         MayBeGone
    <3> QED
      BY <3>2, <3>3
  <2>4. OneReplay' /\ RenameIsFree'
    BY <2>1, <2>2 DEF Exclusive, OneReplay, RenameIsFree
  <2>5. ReplayIsRead'
    BY <2>1, <2>2, <2>3 DEF Exclusive, ReplayIsRead, Records, MayBeGone
  <2> QED
    BY <2>4, <2>5 DEF Exclusive
<1> USE DEF Lines, Records, TypeOK, ControlOK, WorkOK, Exclusive, OneReplay,
   RenameIsFree, ReplayIsRead, MayBeGone
<1>10. ASSUME NEW e \in carried, Insert(e) PROVE Exclusive'
  BY <1>10 DEF Insert
<1>11. ASSUME NEW e \in carried, Queue(e) PROVE Exclusive'
  BY <1>11 DEF Queue, Append
<1>12. ASSUME NEW e \in carried, AppendTorn(e) PROVE Exclusive'
  BY <1>12 DEF AppendTorn, Append
<1>13. ASSUME NEW e \in carried, Refuse(e) PROVE Exclusive'
  BY <1>13 DEF Refuse
<1>14. ASSUME NEW r \in Repository, Reactivate(r) PROVE Exclusive'
  BY <1>14 DEF Reactivate
<1>15. ASSUME NEW p \in Process, Open(p) PROVE Exclusive'
  BY <1>15 DEF Open
<1>16. ASSUME NEW p \in Process, Close(p) PROVE Exclusive'
  BY <1>16 DEF Close
<1>17. ASSUME NEW p \in Process, Die(p) PROVE Exclusive'
  BY <1>17 DEF Die, Ends
<1>18. ASSUME NEW p \in Process, RenameQueue(p) PROVE Exclusive'
  BY <1>18 DEF RenameQueue
<1>19. ASSUME NEW p \in Process, OpenNew(p) PROVE Exclusive'
  BY <1>19 DEF OpenNew
<1>20. ASSUME NEW p \in Process, RefuseRecord(p) PROVE Exclusive'
  BY <1>20 DEF RefuseRecord, Ends
<1>21. ASSUME NEW p \in Process, WriteJournal(p) PROVE Exclusive'
  BY <1>21 DEF WriteJournal
<1>22. ASSUME NEW p \in Process, ReadJournal(p) PROVE Exclusive'
  BY <1>22 DEF ReadJournal
<1>23. ASSUME NEW p \in Process, StartRecovery(p) PROVE Exclusive'
  BY <1>23 DEF StartRecovery, Stale
<1>24. ASSUME NEW p \in Process, WriteTombstone(p) PROVE Exclusive'
  BY <1>24 DEF WriteTombstone
<1>25. ASSUME NEW p \in Process, PurgeQueue(p) PROVE Exclusive'
  BY <1>25 DEF PurgeQueue, Scrub, Kept
<1>26. ASSUME NEW p \in Process, RefuseFile(p) PROVE Exclusive'
  BY <1>26 DEF RefuseFile, Ends
<1>27. ASSUME NEW p \in Process, AdvanceJournal(p) PROVE Exclusive'
  BY <1>27 DEF AdvanceJournal
<1>28. ASSUME NEW p \in Process, ListRetained(p) PROVE Exclusive'
  BY <1>28 DEF ListRetained
<1>29. ASSUME NEW p \in Process, Finish(p) PROVE Exclusive'
  BY <1>29 DEF Finish
<1>30. ASSUME NEW p \in Process, CopyEvent(p) PROVE Exclusive'
  BY <1>30 DEF CopyEvent
<1>31. ASSUME NEW p \in Process, RefuseCopy(p) PROVE Exclusive'
  BY <1>31 DEF RefuseCopy, Ends
<1>32. CASE UNCHANGED vars
  BY <1>32 DEF vars
<1> QED
  BY <1>1, <1>2, <1>3, <1>4, <1>5, <1>6, <1>7, <1>8, <1>9, <1>10, <1>11,
     <1>12, <1>13, <1>14, <1>15, <1>16, <1>17, <1>18, <1>19, <1>20, <1>21,
     <1>22, <1>23, <1>24, <1>25, <1>26, <1>27, <1>28, <1>29, <1>30, <1>31,
     <1>32 DEF Next, Starting, Recovery, Replay, Writing

(* Type correctness: every variable stays in its range and the lock is     *)
(* held by who works under it (FileLock, private_fs.rs), whatever dies.    *)
THEOREM TypeCorrect == Spec => []TypeOK
<1> QED
  BY InitType, TypeStep, PTL DEF Spec
-------------------------------------------------------------------------------
(* Initially nothing is known of anything.                                 *)
LEMMA InitIInv ==
  ASSUME Init PROVE IInv
<1>1. \A f \in {queue, replay} : Lines(f) = {} /\ Records(f) = {}
  BY DEF Init, Lines, Records
<1>2. \A p \in Process : pc[p] = "idle" /\ copy[p] = {} /\ target[p] = NoJournal
  BY DEF Init
<1>3. Undisturbed
  BY <1>2 DEF Init, Undisturbed, StartsAnew, WasRequested, FilesAreClean,
     CopyIsExact, RetentionIsCounted, Condemns
<1>4. Guarded
  BY <1>1, <1>2 DEF Init, Guarded, WorksOnTheCondemned, PhaseIsEarned,
     PhaseIsTrue, CondemnedIsNamed, Clean, Works
<1>5. Exclusive
  BY <1>2 DEF Exclusive, OneReplay, RenameIsFree, ReplayIsRead
<1> QED
  BY InitType, <1>3, <1>4, <1>5 DEF IInv

(* What was recorded as having gone wrong stays so.                        *)
HistoryStays == (overtaken => overtaken') /\ (overlapped => overlapped')

LEMMA HistoryStep ==
  ASSUME [Next]_vars
  PROVE  HistoryStays
<1> USE DEF HistoryStays
<1>1. ASSUME NEW r \in Repository, Capture(r) PROVE HistoryStays
  BY <1>1 DEF Capture
<1>2. ASSUME NEW e \in carried, Insert(e) PROVE HistoryStays
  BY <1>2 DEF Insert
<1>3. ASSUME NEW e \in carried, Queue(e) PROVE HistoryStays
  BY <1>3 DEF Queue, Append
<1>4. ASSUME NEW e \in carried, AppendTorn(e) PROVE HistoryStays
  BY <1>4 DEF AppendTorn, Append
<1>5. ASSUME NEW e \in carried, Refuse(e) PROVE HistoryStays
  BY <1>5 DEF Refuse
<1>6. ASSUME NEW r \in Repository, Reactivate(r) PROVE HistoryStays
  BY <1>6 DEF Reactivate
<1>7. ASSUME NEW p \in Process, Open(p) PROVE HistoryStays
  BY <1>7 DEF Open
<1>8. ASSUME NEW p \in Process, Close(p) PROVE HistoryStays
  BY <1>8 DEF Close
<1>9. ASSUME NEW p \in Process, Die(p) PROVE HistoryStays
  BY <1>9 DEF Die, Ends
<1>10. ASSUME NEW p \in Process, StartReplay(p) PROVE HistoryStays
  BY <1>10 DEF StartReplay
<1>11. ASSUME NEW p \in Process, CheckQueue(p) PROVE HistoryStays
  BY <1>11 DEF CheckQueue
<1>12. ASSUME NEW p \in Process, RenameQueue(p) PROVE HistoryStays
  BY <1>12 DEF RenameQueue
<1>13. ASSUME NEW p \in Process, OpenNew(p) PROVE HistoryStays
  BY <1>13 DEF OpenNew
<1>14. ASSUME NEW p \in Process, IngestRecord(p) PROVE HistoryStays
  BY <1>14 DEF IngestRecord
<1>15. ASSUME NEW p \in Process, RefuseRecord(p) PROVE HistoryStays
  BY <1>15 DEF RefuseRecord, Ends
<1>16. ASSUME NEW p \in Process, Unlink(p) PROVE HistoryStays
  BY <1>16 DEF Unlink
<1>17. ASSUME NEW p \in Process, NEW r \in Repository, StartPurge(p, r)
       PROVE  HistoryStays
  BY <1>17 DEF StartPurge
<1>18. ASSUME NEW p \in Process, WriteJournal(p) PROVE HistoryStays
  BY <1>18 DEF WriteJournal
<1>19. ASSUME NEW p \in Process, ReadJournal(p) PROVE HistoryStays
  BY <1>19 DEF ReadJournal
<1>20. ASSUME NEW p \in Process, StartRecovery(p) PROVE HistoryStays
  BY <1>20 DEF StartRecovery, Stale
<1>21. ASSUME NEW p \in Process, WriteTombstone(p) PROVE HistoryStays
  BY <1>21 DEF WriteTombstone
<1>22. ASSUME NEW p \in Process, PurgeQueue(p) PROVE HistoryStays
  BY <1>22 DEF PurgeQueue, Scrub, Kept
<1>23. ASSUME NEW p \in Process, PurgeReplay(p) PROVE HistoryStays
  BY <1>23 DEF PurgeReplay, Scrub, Kept
<1>24. ASSUME NEW p \in Process, RefuseFile(p) PROVE HistoryStays
  BY <1>24 DEF RefuseFile, Ends
<1>25. ASSUME NEW p \in Process, AdvanceJournal(p) PROVE HistoryStays
  BY <1>25 DEF AdvanceJournal
<1>26. ASSUME NEW p \in Process, ListRetained(p) PROVE HistoryStays
  BY <1>26 DEF ListRetained
<1>27. ASSUME NEW p \in Process, Finish(p) PROVE HistoryStays
  BY <1>27 DEF Finish
<1>28. ASSUME NEW p \in Process, StartRetention(p) PROVE HistoryStays
  BY <1>28 DEF StartRetention
<1>29. ASSUME NEW p \in Process, CopyEvent(p) PROVE HistoryStays
  BY <1>29 DEF CopyEvent
<1>30. ASSUME NEW p \in Process, RefuseCopy(p) PROVE HistoryStays
  BY <1>30 DEF RefuseCopy, Ends
<1>31. ASSUME NEW p \in Process, Swap(p) PROVE HistoryStays
  BY <1>31 DEF Swap
<1>32. CASE UNCHANGED vars
  BY <1>32 DEF vars
<1> QED
  BY <1>1, <1>2, <1>3, <1>4, <1>5, <1>6, <1>7, <1>8, <1>9, <1>10, <1>11,
     <1>12, <1>13, <1>14, <1>15, <1>16, <1>17, <1>18, <1>19, <1>20, <1>21,
     <1>22, <1>23, <1>24, <1>25, <1>26, <1>27, <1>28, <1>29, <1>30, <1>31,
     <1>32 DEF Next, Starting, Recovery, Replay, Writing

(* The inductive invariant holds in every reachable state.                 *)
THEOREM Invariance == Spec => []IInv
<1>1. ASSUME IInv, [Next]_vars
      PROVE  IInv'
  <2> USE <1>1
  <2>1. TypeOK' /\ Undisturbed'
    BY TypeStep, UndisturbedStep DEF IInv
  <2>2. ~overtaken' => Guarded'
    BY HistoryStep, GuardedStep DEF HistoryStays, IInv
  <2>3. ~overlapped' => Exclusive'
    BY HistoryStep, ExclusiveStep DEF HistoryStays, IInv
  <2> QED
    BY <2>1, <2>2, <2>3 DEF IInv
<1> QED
  BY InitIInv, <1>1, PTL DEF Spec

(* Purge and recovery (maintenance.rs): where the program finds it *)
(* again, in the database, its next version or a queue file, there is no   *)
(* data of a repository with a tombstone unless the recovery journal names *)
(* it, as long as no recovery acted on a journal it had read too early.    *)
(* The temporary files of processes that died are not covered: nothing     *)
(* removes them (NoCondemnedOrphan is not so).                             *)
THEOREM NothingCondemnedIsLeft == Spec => []CondemnedDataIsCompleted
<1>1. ASSUME IInv
      PROVE  CondemnedDataIsCompleted
  <2> SUFFICES ASSUME ~overtaken, NEW r \in tombstones, InReach(r) # {}
               PROVE  journal.repo = r
    BY DEF CondemnedDataIsCompleted, CondemnedIsJournalled
  <2>1. Guarded
    BY <1>1 DEF IInv
  <2>2. \A p \in Process : copy[p] \subseteq db
    BY <1>1 DEF IInv, Undisturbed, CopyIsExact
  <2>3. Of(r, db \union UNION {copy[p] : p \in Process}) \subseteq {e \in db : e.repo = r}
    BY <2>2 DEF Of
  <2>4. \/ \E e \in db : e.repo = r
        \/ \E l \in Lines(queue) \union Lines(replay) : l.event.repo = r
    BY <2>3 DEF InReach
  <2> QED
    BY <2>1, <2>4 DEF Guarded, CondemnedIsNamed
<1> QED
  BY Invariance, <1>1, PTL

(* What a step may lose: events that were purged, are too old for          *)
(* retention, or are in a file that a recovery removes.                    *)
Due == {e \in Stored : MayBeGone(e) \/ \E p \in Process : e \in Removed(p)}

LossIsDue == Stored \ Stored' \subseteq Due

(* As long as no two replays overlap, no step loses any other event.       *)
LEMMA StepKeepsOthers ==
  ASSUME TypeOK, Undisturbed, Exclusive, ~overlapped', [Next]_vars
  PROVE  LossIsDue
<1>1. ASSUME NEW e \in carried, Queue(e) PROVE LossIsDue
  <2>1. PICK whole \in BOOLEAN : Append(e, whole)
    BY <1>1 DEF Queue
  <2>2. Lines(queue) \subseteq Lines(queue') /\ UNCHANGED <<db, replay>>
    BY <2>1, Appended DEF Append, TypeOK
  <2> QED
    BY <2>2 DEF LossIsDue, Stored, Records
<1>2. ASSUME NEW e \in carried, AppendTorn(e) PROVE LossIsDue
  <2>1. Lines(queue) \subseteq Lines(queue') /\ UNCHANGED <<db, replay>>
    BY <1>2, Appended DEF AppendTorn, Append, TypeOK
  <2> QED
    BY <2>1 DEF LossIsDue, Stored, Records
<1>3. ASSUME NEW p \in Process, RenameQueue(p) PROVE LossIsDue
  <2>1. db' = db /\ queue' = NoFile /\ replay = NoFile
    BY <1>3 DEF RenameQueue, Exclusive, RenameIsFree
  <2>2. replay' = queue
    BY <1>3, <2>1 DEF RenameQueue
  <2> QED
    BY <2>1, <2>2 DEF LossIsDue, Stored, Records, Lines
<1>4. ASSUME NEW p \in Process, Unlink(p) PROVE LossIsDue
  <2>1. db' = db /\ queue' = queue /\ todo[p] = {} /\ pc[p] \in Reading
    BY <1>4 DEF Unlink
  <2>2. \A e \in Records(replay) : e \in db \/ MayBeGone(e)
    BY <2>1 DEF Exclusive, ReplayIsRead
  <2> QED
    BY <2>1, <2>2 DEF LossIsDue, Stored, Records, Due
<1>5. ASSUME NEW p \in Process, PurgeQueue(p) PROVE LossIsDue
  <2>1. UNCHANGED <<db, replay>> /\ pc[p] = "queue"
    BY <1>5 DEF PurgeQueue
  <2>2. CASE Malformed(queue) # {}
    <3>1. Removed(p) = Records(queue)
      BY <1>5, <2>1, <2>2 DEF PurgeQueue, Scrub, Removed
    <3> QED
      BY <2>1, <3>1 DEF LossIsDue, Stored, Records, Due
  <2>3. CASE Malformed(queue) = {}
    <3>1. target[p].repo \in requested
      BY <2>1 DEF Undisturbed, WasRequested, Condemns, TypeOK, ControlOK
    <3>2. queue' = IF queue = NoFile THEN NoFile ELSE Kept(p, queue)
      BY <1>5, <2>3 DEF PurgeQueue, Scrub
    <3>3. Kept(p, queue) # NoFile
      BY DEF TypeOK, FilesOK, Kept, Lines
    <3>4. \A l \in Lines(queue) \ Lines(queue') : l.event.repo = target[p].repo
      BY <3>2, <3>3 DEF Kept, Lines
    <3> QED
      BY <2>1, <3>1, <3>4 DEF LossIsDue, Stored, Records, MayBeGone, Due
  <2> QED
    BY <2>2, <2>3
<1>6. ASSUME NEW p \in Process, PurgeReplay(p) PROVE LossIsDue
  <2>1. UNCHANGED <<db, queue>> /\ pc[p] = "replay"
    BY <1>6 DEF PurgeReplay
  <2>2. CASE Malformed(replay) # {}
    <3>1. Removed(p) = Records(replay)
      BY <1>6, <2>1, <2>2 DEF PurgeReplay, Scrub, Removed
    <3> QED
      BY <2>1, <3>1 DEF LossIsDue, Stored, Records, Due
  <2>3. CASE Malformed(replay) = {}
    <3>1. target[p].repo \in requested
      BY <2>1 DEF Undisturbed, WasRequested, Condemns, TypeOK, ControlOK
    <3>2. replay' = IF replay = NoFile THEN NoFile ELSE Kept(p, replay)
      BY <1>6, <2>3 DEF PurgeReplay, Scrub
    <3>3. Kept(p, replay) # NoFile
      BY DEF TypeOK, FilesOK, Kept, Lines
    <3>4. \A l \in Lines(replay) \ Lines(replay') : l.event.repo = target[p].repo
      BY <3>2, <3>3 DEF Kept, Lines
    <3> QED
      BY <2>1, <3>1, <3>4 DEF LossIsDue, Stored, Records, MayBeGone, Due
  <2> QED
    BY <2>2, <2>3
<1>7. ASSUME NEW p \in Process, Swap(p) PROVE LossIsDue
  <2>1. UNCHANGED <<queue, replay>> /\ db' = {e \in db : Retained(p, e)} /\ pc[p] = "copy"
    BY <1>7 DEF Swap, Undisturbed, CopyIsExact
  <2>2. CASE target[p] = NoJournal
    BY <2>1, <2>2 DEF Undisturbed, RetentionIsCounted, LossIsDue, Retained, Stored,
       Records, MayBeGone, Due
  <2>3. CASE target[p] # NoJournal
    BY <2>1, <2>3 DEF Undisturbed, WasRequested, Condemns, LossIsDue, Retained, Stored,
       Records, MayBeGone, Due
  <2> QED
    BY <2>2, <2>3
<1> USE DEF Lines, Records, Stored, LossIsDue
<1>8. ASSUME NEW r \in Repository, Capture(r) PROVE LossIsDue
  BY <1>8 DEF Capture
<1>9. ASSUME NEW e \in carried, Insert(e) PROVE LossIsDue
  BY <1>9 DEF Insert
<1>10. ASSUME NEW e \in carried, Refuse(e) PROVE LossIsDue
  BY <1>10 DEF Refuse
<1>11. ASSUME NEW r \in Repository, Reactivate(r) PROVE LossIsDue
  BY <1>11 DEF Reactivate
<1>12. ASSUME NEW p \in Process, Open(p) PROVE LossIsDue
  BY <1>12 DEF Open
<1>13. ASSUME NEW p \in Process, Close(p) PROVE LossIsDue
  BY <1>13 DEF Close
<1>14. ASSUME NEW p \in Process, Die(p) PROVE LossIsDue
  BY <1>14 DEF Die, Ends
<1>15. ASSUME NEW p \in Process, StartReplay(p) PROVE LossIsDue
  BY <1>15 DEF StartReplay
<1>16. ASSUME NEW p \in Process, CheckQueue(p) PROVE LossIsDue
  BY <1>16 DEF CheckQueue
<1>17. ASSUME NEW p \in Process, OpenNew(p) PROVE LossIsDue
  BY <1>17 DEF OpenNew
<1>18. ASSUME NEW p \in Process, IngestRecord(p) PROVE LossIsDue
  BY <1>18 DEF IngestRecord
<1>19. ASSUME NEW p \in Process, RefuseRecord(p) PROVE LossIsDue
  BY <1>19 DEF RefuseRecord, Ends
<1>20. ASSUME NEW p \in Process, NEW r \in Repository, StartPurge(p, r)
      PROVE  LossIsDue
  BY <1>20 DEF StartPurge
<1>21. ASSUME NEW p \in Process, WriteJournal(p) PROVE LossIsDue
  BY <1>21 DEF WriteJournal
<1>22. ASSUME NEW p \in Process, ReadJournal(p) PROVE LossIsDue
  BY <1>22 DEF ReadJournal
<1>23. ASSUME NEW p \in Process, StartRecovery(p) PROVE LossIsDue
  BY <1>23 DEF StartRecovery, Stale
<1>24. ASSUME NEW p \in Process, WriteTombstone(p) PROVE LossIsDue
  BY <1>24 DEF WriteTombstone
<1>25. ASSUME NEW p \in Process, RefuseFile(p) PROVE LossIsDue
  BY <1>25 DEF RefuseFile, Ends
<1>26. ASSUME NEW p \in Process, AdvanceJournal(p) PROVE LossIsDue
  BY <1>26 DEF AdvanceJournal
<1>27. ASSUME NEW p \in Process, ListRetained(p) PROVE LossIsDue
  BY <1>27 DEF ListRetained
<1>28. ASSUME NEW p \in Process, Finish(p) PROVE LossIsDue
  BY <1>28 DEF Finish
<1>29. ASSUME NEW p \in Process, StartRetention(p) PROVE LossIsDue
  BY <1>29 DEF StartRetention
<1>30. ASSUME NEW p \in Process, CopyEvent(p) PROVE LossIsDue
  BY <1>30 DEF CopyEvent
<1>31. ASSUME NEW p \in Process, RefuseCopy(p) PROVE LossIsDue
  BY <1>31 DEF RefuseCopy, Ends
<1>32. CASE UNCHANGED vars
  BY <1>32 DEF vars
<1> QED
  BY <1>1, <1>2, <1>3, <1>4, <1>5, <1>6, <1>7, <1>8, <1>9, <1>10, <1>11,
     <1>12, <1>13, <1>14, <1>15, <1>16, <1>17, <1>18, <1>19, <1>20, <1>21,
     <1>22, <1>23, <1>24, <1>25, <1>26, <1>27, <1>28, <1>29, <1>30, <1>31,
     <1>32 DEF Next, Starting, Recovery, Replay, Writing

(* Purge, recovery, retention and replay lose no event but those of a      *)
(* repository whose purge was accepted, those too old for retention, and   *)
(* what a recovery removes with a file that has a malformed record         *)
(* (maintenance.rs:485-492), as long as no two replays overlap.            *)
THEOREM OnlyThePurgedIsLost == Spec => OthersAreKept
<1>1. ASSUME IInv, [Next]_vars
      PROVE  [~overlapped' => \A e \in Stored \ Stored' :
                \/ e.repo \in requested
                \/ e \in Outdated /\ count["retentions"] > 0
                \/ \E p \in Process : e \in Removed(p)]_vars
  BY <1>1, StepKeepsOthers, HistoryStep
    DEF HistoryStays, LossIsDue, IInv, Due, MayBeGone
<1> QED
  BY Invariance, <1>1, PTL DEF Spec, OthersAreKept

===============================================================================
