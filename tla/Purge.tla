-------------------------------- MODULE Purge --------------------------------
(***************************************************************************)
(* Deleting a repository's data (src/src/store/maintenance.rs): the purge  *)
(* with its recovery journal and its tombstone, the recovery that every    *)
(* Store::open runs, and what they race with: hooks that insert or queue   *)
(* an event under the same file lock, replays of the queue, compactions    *)
(* for retention, and the setup that lifts a tombstone.                    *)
(*                                                                         *)
(* A step is one durable file operation; a process may die after any of    *)
(* them, which frees its lock and leaves its files.  A queue file is       *)
(* replaced in the step that reads it.  Abstracted: where in a queue file  *)
(* a malformed record is, the quarantine file, which holds no data, and    *)
(* caches; the database is its canonical events.                           *)
(***************************************************************************)
EXTENDS Naturals

CONSTANTS
  Process,       \* processes that open the store
  Repository,    \* repositories the hooks are registered for
  NoProcess,     \* the maintenance lock is free
  NoRepository,  \* there is no journal
  NoFile,        \* the file does not exist
  Outdated,      \* events that retention drops
  MaxCaptures,   \* bound on the events captured of each repository
  MaxPurges,     \* bound on purge requests
  MaxSetups,     \* bound on setups that lift a tombstone
  MaxRetentions, \* bound on compactions for retention
  MaxDeaths      \* bound on processes that are killed or fail

ASSUME CapturesAssumption == MaxCaptures \in Nat

Phases == {"tombstoned", "related_data_purged"}
Journal == [repo : Repository, phase : Phases]
NoJournal == [repo |-> NoRepository, phase |-> "related_data_purged"]
Event == [repo : Repository, number : 1..MaxCaptures]
Line == [event : Event, whole : BOOLEAN]  \* not whole: a part in a malformed record

ASSUME SentinelAssumption ==
  /\ NoProcess \notin Process
  /\ NoRepository \notin Repository
  /\ \A lines \in SUBSET Line : NoFile # lines

VARIABLES
  db,          \* events in the database
  queue,       \* events.jsonl
  replay,      \* events.replay.jsonl
  orphans,     \* events in temporary files of processes that died
  carried,     \* events a hook or a daemon holds in memory
  journal,     \* the purge recovery journal file
  tombstones,  \* repositories with a tombstone file
  lock,        \* the process that holds the maintenance lock
  pc,          \* control point of each process
  target,      \* the journal a process works from, if any
  recovering,  \* processes that work for Store::open and not for a purge
  todo,        \* events a process has yet to copy or to ingest
  copy,        \* events in the compacted database of each process
  requested,   \* history: repositories whose purge was accepted
  overtaken,   \* history: a recovery used a journal it had read too early
  overlapped,  \* history: two replays ran at the same time
  count        \* what was done so far of each bounded kind

queueVars == <<queue, replay>>
gateVars == <<journal, tombstones>>
fileVars == <<db, queueVars, orphans, gateVars>>
workVars == <<target, recovering, todo, copy>>
historyVars == <<requested, overtaken, overlapped>>
vars == <<fileVars, carried, lock, pc, workVars, historyVars, count>>

Holding == {"journal", "tombstone", "queue", "replay", "advance", "list", "copy", "finish"}
Replaying == {"read old", "check", "rename", "open new", "read new"}
Reading == {"read old", "read new"}

Of(r, events) == {e \in events : e.repo = r}

Lines(file) == IF file = NoFile THEN {} ELSE file
Malformed(file) == {l \in Lines(file) : ~l.whole}
Records(file) == {l.event : l \in {k \in Lines(file) : k.whole}}

(* A faulty variant of Gated (see below): the journal alone is the gate. *)
GatedByJournal(r) == journal.repo = r

(* ensure_repository_not_purged: either file keeps the repository out. *)
Gated(r) == r \in tombstones \/ journal.repo = r

Goto(p, l) == pc' = [pc EXCEPT ![p] = l]
Counted(kind) == count' = [count EXCEPT ![kind] = @ + 1]

Init ==
  /\ db = {} /\ queue = NoFile /\ replay = NoFile /\ orphans = {} /\ carried = {}
  /\ journal = NoJournal
  /\ tombstones = {}
  /\ lock = NoProcess
  /\ pc = [p \in Process |-> "idle"]
  /\ target = [p \in Process |-> NoJournal]
  /\ recovering = {}
  /\ todo = [p \in Process |-> {}]
  /\ copy = [p \in Process |-> {}]
  /\ requested = {}
  /\ overtaken = FALSE /\ overlapped = FALSE
  /\ count = [kind \in Repository \union {"purges", "setups", "retentions", "deaths"} |-> 0]
-------------------------------------------------------------------------------
(* Faulty variants of the steps below.  No specification uses them: each   *)
(* one stands for a bug that a property of this module must catch.         *)

(* Inserting without the maintenance lock. *)
InsertUnlocked(e) ==
  /\ e \in carried
  /\ ~Gated(e.repo)
  /\ db' = db \union {e}
  /\ carried' = carried \ {e}
  /\ UNCHANGED <<queueVars, orphans, gateVars, lock, pc, workVars, historyVars, count>>

(* Only a purge that got past its first phase is recovered. *)
ReadJournalSecondPhase(p) ==
  /\ pc[p] = "idle"
  /\ journal # NoJournal
  /\ journal.phase = "related_data_purged"
  /\ target' = [target EXCEPT ![p] = journal]
  /\ Goto(p, "recover")
  /\ UNCHANGED <<fileVars, carried, lock, recovering, todo, copy, historyVars, count>>

(* The journal is emptied instead of removed. *)
FinishWithEmptyJournal(p) ==
  /\ pc[p] = "finish"
  /\ Of(target[p].repo, db) = {}
  /\ journal' = [NoJournal EXCEPT !.phase = "tombstoned"]
  /\ lock' = NoProcess
  /\ target' = [target EXCEPT ![p] = NoJournal]
  /\ recovering' = recovering \ {p}
  /\ Goto(p, "open")
  /\ UNCHANGED <<db, queueVars, orphans, tombstones, carried, todo, copy, historyVars, count>>
-------------------------------------------------------------------------------
(* Hooks and setup.                                                        *)

(* A hook of a registered repository captures an event.                    *)
Capture(r) ==
  /\ count[r] < MaxCaptures
  /\ carried' = carried \union {[repo |-> r, number |-> count[r] + 1]}
  /\ Counted(r)
  /\ UNCHANGED <<fileVars, lock, pc, workVars, historyVars>>

(* Store::insert_event, for a daemon that serves the hook. *)
Insert(e) ==
  /\ e \in carried
  /\ lock = NoProcess
  /\ ~Gated(e.repo)
  /\ db' = db \union {e}
  /\ carried' = carried \ {e}
  /\ UNCHANGED <<queueVars, orphans, gateVars, lock, pc, workVars, historyVars, count>>

(* append_fallback.  Behind a fragment the event shares its line.          *)
Append(e, whole) ==
  /\ e \in carried
  /\ lock = NoProcess
  /\ ~Gated(e.repo)
  /\ queue' = Lines(queue) \union {[event |-> e, whole |-> whole]}
  /\ carried' = carried \ {e}
  /\ UNCHANGED <<db, replay, orphans, gateVars, lock, pc, workVars, historyVars>>

Queue(e) ==
  /\ \E whole \in BOOLEAN : Append(e, whole) /\ (whole \/ Malformed(queue) # {})
  /\ UNCHANGED count

(* The hook is killed while it writes.                                     *)
AppendTorn(e) ==
  /\ count["deaths"] < MaxDeaths
  /\ Append(e, FALSE)
  /\ Counted("deaths")

(* Either of them finds the gate closed: the hook fails.                   *)
Refuse(e) ==
  /\ e \in carried
  /\ lock = NoProcess
  /\ Gated(e.repo)
  /\ carried' = carried \ {e}
  /\ UNCHANGED <<fileVars, lock, pc, workVars, historyVars, count>>

(* reactivate_repository, the last step of an explicit setup.              *)
Reactivate(r) ==
  /\ count["setups"] < MaxSetups
  /\ lock = NoProcess
  /\ journal = NoJournal
  /\ r \in tombstones
  /\ tombstones' = tombstones \ {r}
  /\ Counted("setups")
  /\ UNCHANGED <<db, queueVars, orphans, journal, carried, lock, pc, workVars, historyVars>>
-------------------------------------------------------------------------------
(* Processes.  Store::open recovers if it finds a journal; then there may  *)
(* be a replay, retention or a purge.                                      *)

Open(p) ==
  /\ pc[p] = "idle"
  /\ journal = NoJournal
  /\ Goto(p, "open")
  /\ UNCHANGED <<fileVars, carried, lock, workVars, historyVars, count>>

Close(p) ==
  /\ pc[p] = "open"
  /\ Goto(p, "idle")
  /\ UNCHANGED <<fileVars, carried, lock, workVars, historyVars, count>>

Kept(p, file) == {l \in Lines(file) : l.event.repo # target[p].repo}

(* What a temporary file of p may hold: the events copied so far, or a     *)
(* part of the queue file that is about to be replaced.                    *)
Temporary(p) ==
  CASE pc[p] = "copy" -> {copy[p]}
    [] pc[p] = "queue" /\ Malformed(queue) = {} -> SUBSET Records(Kept(p, queue))
    [] pc[p] = "replay" /\ Malformed(replay) = {} -> SUBSET Records(Kept(p, replay))
    [] OTHER -> {{}}

(* p gives up.  Nothing removes its temporary file, then or later.         *)
Ends(p) ==
  /\ lock' = IF lock = p THEN NoProcess ELSE lock
  /\ target' = [target EXCEPT ![p] = NoJournal]
  /\ recovering' = recovering \ {p}
  /\ todo' = [todo EXCEPT ![p] = {}]
  /\ copy' = [copy EXCEPT ![p] = {}]
  /\ Goto(p, "idle")
  /\ UNCHANGED <<db, queueVars, gateVars, carried, historyVars>>

(* p is killed or an operation of it fails; the kernel frees its lock.     *)
Die(p) ==
  /\ pc[p] \notin {"idle", "open"}
  /\ count["deaths"] < MaxDeaths
  /\ \E left \in Temporary(p) : orphans' = orphans \union left
  /\ Ends(p)
  /\ Counted("deaths")
-------------------------------------------------------------------------------
(* replay_fallback.  Nothing but the rename is under the lock.             *)

(* A replay file that was left by an earlier run comes first.              *)
StartReplay(p) ==
  /\ pc[p] = "open"
  /\ {queue, replay} # {NoFile}
  /\ overlapped' = (overlapped \/ \E q \in Process : pc[q] \in Replaying)
  /\ todo' = [todo EXCEPT ![p] = Records(replay)]
  /\ Goto(p, IF replay = NoFile THEN "check" ELSE "read old")
  /\ UNCHANGED <<fileVars, carried, lock, target, recovering, copy, requested, overtaken, count>>

CheckQueue(p) ==
  /\ pc[p] = "check"
  /\ Goto(p, IF queue = NoFile THEN "open" ELSE "rename")
  /\ UNCHANGED <<fileVars, carried, lock, workVars, historyVars, count>>

RenameQueue(p) ==
  /\ pc[p] = "rename"
  /\ lock = NoProcess
  /\ replay' = IF queue = NoFile THEN replay ELSE queue
  /\ queue' = NoFile
  /\ Goto(p, "open new")
  /\ UNCHANGED <<db, orphans, gateVars, carried, lock, workVars, historyVars, count>>

OpenNew(p) ==
  /\ pc[p] = "open new"
  /\ todo' = [todo EXCEPT ![p] = Records(replay)]
  /\ Goto(p, IF replay = NoFile THEN "open" ELSE "read new")
  /\ UNCHANGED <<fileVars, carried, lock, target, recovering, copy, historyVars, count>>

IngestRecord(p) ==
  /\ pc[p] \in Reading
  /\ lock = NoProcess
  /\ \E e \in todo[p] : /\ ~Gated(e.repo)
                        /\ db' = db \union {e}
                        /\ todo' = [todo EXCEPT ![p] = @ \ {e}]
  /\ UNCHANGED <<queueVars, orphans, gateVars, carried, lock, pc, target, recovering, copy,
                 historyVars, count>>

(* A record that the gate refuses ends the run and keeps the file.         *)
RefuseRecord(p) ==
  /\ pc[p] \in Reading
  /\ lock = NoProcess
  /\ \E e \in todo[p] : Gated(e.repo)
  /\ Ends(p)
  /\ UNCHANGED <<orphans, count>>

(* The file is unlinked by its name, with its malformed records; if there  *)
(* is none any more, the run ends with an error.                           *)
Unlink(p) ==
  /\ pc[p] \in Reading /\ todo[p] = {}
  /\ replay' = NoFile
  /\ Goto(p, CASE replay = NoFile -> "idle"
               [] replay # NoFile /\ pc[p] = "read old" -> "check"
               [] OTHER -> "open")
  /\ UNCHANGED <<db, queue, orphans, gateVars, carried, lock, workVars, historyVars, count>>
-------------------------------------------------------------------------------
(* Purge and recovery.                                                     *)

(* purge_repository_with takes the lock and reads the journal: one purge   *)
(* at a time, and a purge of the same repository is resumed.               *)
StartPurge(p, r) ==
  /\ pc[p] = "open"
  /\ count["purges"] < MaxPurges
  /\ lock = NoProcess
  /\ CASE journal = NoJournal ->
            /\ lock' = p
            /\ target' = [target EXCEPT ![p] = [repo |-> r, phase |-> "tombstoned"]]
            /\ Goto(p, "journal")
       [] journal # NoJournal /\ journal.repo = r ->
            /\ lock' = p
            /\ target' = [target EXCEPT ![p] = journal]
            /\ Goto(p, "tombstone")
       [] OTHER -> Goto(p, "idle") /\ UNCHANGED <<lock, target>>
  /\ Counted("purges")
  /\ UNCHANGED <<fileVars, carried, recovering, todo, copy, historyVars>>

WriteJournal(p) ==
  /\ pc[p] = "journal"
  /\ journal' = target[p]
  /\ requested' = requested \union {target[p].repo}
  /\ Goto(p, "tombstone")
  /\ UNCHANGED <<db, queueVars, orphans, tombstones, carried, lock, workVars, overtaken,
                 overlapped, count>>

(* recover_purge_if_ready reads the journal before it takes the lock.      *)
ReadJournal(p) ==
  /\ pc[p] = "idle"
  /\ journal # NoJournal
  /\ target' = [target EXCEPT ![p] = journal]
  /\ Goto(p, "recover")
  /\ UNCHANGED <<fileVars, carried, lock, recovering, todo, copy, historyVars, count>>

(* Before p got the lock, the purge it read of was completed and its       *)
(* repository set up again, or another purge was started.                  *)
Stale(p) ==
  \/ journal = NoJournal /\ target[p].repo \notin tombstones
  \/ journal # NoJournal /\ journal.repo # target[p].repo
  \/ journal.phase = "tombstoned" /\ target[p].phase = "related_data_purged"

StartRecovery(p) ==
  /\ pc[p] = "recover"
  /\ lock = NoProcess
  /\ lock' = p
  /\ recovering' = recovering \union {p}
  /\ overtaken' = (overtaken \/ Stale(p))
  /\ Goto(p, "tombstone")
  /\ UNCHANGED <<fileVars, carried, target, todo, copy, requested, overlapped, count>>

WriteTombstone(p) ==
  /\ pc[p] = "tombstone"
  /\ tombstones' = tombstones \union {target[p].repo}
  /\ Goto(p, IF target[p].phase = "tombstoned" THEN "queue" ELSE "list")
  /\ UNCHANGED <<db, queueVars, orphans, journal, carried, lock, workVars, historyVars, count>>

(* One file.  A purge does not go on if a record is malformed (purge_queue *)
(* of config.rs); a recovery removes the file, whosever records it holds.  *)
Scrub(p, file, scrubbed) ==
  /\ Malformed(file) # {} => p \in recovering
  /\ scrubbed = IF file = NoFile \/ Malformed(file) # {} THEN NoFile ELSE Kept(p, file)

PurgeQueue(p) ==
  /\ pc[p] = "queue"
  /\ Scrub(p, queue, queue')
  /\ Goto(p, "replay")
  /\ UNCHANGED <<db, replay, orphans, gateVars, carried, lock, workVars, historyVars, count>>

PurgeReplay(p) ==
  /\ pc[p] = "replay"
  /\ Scrub(p, replay, replay')
  /\ Goto(p, "advance")
  /\ UNCHANGED <<db, queue, orphans, gateVars, carried, lock, workVars, historyVars, count>>

RefuseFile(p) ==
  /\ p \notin recovering
  /\ \/ pc[p] = "queue" /\ Malformed(queue) # {}
     \/ pc[p] = "replay" /\ Malformed(replay) # {}
  /\ Ends(p)
  /\ UNCHANGED <<orphans, count>>

AdvanceJournal(p) ==
  /\ pc[p] = "advance"
  /\ journal' = [target[p] EXCEPT !.phase = "related_data_purged"]
  /\ target' = [target EXCEPT ![p] = journal']
  /\ Goto(p, "list")
  /\ UNCHANGED <<db, queueVars, orphans, tombstones, carried, lock, recovering, todo, copy,
                 historyVars, count>>

ListRetained(p) ==
  /\ pc[p] = "list"
  /\ todo' = [todo EXCEPT ![p] = {e \in db : e.repo # target[p].repo}]
  /\ Goto(p, "copy")
  /\ UNCHANGED <<fileVars, carried, lock, target, recovering, copy, historyVars, count>>

(* Finish: verify_repository_absent, then the journal is removed.          *)
Finish(p) ==
  /\ pc[p] = "finish"
  /\ Of(target[p].repo, db) = {}
  /\ journal' = NoJournal
  /\ lock' = NoProcess
  /\ target' = [target EXCEPT ![p] = NoJournal]
  /\ recovering' = recovering \ {p}
  /\ Goto(p, "open")
  /\ UNCHANGED <<db, queueVars, orphans, tombstones, carried, todo, copy, historyVars, count>>
-------------------------------------------------------------------------------
(* Compaction, of a purge or for retention.                                *)

(* apply_retention *)
StartRetention(p) ==
  /\ pc[p] = "open"
  /\ count["retentions"] < MaxRetentions
  /\ lock = NoProcess
  /\ db \intersect Outdated # {}
  /\ lock' = p
  /\ todo' = [todo EXCEPT ![p] = db \ Outdated]
  /\ Goto(p, "copy")
  /\ Counted("retentions")
  /\ UNCHANGED <<fileVars, carried, target, recovering, copy, historyVars>>

(* replace_with_events: each event passes the gate into a new database ... *)
CopyEvent(p) ==
  /\ pc[p] = "copy"
  /\ \E e \in todo[p] : /\ ~Gated(e.repo)
                        /\ todo' = [todo EXCEPT ![p] = @ \ {e}]
                        /\ copy' = [copy EXCEPT ![p] = @ \union {e}]
  /\ UNCHANGED <<fileVars, carried, lock, pc, target, recovering, historyVars, count>>

(* ... which refuses an event of another repository that is condemned ...  *)
RefuseCopy(p) ==
  /\ pc[p] = "copy"
  /\ \E e \in todo[p] : Gated(e.repo)
  /\ orphans' = orphans \union copy[p]
  /\ Ends(p)
  /\ UNCHANGED count

(* ... and replaces the old one.                                           *)
Swap(p) ==
  /\ pc[p] = "copy" /\ todo[p] = {}
  /\ db' = copy[p]
  /\ copy' = [copy EXCEPT ![p] = {}]
  /\ IF target[p] = NoJournal
     THEN lock' = NoProcess /\ Goto(p, "open")
     ELSE lock' = lock /\ Goto(p, "finish")
  /\ UNCHANGED <<queueVars, orphans, gateVars, carried, target, recovering, todo,
                 historyVars, count>>
-------------------------------------------------------------------------------
Recovery(p) ==
  \/ ReadJournal(p) \/ StartRecovery(p)
  \/ WriteTombstone(p) \/ PurgeQueue(p) \/ PurgeReplay(p) \/ RefuseFile(p) \/ AdvanceJournal(p)
  \/ ListRetained(p) \/ CopyEvent(p) \/ RefuseCopy(p) \/ Swap(p) \/ Finish(p)

Replay(p) ==
  \/ CheckQueue(p) \/ RenameQueue(p) \/ OpenNew(p)
  \/ IngestRecord(p) \/ RefuseRecord(p) \/ Unlink(p)

Starting(p) ==
  \/ Open(p) \/ StartReplay(p) \/ StartRetention(p)
  \/ \E r \in Repository : StartPurge(p, r)

Writing ==
  \/ \E r \in Repository : Capture(r) \/ Reactivate(r)
  \/ \E e \in carried : Insert(e) \/ Queue(e) \/ AppendTorn(e) \/ Refuse(e)

Next ==
  \/ \E p \in Process : Starting(p) \/ Recovery(p) \/ WriteJournal(p) \/ Replay(p)
                        \/ Close(p) \/ Die(p)
  \/ Writing

Spec == Init /\ [][Next]_vars

(* The store keeps being opened: hooks start the daemon on demand, and     *)
(* every command opens the store.  A process that is not killed runs on,   *)
(* and ends some time.                                                     *)
FairSpec ==
  Spec /\ \A p \in Process : WF_vars(Recovery(p) \/ WriteJournal(p) \/ Replay(p) \/ Close(p))
-------------------------------------------------------------------------------
(* Properties.                                                             *)

FilesOK ==
  /\ db \union orphans \union carried \subseteq Event
  /\ \A file \in {queue, replay} : file # NoFile => file \subseteq Line
  /\ journal \in Journal \union {NoJournal}
  /\ tombstones \union requested \subseteq Repository

ControlOK ==
  /\ lock \in Process \union {NoProcess}
  /\ pc \in [Process -> {"idle", "open", "recover"} \union Holding \union Replaying]
  /\ \A p \in Process : pc[p] \in Holding <=> lock = p
  /\ target \in [Process -> Journal \union {NoJournal}]
  /\ \A p \in Process : target[p] # NoJournal =>
       pc[p] \in {"recover"} \union Holding
  /\ \A p \in Process : pc[p] \in {"recover"} \union (Holding \ {"copy"}) => target[p] # NoJournal
  /\ recovering \subseteq {p \in Process : pc[p] \in Holding /\ target[p] # NoJournal}

WorkOK ==
  /\ todo \in [Process -> SUBSET Event]
  /\ copy \in [Process -> SUBSET Event]
  /\ {overtaken, overlapped} \subseteq BOOLEAN
  /\ count \in [Repository \union {"purges", "setups", "retentions", "deaths"} -> Nat]

(* Every variable stays in its range, and the lock is where pc says.       *)
TypeOK == FilesOK /\ ControlOK /\ WorkOK

(* Data of r where the program finds it again: in the database, its next   *)
(* version or a queue file, malformed records included.                    *)
InReach(r) ==
  Of(r, db \union UNION {copy[p] : p \in Process}) \union
  {l \in Lines(queue) \union Lines(replay) : l.event.repo = r}

CondemnedIsJournalled == \A r \in tombstones : InReach(r) # {} => journal.repo = r

(* The order of journal, tombstone, queue, database and journal again: no  *)
(* crash, late hook, replay or retention leaves or brings back condemned   *)
(* data without a recovery to delete it, as long as no recovery acts on an *)
(* outdated journal.                                                       *)
CondemnedDataIsCompleted == ~overtaken => CondemnedIsJournalled

(* maintenance.rs:184 "The recovery journal is written first so every      *)
(* crash boundary has an automatic completion path": the code's statement, *)
(* without that proviso, for the states in which nobody is at work.        *)
EveryCrashHasCompletion == lock = NoProcess => CondemnedIsJournalled

(* The same statement, of temporary files: not so, since nothing removes   *)
(* the files of a compaction that was killed, and no purge looks for them. *)
NoCondemnedOrphan ==
  lock = NoProcess => \A r \in tombstones : Of(r, orphans) # {} => journal.repo = r

Stored == db \union Records(queue) \union Records(replay)

(* The file p works on, if it is to be removed for a malformed record.     *)
Removed(p) ==
  CASE p \notin recovering -> {}
    [] p \in recovering /\ pc[p] = "queue" /\ Malformed(queue) # {} -> Records(queue)
    [] p \in recovering /\ pc[p] = "replay" /\ Malformed(replay) # {} -> Records(replay)
    [] OTHER -> {}

(* As long as no two replays overlap, an event is lost only if its purge   *)
(* was accepted, to retention, or next to a malformed record in a file     *)
(* that a recovery removes: not by a compaction it raced with, nor by a    *)
(* replay that unlinks a file which a purge replaced meanwhile.            *)
OthersAreKept ==
  [][~overlapped' => \A e \in Stored \ Stored' :
       \/ e.repo \in requested
       \/ e \in Outdated /\ count["retentions"] > 0
       \/ \E p \in Process : e \in Removed(p)]_vars

(* A purge that was accepted is completed, by whoever opens the store, as  *)
(* long as no recovery acts on an outdated journal.                        *)
PurgeCompletes == journal # NoJournal ~> journal = NoJournal \/ overtaken
===============================================================================
