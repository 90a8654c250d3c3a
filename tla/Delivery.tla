------------------------------- MODULE Delivery -------------------------------
(***************************************************************************)
(* How a hook event reaches the store (src/src/hook.rs): the hook process  *)
(* and its retries, the daemon that acknowledges events one at a time, the *)
(* fallback queue the hook writes when it gets no commitment, the replay   *)
(* of that queue by every daemon that starts and by `previously run codex`,*)
(* and the disk space kept in reserve for the queue.                       *)
(*                                                                         *)
(* A hook carries one event, named by the hook.  A queue file is the set   *)
(* of its intact records: their order is left out, and so are the records  *)
(* a replay quarantines as malformed and the advice an acknowledgement     *)
(* carries.                                                                *)
(***************************************************************************)
EXTENDS Naturals

CONSTANTS
  Hook,        \* hook processes, and the event each of them captured
  Runner,      \* processes that replay the queue: daemons and wrappers
  NoSocket,    \* the daemon socket does not exist
  Stale,       \* nobody listens on the daemon socket
  NoFile,      \* the file does not exist
  MaxSends,    \* attempts to reach the daemon (the code: 1 + 12)
  MaxFills,    \* bound on the times the disk fills up
  MaxFaults    \* bound on kills, failed ingestions and refused appends

ASSUME SentinelAssumption ==
  /\ NoSocket \notin Runner /\ Stale \notin Runner \union {NoSocket}
  /\ \A records \in SUBSET Hook : NoFile # records

ASSUME SendsAssumption == MaxSends \in Nat /\ MaxSends > 0

VARIABLES
  db,          \* events the store holds
  queue,       \* events.jsonl
  torn,        \* does the queue end in a fragment of a record?
  replay,      \* events.replay.jsonl
  reserve,     \* is disk-reserve.bin allocated?
  full,        \* is the disk full?
  socket,      \* the daemon that listens at the socket's path
  mail,        \* connections not served yet: daemon, hook and attempt
  hook,        \* control point of each hook
  sends,       \* attempts each hook has made
  pc,          \* control point of each runner
  todo,        \* records of the opened replay file a runner has yet to ingest
  answering,   \* the connection and the status a daemon is about to answer
  owed,        \* history: the queued events when the runner started
  overlapped,  \* history: two replays ran at the same time
  garbled,     \* history: a record was appended behind a fragment
  fills,       \* history: times the disk filled up
  faults       \* history: kills, failed ingestions and refused appends

disk == <<reserve, full, fills>>
queueVars == <<queue, torn, garbled>>
files == <<queueVars, replay>>
hookVars == <<hook, sends>>
runnerVars == <<pc, todo, answering, owed, overlapped>>
vars == <<db, queue, torn, garbled, replay, reserve, full, socket, mail, hook, sends,
          pc, todo, answering, owed, overlapped, fills, faults>>

Connection == [to : Runner, from : Hook, number : 1..MaxSends]
Replaying == {"old", "read old", "check", "rename", "open new", "read new"}
Reading == {"read old", "read new"}
Serving == {"serve", "answer"}
Outcomes == {"committed", "queued", "refused", "lost"}
Answer == [conn : SUBSET Connection, status : {"none", "committed", "retryable"}]
NoAnswer == [conn |-> {}, status |-> "none"]

Records(file) == IF file = NoFile THEN {} ELSE file
Durable == db \union Records(queue) \union Records(replay)

GotoHook(h, l) == hook' = [hook EXCEPT ![h] = l]
Goto(p, l) == pc' = [pc EXCEPT ![p] = l]
Fault == faults < MaxFaults /\ faults' = faults + 1

Init ==
  /\ db = {} /\ queue = NoFile /\ replay = NoFile
  /\ torn = FALSE /\ garbled = FALSE
  /\ reserve = TRUE /\ full = FALSE
  /\ socket = NoSocket /\ mail = {}
  /\ hook = [h \in Hook |-> "idle"]
  /\ sends = [h \in Hook |-> 0]
  /\ pc = [p \in Runner |-> "idle"]
  /\ todo = [p \in Runner |-> {}]
  /\ answering = [p \in Runner |-> NoAnswer]
  /\ owed = [p \in Runner |-> {}]
  /\ overlapped = FALSE
  /\ fills = 0 /\ faults = 0
-------------------------------------------------------------------------------
(* Faulty variants of the steps below.  No specification uses them: each   *)
(* one stands for a bug that a property of this module must catch.         *)

(* The replay file is removed although a record of it was not ingested.    *)
IngestFailsAndGoesOn(p) ==
  /\ pc[p] \in Reading
  /\ todo[p] # {}
  /\ \/ Fault
     \/ full /\ UNCHANGED faults
  /\ todo' = [todo EXCEPT ![p] = {}]
  /\ UNCHANGED <<db, files, disk, socket, mail, hookVars, pc, answering, owed, overlapped>>

(* A replay file left by an earlier run is not looked for.                 *)
OpenOldSkipped(p) ==
  /\ pc[p] = "old"
  /\ Goto(p, "check")
  /\ UNCHANGED <<db, files, disk, socket, mail, hookVars, todo, answering, owed,
                 overlapped, faults>>

(* A full disk makes the hook fail at once.                                *)
AppendWithoutReserve(h) ==
  /\ hook[h] = "fallback"
  /\ IF full
     THEN GotoHook(h, "lost") /\ UNCHANGED queue
     ELSE GotoHook(h, "queued") /\ queue' = Records(queue) \union {h}
  /\ UNCHANGED <<db, torn, garbled, replay, disk, socket, mail, sends, runnerVars, faults>>

(* The attempts are not counted. *)
RetryForever(h, n) ==
  /\ GotoHook(h, "retry")
  /\ sends' = [sends EXCEPT ![h] = n % MaxSends]

(* One attempt too many. *)
RetryOnceMore(h, n) ==
  /\ GotoHook(h, IF n <= MaxSends THEN "retry" ELSE "fallback")
  /\ sends' = [sends EXCEPT ![h] = n]
-------------------------------------------------------------------------------
(* The hook.                                                               *)

(* What follows an attempt that brought no acknowledgement: the daemon is  *)
(* started on demand (Start) and the attempt repeated; then the queue, and *)
(* at once if the daemon cannot be started.                                *)
Retry(h, n) ==
  /\ \/ n < MaxSends /\ GotoHook(h, "retry")
     \/ n \in {1, MaxSends} /\ GotoHook(h, "fallback")
  /\ sends' = [sends EXCEPT ![h] = n]

Send(h) ==
  /\ hook[h] \in {"idle", "retry"}
  /\ socket \in Runner
  /\ sends' = [sends EXCEPT ![h] = @ + 1]
  /\ mail' = mail \union {[to |-> socket, from |-> h, number |-> sends[h] + 1]}
  /\ GotoHook(h, "sent")
  /\ UNCHANGED <<db, files, disk, socket, runnerVars, faults>>

(* Nobody listens. *)
SendFails(h) ==
  /\ hook[h] \in {"idle", "retry"}
  /\ socket \in {NoSocket, Stale}
  /\ Retry(h, sends[h] + 1)
  /\ UNCHANGED <<db, files, disk, socket, mail, runnerVars, faults>>

(* The daemon closed the connection, or its answer does not come in time:  *)
(* then the daemon still finds the envelope on its socket.                 *)
GiveUp(h) ==
  /\ hook[h] = "sent"
  /\ Retry(h, sends[h])
  /\ UNCHANGED <<db, files, disk, socket, mail, runnerVars, faults>>

(* A record that follows a fragment shares its line: a replay quarantines  *)
(* both.                                                                   *)
Append(h, behindFragment) ==
  /\ queue' = Records(queue) \union (IF behindFragment THEN {} ELSE {h})
  /\ torn' = FALSE
  /\ garbled' = (garbled \/ behindFragment)
  /\ GotoHook(h, "queued")

(* append_fallback_with_reserve: if the append fails, the reserve is       *)
(* released and the append repeated.  A disk that is full may still take a *)
(* part of the record, and nothing removes it.                             *)
AppendFallback(h) ==
  /\ hook[h] = "fallback"
  /\ \/ /\ ~full
        /\ Append(h, torn)
        /\ UNCHANGED <<reserve, full>>
     \/ /\ full /\ reserve
        /\ \E fragment \in {torn, TRUE} : Append(h, fragment)
        /\ reserve' = FALSE
        /\ full' = FALSE
     \/ /\ full /\ ~reserve
        /\ torn' \in {torn, TRUE}
        /\ queue' = IF torn' THEN Records(queue) ELSE queue
        /\ GotoHook(h, "lost")
        /\ UNCHANGED <<garbled, reserve, full>>
  /\ UNCHANGED <<db, replay, fills, socket, mail, sends, runnerVars, faults>>

(* The hook is killed while it writes.                                     *)
AppendTorn(h) ==
  /\ hook[h] = "fallback"
  /\ ~full
  /\ Fault
  /\ torn' = TRUE
  /\ queue' = Records(queue)
  /\ GotoHook(h, "lost")
  /\ UNCHANGED <<db, garbled, replay, disk, socket, mail, sends, runnerVars>>

(* The append fails for another reason, such as the gate of a purge: the   *)
(* reserve is released all the same.                                       *)
AppendRefused(h) ==
  /\ hook[h] = "fallback"
  /\ Fault
  /\ GotoHook(h, "refused")
  /\ reserve' = FALSE
  /\ full' = (full /\ ~reserve)
  /\ UNCHANGED <<db, files, fills, socket, mail, sends, runnerVars>>
-------------------------------------------------------------------------------
(* The daemon serves one connection at a time.                             *)

(* Store the event, or fail: a full disk also releases the reserve.        *)
Ingest(d, a) ==
  /\ pc[d] = "serve"
  /\ a \in mail /\ a.to = d
  /\ mail' = mail \ {a}
  /\ \/ /\ ~full
        /\ db' = db \union {a.from}
        /\ answering' = [answering EXCEPT ![d] = [conn |-> {a}, status |-> "committed"]]
        /\ UNCHANGED <<reserve, full, faults>>
     \/ /\ full
        /\ answering' = [answering EXCEPT ![d] = [conn |-> {a}, status |-> "retryable"]]
        /\ reserve' = FALSE
        /\ full' = ~reserve
        /\ UNCHANGED <<db, faults>>
     \/ /\ Fault
        /\ answering' = [answering EXCEPT ![d] = [conn |-> {a}, status |-> "retryable"]]
        /\ UNCHANGED <<db, reserve, full>>
  /\ Goto(d, "answer")
  /\ UNCHANGED <<files, fills, socket, hookVars, todo, owed, overlapped>>

Awaits(h, a) == hook[h] = "sent" /\ a.from = h /\ a.number = sends[h]

Acknowledge(d) ==
  /\ pc[d] = "answer"
  /\ \E h \in Hook, a \in answering[d].conn :
       /\ Awaits(h, a)
       /\ GotoHook(h, IF answering[d].status = "committed" THEN "committed" ELSE "fallback")
  /\ answering' = [answering EXCEPT ![d] = NoAnswer]
  /\ Goto(d, "serve")
  /\ UNCHANGED <<db, files, disk, socket, mail, sends, todo, owed, overlapped, faults>>

(* A process ends: its sockets close, its files and the database stay, and *)
(* so does the path of its socket.                                         *)
Ends(p) ==
  /\ Goto(p, "idle")
  /\ todo' = [todo EXCEPT ![p] = {}]
  /\ answering' = [answering EXCEPT ![p] = NoAnswer]
  /\ owed' = [owed EXCEPT ![p] = {}]
  /\ socket' = IF socket = p THEN Stale ELSE socket
  /\ mail' = {a \in mail : a.to # p}

(* The hook has given up and closed its end: the write fails, and that     *)
(* error ends the daemon.                                                  *)
AcknowledgeTooLate(d) ==
  /\ pc[d] = "answer"
  /\ \A h \in Hook, a \in answering[d].conn : ~Awaits(h, a)
  /\ Ends(d)
  /\ UNCHANGED <<db, files, disk, hookVars, overlapped, faults>>
-------------------------------------------------------------------------------
(* The replay, by a daemon before it listens and by `previously run codex`.*)

Start(p) ==
  /\ pc[p] = "idle"
  /\ Goto(p, "old")
  /\ owed' = [owed EXCEPT ![p] = Records(queue) \union Records(replay)]
  /\ overlapped' = (overlapped \/ \E q \in Runner : pc[q] \in Replaying)
  /\ UNCHANGED <<db, files, disk, socket, mail, hookVars, todo, answering, faults>>

(* A replay file left by an earlier run is ingested first.                 *)
OpenOld(p) ==
  /\ pc[p] = "old"
  /\ Goto(p, IF replay = NoFile THEN "check" ELSE "read old")
  /\ todo' = [todo EXCEPT ![p] = Records(replay)]
  /\ UNCHANGED <<db, files, disk, socket, mail, hookVars, answering, owed,
                 overlapped, faults>>

IngestRecord(p, e) ==
  /\ pc[p] \in Reading
  /\ e \in todo[p]
  /\ ~full \/ e \in db
  /\ db' = db \union {e}
  /\ todo' = [todo EXCEPT ![p] = @ \ {e}]
  /\ UNCHANGED <<files, disk, socket, mail, hookVars, pc, answering, owed,
                 overlapped, faults>>

(* One record that cannot be ingested ends the run and keeps the file.     *)
IngestFails(p) ==
  /\ pc[p] \in Reading
  /\ todo[p] # {}
  /\ \/ Fault
     \/ full /\ UNCHANGED faults
  /\ Ends(p)
  /\ UNCHANGED <<db, files, disk, hookVars, overlapped>>

(* The file is unlinked by its name, whatever that name now stands for; if *)
(* it is gone already, the error ends the run.                             *)
RemoveReplay(p) ==
  /\ pc[p] \in Reading
  /\ todo[p] = {}
  /\ replay # NoFile
  /\ replay' = NoFile
  /\ Goto(p, IF pc[p] = "read old" THEN "check" ELSE "reserve")
  /\ UNCHANGED <<db, queueVars, disk, socket, mail, hookVars, todo, answering, owed,
                 overlapped, faults>>

RemoveMissing(p) ==
  /\ pc[p] \in Reading
  /\ todo[p] = {}
  /\ replay = NoFile
  /\ Ends(p)
  /\ UNCHANGED <<db, files, disk, hookVars, overlapped, faults>>

CheckQueue(p) ==
  /\ pc[p] = "check"
  /\ Goto(p, IF queue = NoFile THEN "reserve" ELSE "rename")
  /\ UNCHANGED <<db, files, disk, socket, mail, hookVars, todo, answering, owed,
                 overlapped, faults>>

(* Under the lock, unless another run has renamed the queue by now.        *)
RenameQueue(p) ==
  /\ pc[p] = "rename"
  /\ replay' = IF queue = NoFile THEN replay ELSE queue
  /\ queue' = NoFile
  /\ torn' = FALSE
  /\ Goto(p, "open new")
  /\ UNCHANGED <<db, garbled, disk, socket, mail, hookVars, todo, answering, owed,
                 overlapped, faults>>

OpenNew(p) ==
  /\ pc[p] = "open new"
  /\ Goto(p, IF replay = NoFile THEN "reserve" ELSE "read new")
  /\ todo' = [todo EXCEPT ![p] = Records(replay)]
  /\ UNCHANGED <<db, files, disk, socket, mail, hookVars, answering, owed,
                 overlapped, faults>>

(* ensure_reserve_file: without room for it, the run ends with an error.   *)
Rearm(p) ==
  /\ pc[p] = "reserve"
  /\ \/ /\ ~full \/ reserve
        /\ reserve' = TRUE
        /\ Goto(p, "replayed")
        /\ UNCHANGED <<todo, answering, owed, socket, mail>>
     \/ /\ full /\ ~reserve
        /\ Ends(p)
        /\ UNCHANGED reserve
  /\ UNCHANGED <<db, files, full, fills, hookVars, overlapped, faults>>

(* A wrapper is done, and so is a daemon that finds another one listening. *)
Finish(p) ==
  /\ pc[p] = "replayed"
  /\ Ends(p)
  /\ UNCHANGED <<db, files, disk, hookVars, overlapped, faults>>

(* A daemon finds nobody listening.  It unlinks a stale path, whatever is  *)
(* there by then, and binds its own socket, if the path is free.           *)
ProbeSocket(p) ==
  /\ pc[p] = "replayed"
  /\ socket \in {NoSocket, Stale}
  /\ Goto(p, IF socket = Stale THEN "unlink" ELSE "bind")
  /\ UNCHANGED <<db, files, disk, socket, mail, hookVars, todo, answering, owed,
                 overlapped, faults>>

UnlinkSocket(p) ==
  /\ pc[p] = "unlink"
  /\ \/ /\ socket # NoSocket
        /\ socket' = NoSocket
        /\ Goto(p, "bind")
        /\ UNCHANGED <<mail, todo, answering, owed>>
     \/ /\ socket = NoSocket
        /\ Ends(p)
  /\ UNCHANGED <<db, files, disk, hookVars, overlapped, faults>>

Bind(p) ==
  /\ pc[p] = "bind"
  /\ \/ /\ socket = NoSocket
        /\ socket' = p
        /\ Goto(p, "serve")
        /\ UNCHANGED <<mail, todo, answering, owed>>
     \/ /\ socket # NoSocket
        /\ Ends(p)
  /\ UNCHANGED <<db, files, disk, hookVars, overlapped, faults>>

(* A daemon that is told to shut down unlinks the path.                    *)
ShutDown(d) ==
  /\ pc[d] = "serve"
  /\ socket = d
  /\ Goto(d, "idle")
  /\ socket' = NoSocket
  /\ mail' = {a \in mail : a.to # d}
  /\ owed' = [owed EXCEPT ![d] = {}]
  /\ UNCHANGED <<db, files, disk, hookVars, todo, answering, overlapped, faults>>

(* Killed.                                                                 *)
Die(p) ==
  /\ pc[p] # "idle"
  /\ Fault
  /\ Ends(p)
  /\ UNCHANGED <<db, files, disk, hookVars, overlapped>>

(* Other programs use up the disk, or free some of it.                     *)
FillDisk ==
  /\ ~full
  /\ fills < MaxFills
  /\ full' = TRUE
  /\ fills' = fills + 1
  /\ UNCHANGED <<db, files, reserve, socket, mail, hookVars, runnerVars, faults>>

FreeDisk ==
  /\ full
  /\ full' = FALSE
  /\ UNCHANGED <<db, files, reserve, fills, socket, mail, hookVars, runnerVars, faults>>
-------------------------------------------------------------------------------
HookStep(h) ==
  \/ Send(h) \/ SendFails(h) \/ GiveUp(h) \/ AppendFallback(h)
  \/ AppendTorn(h) \/ AppendRefused(h)

Serve(p) == (\E a \in mail : Ingest(p, a)) \/ Acknowledge(p) \/ AcknowledgeTooLate(p)

Replay(p) ==
  \/ OpenOld(p) \/ (\E e \in todo[p] : IngestRecord(p, e)) \/ IngestFails(p)
  \/ RemoveReplay(p) \/ RemoveMissing(p) \/ CheckQueue(p) \/ RenameQueue(p)
  \/ OpenNew(p) \/ Rearm(p) \/ Finish(p) \/ ProbeSocket(p) \/ UnlinkSocket(p) \/ Bind(p)

Next ==
  \/ \E h \in Hook : HookStep(h)
  \/ \E p \in Runner : Start(p) \/ Serve(p) \/ Replay(p) \/ ShutDown(p) \/ Die(p)
  \/ FillDisk \/ FreeDisk

Spec == Init /\ [][Next]_vars

(* A process that is not killed runs on: every wait of a hook has a        *)
(* deadline, and a daemon that is neither reading nor answering accepts.   *)
FairSpec ==
  /\ Spec
  /\ \A h \in Hook : WF_vars(hook[h] # "idle" /\ HookStep(h))
  /\ \A p \in Runner : WF_vars(Replay(p)) /\ WF_vars(Serve(p))
-------------------------------------------------------------------------------
(* Properties.                                                             *)

(* Every variable stays in its range. *)
TypeOK ==
  /\ db \subseteq Hook
  /\ queue = NoFile \/ queue \subseteq Hook
  /\ replay = NoFile \/ replay \subseteq Hook
  /\ torn \in BOOLEAN
  /\ torn => queue # NoFile
  /\ reserve \in BOOLEAN /\ full \in BOOLEAN
  /\ socket \in Runner \union {NoSocket, Stale}
  /\ mail \subseteq Connection
  /\ hook \in [Hook -> {"idle", "sent", "retry", "fallback"} \union Outcomes]
  /\ sends \in [Hook -> 0..MaxSends]
  /\ \A h \in Hook : hook[h] \in {"idle", "retry"} => sends[h] < MaxSends
  /\ pc \in [Runner -> {"idle", "reserve", "replayed", "unlink", "bind"}
                        \union Replaying \union Serving]
  /\ \A p \in Runner : socket = p => pc[p] \in Serving
  /\ todo \in [Runner -> SUBSET Hook]
  /\ answering \in [Runner -> Answer]
  /\ owed \in [Runner -> SUBSET Hook]
  /\ overlapped \in BOOLEAN /\ garbled \in BOOLEAN
  /\ fills \in Nat /\ faults \in Nat

(* architecture.md:223 "queues an already-redacted event if startup or     *)
(* delivery fails" and hook.rs:953 "crash-safe queue": an event whose hook *)
(* succeeded is in the store or in a file that a later run replays.        *)
SuccessIsDurable ==
  \A h \in Hook : hook[h] \in {"committed", "queued"} => h \in Durable

(* As long as no two replays run at the same time.                         *)
SuccessIsDurableAlone == ~overlapped => SuccessIsDurable

(* It holds, through lost and late answers, retries, kills and full disks, *)
(* if besides no record is appended behind a fragment.                     *)
SuccessIsDurableIntact == ~overlapped /\ ~garbled => SuccessIsDurable

(* A run that got through its replay undisturbed has ingested every event  *)
(* that was queued when it started, leftovers of an earlier run included.  *)
ReplayIsComplete ==
  \A p \in Runner : pc[p] = "replayed" /\ ~overlapped => owed[p] \subseteq db

(* One full disk loses no event: the reserve pays for it, unless a refused *)
(* append or an earlier full disk used it up.                              *)
ReserveSavesEvents ==
  (\E h \in Hook : hook[h] = "lost") => fills > 1 \/ faults > 0

(* hook.rs:650 "PreviouslyOn daemon is already running": a daemon does not *)
(* start to serve beside another one.                                      *)
DaemonIsAlone ==
  \A p, q \in Runner : pc[p] \in Serving /\ pc[q] \in Serving => p = q

(* Every hook comes to an end, with the event stored, queued or reported.  *)
HookEnds == \A h \in Hook : hook[h] # "idle" ~> hook[h] \in Outcomes

(* As long as runs keep being started and do not overlap, the disk does    *)
(* not stay full and no record was garbled, a queued event is ingested.    *)
QueuedIsIngested ==
  ([]<>(\E p \in Runner : pc[p] = "old") /\ []<>~full) =>
    \A h \in Hook : hook[h] = "queued" ~> (h \in db \/ overlapped \/ garbled)
===============================================================================
