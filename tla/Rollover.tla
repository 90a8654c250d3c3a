------------------------------- MODULE Rollover -------------------------------
(***************************************************************************)
(* The continuation worker (src/src/continuation.rs): one operation, that  *)
(* is one source prompt, attempted by any number of worker processes that  *)
(* overlap, crash, and share nothing but the event store and the Codex App *)
(* Server.  Each step of a worker is one transaction of the store or one   *)
(* App Server request.                                                     *)
(*                                                                         *)
(* Kept: the order of the durable writes and of the requests, the events   *)
(* read before they are used, the first-write-wins insertion of an         *)
(* operation event, the per-event visibility of list_task_events, lost     *)
(* answers.  Abstracted: prompts, context packs and titles; an event's     *)
(* payload is the thread id it names.                                      *)
(***************************************************************************)
EXTENDS Naturals

CONSTANTS
  Worker,            \* invocations of `previously auto-rollover`
  Thread,            \* ids the App Server may give to a new thread
  NoThread,          \* None where the code has an Option of a thread id
  Absent,            \* an operation event that is not in the store
  MaxMoves           \* bound on grouping operations that move the session

ASSUME SentinelAssumption ==
  /\ NoThread \notin Thread
  /\ Absent \notin Thread
  /\ NoThread # Absent

VARIABLES
  log,        \* operation event of each status: the thread it names, or Absent
  evaluated,  \* workers whose handoff contract evaluation is recorded
  sessions,   \* threads with a SessionStarted link event
  linked,     \* is the source session still grouped under the request's task?
  moves,      \* grouping operations done so far
  dedupes,    \* whether the App Server drops a repeated clientUserMessageId
  threads,    \* threads the App Server created for this operation
  turn,       \* turn[w]: the thread in which w's turn/start was accepted
  pc,         \* control point of each worker
  snapshot,   \* events in the store when the worker listed them
  unread,     \* listed events whose visibility is still to be looked up
  seen,       \* `existing`: the operation events the worker found
  first,      \* `first_attempt`
  thread      \* the thread id the worker holds

storeVars == <<log, evaluated, sessions>>
groupVars == <<linked, moves>>
serverVars == <<dedupes, threads, turn>>
readVars == <<snapshot, unread, seen>>
vars == <<log, evaluated, sessions, linked, moves, dedupes, threads, turn, pc,
          snapshot, unread, seen, first, thread>>

Status == {"pending", "thread_created", "started", "failed"}
Answers == {"Started", "Failed", "PendingRecovery"}
Terminal == Answers \union {"Died"}
Calling == {"prepare", "connect", "open", "check", "turn"}
Active == Calling \union {"scan", "record", "link", "finish", "fail"}

Recorded(s) == log[s] # Absent
RecordedStatuses == {s \in Status : Recorded(s)}

(* Events are listed by occurrence time: "pending" first, then             *)
(* "thread_created", then the two outcomes in the order they were written. *)
Precedes(a, b) ==
  \/ a = "pending" /\ b # "pending"
  \/ a = "thread_created" /\ b \in {"started", "failed"}

(* append_operation_event: the event id is a function of operation and     *)
(* status, so a second insertion of a status is a Duplicate.               *)
Insert(s, t) == log' = IF Recorded(s) THEN log ELSE [log EXCEPT ![s] = t]

Goto(w, l) == pc' = [pc EXCEPT ![w] = l]

Init ==
  /\ log = [s \in Status |-> Absent]
  /\ evaluated = {}
  /\ sessions = {}
  /\ linked = TRUE
  /\ moves = 0
  /\ dedupes \in BOOLEAN
  /\ threads = {}
  /\ turn = [w \in Worker |-> NoThread]
  /\ pc = [w \in Worker |-> "idle"]
  /\ snapshot = [w \in Worker |-> {}]
  /\ unread = [w \in Worker |-> {}]
  /\ seen = [w \in Worker |-> {}]
  /\ first = [w \in Worker |-> FALSE]
  /\ thread = [w \in Worker |-> NoThread]
-------------------------------------------------------------------------------
(* Faulty variants of the steps below.  No specification uses them: each   *)
(* one stands for a bug that a property of this module must catch.         *)

(* completed_result content with a recorded thread. *)
ReuseStartedEarly(w) ==
  /\ pc[w] = "scan" /\ unread[w] = {}
  /\ seen[w] \intersect {"thread_created", "started"} # {}
  /\ Goto(w, "Started")
  /\ thread' = [thread EXCEPT ![w] = log["thread_created"]]
  /\ UNCHANGED <<storeVars, groupVars, serverVars, readVars, first>>

(* failed_result taking the thread from the "started" event. *)
ReuseFailedWrongEvent(w) ==
  /\ pc[w] = "scan" /\ unread[w] = {}
  /\ "started" \notin seen[w] /\ "failed" \in seen[w]
  /\ Goto(w, "Failed")
  /\ thread' = [thread EXCEPT ![w] = log["started"]]
  /\ UNCHANGED <<storeVars, groupVars, serverVars, readVars, first>>

(* The insertion outcome of "pending" is not looked at. *)
ClaimIgnoringDuplicate(w) ==
  /\ pc[w] = "scan" /\ unread[w] = {}
  /\ seen[w] = {}
  /\ Insert("pending", NoThread)
  /\ first' = [first EXCEPT ![w] = TRUE]
  /\ Goto(w, "prepare")
  /\ UNCHANGED <<evaluated, sessions, groupVars, serverVars, readVars, thread>>

(* The thread's id is recorded together with the outcome only. *)
RecordThreadLater(w) ==
  /\ pc[w] = "record"
  /\ Goto(w, "check")
  /\ UNCHANGED <<storeVars, groupVars, serverVars, readVars, first, thread>>

(* The worker believes the turn of an earlier attempt is running. *)
LinkSessionAndFinish(w) ==
  /\ pc[w] = "link"
  /\ sessions' = sessions \union {thread[w]}
  /\ Goto(w, IF first[w] THEN "turn" ELSE "finish")
  /\ UNCHANGED <<log, evaluated, groupVars, serverVars, readVars, first, thread>>

(* A preflight error is returned without record_failure. *)
CallFailsUnrecorded(w) ==
  /\ pc[w] \in Calling
  /\ Goto(w, IF pc[w] = "prepare" THEN "Failed" ELSE "fail")
  /\ UNCHANGED <<storeVars, groupVars, serverVars, readVars, first, thread>>
-------------------------------------------------------------------------------
(* Reading the operation's past.                                           *)

(* operation_events lists the repository's events with one query.          *)
Begin(w) ==
  /\ pc[w] = "idle"
  /\ Goto(w, "scan")
  /\ snapshot' = [snapshot EXCEPT ![w] = RecordedStatuses]
  /\ unread' = [unread EXCEPT ![w] = RecordedStatuses]
  /\ UNCHANGED <<storeVars, groupVars, serverVars, seen, first, thread>>

(* list_task_events then looks the session's current task up once for each *)
(* event, and keeps the event if it is still the request's task.           *)
Scan(w, s) ==
  /\ pc[w] = "scan"
  /\ s \in unread[w]
  /\ \A r \in unread[w] : ~Precedes(r, s)
  /\ unread' = [unread EXCEPT ![w] = @ \ {s}]
  /\ seen' = [seen EXCEPT ![w] = IF linked THEN @ \union {s} ELSE @]
  /\ UNCHANGED <<storeVars, groupVars, serverVars, pc, snapshot, first, thread>>

HasRead(w) == pc[w] = "scan" /\ unread[w] = {}

(* completed_result: an earlier attempt started; its thread is reported.   *)
ReuseStarted(w) ==
  /\ HasRead(w)
  /\ "started" \in seen[w]
  /\ Goto(w, "Started")
  /\ thread' = [thread EXCEPT ![w] = log["started"]]
  /\ UNCHANGED <<storeVars, groupVars, serverVars, readVars, first>>

(* failed_result: an earlier attempt failed; it is not retried.            *)
ReuseFailed(w) ==
  /\ HasRead(w)
  /\ "started" \notin seen[w]
  /\ "failed" \in seen[w]
  /\ Goto(w, "Failed")
  /\ thread' = [thread EXCEPT ![w] = log["failed"]]
  /\ UNCHANGED <<storeVars, groupVars, serverVars, readVars, first>>

(* An earlier attempt recorded its thread and no outcome: take it over.    *)
Recover(w) ==
  /\ HasRead(w)
  /\ seen[w] \intersect {"started", "failed"} = {}
  /\ "thread_created" \in seen[w]
  /\ Goto(w, "prepare")
  /\ thread' = [thread EXCEPT ![w] = log["thread_created"]]
  /\ UNCHANGED <<storeVars, groupVars, serverVars, readVars, first>>

(* Only "pending" is there: a thread may exist that nobody recorded.       *)
RefuseDuplicate(w) ==
  /\ HasRead(w)
  /\ seen[w] = {"pending"}
  /\ Goto(w, "PendingRecovery")
  /\ UNCHANGED <<storeVars, groupVars, serverVars, readVars, first, thread>>

(* Nothing is there: the worker whose insertion of "pending" succeeds is   *)
(* the first attempt, any other one gives up.                              *)
Claim(w) ==
  /\ HasRead(w)
  /\ seen[w] = {}
  /\ Insert("pending", NoThread)
  /\ first' = [first EXCEPT ![w] = ~Recorded("pending")]
  /\ Goto(w, IF Recorded("pending") THEN "PendingRecovery" ELSE "prepare")
  /\ UNCHANGED <<evaluated, sessions, groupVars, serverVars, readVars, thread>>
-------------------------------------------------------------------------------
(* The handoff.                                                            *)

(* prepare_handoff: pack and contracts verified, evaluation recorded.      *)
Prepare(w) ==
  /\ pc[w] = "prepare"
  /\ evaluated' = evaluated \union {w}
  /\ Goto(w, "connect")
  /\ UNCHANGED <<log, sessions, groupVars, serverVars, readVars, first, thread>>

Connect(w) ==
  /\ pc[w] = "connect"
  /\ Goto(w, "open")
  /\ UNCHANGED <<storeVars, groupVars, serverVars, readVars, first, thread>>

(* thread/start: the thread exists from here on, and its id is answered.   *)
StartThread(w) ==
  /\ pc[w] = "open"
  /\ thread[w] = NoThread
  /\ \E t \in Thread \ threads :
       /\ threads' = threads \union {t}
       /\ thread' = [thread EXCEPT ![w] = t]
  /\ Goto(w, "record")
  /\ UNCHANGED <<storeVars, groupVars, dedupes, turn, readVars, first>>

(* The thread is created and the answer is lost, late (10 s) or unusable.  *)
StartThreadUnanswered(w) ==
  /\ pc[w] = "open"
  /\ thread[w] = NoThread
  /\ \E t \in Thread \ threads : threads' = threads \union {t}
  /\ Goto(w, "fail")
  /\ UNCHANGED <<storeVars, groupVars, dedupes, turn, readVars, first, thread>>

RecordThread(w) ==
  /\ pc[w] = "record"
  /\ Insert("thread_created", thread[w])
  /\ Goto(w, "check")
  /\ UNCHANGED <<evaluated, sessions, groupVars, serverVars, readVars, first, thread>>

(* thread/resume of the recorded thread.                                   *)
ResumeThread(w) ==
  /\ pc[w] = "open"
  /\ thread[w] # NoThread
  /\ Goto(w, "check")
  /\ UNCHANGED <<storeVars, groupVars, serverVars, readVars, first, thread>>

(* thread/read: the thread has the expected id and worktree.               *)
CheckThread(w) ==
  /\ pc[w] = "check"
  /\ Goto(w, "link")
  /\ UNCHANGED <<storeVars, groupVars, serverVars, readVars, first, thread>>

(* link_new_session (the best-effort thread/name/set is left out).         *)
LinkSession(w) ==
  /\ pc[w] = "link"
  /\ sessions' = sessions \union {thread[w]}
  /\ Goto(w, "turn")
  /\ UNCHANGED <<log, evaluated, groupVars, serverVars, readVars, first, thread>>

(* What the App Server does with turn/start.  Every worker sends the       *)
(* operation id as clientUserMessageId.                                    *)
AcceptTurn(w) ==
  turn' = IF dedupes /\ \E v \in Worker : turn[v] = thread[w]
          THEN turn
          ELSE [turn EXCEPT ![w] = thread[w]]

StartTurn(w) ==
  /\ pc[w] = "turn"
  /\ AcceptTurn(w)
  /\ Goto(w, "finish")
  /\ UNCHANGED <<storeVars, groupVars, dedupes, threads, readVars, first, thread>>

(* The turn is accepted and the answer is lost or late.                    *)
StartTurnUnanswered(w) ==
  /\ pc[w] = "turn"
  /\ AcceptTurn(w)
  /\ Goto(w, "fail")
  /\ UNCHANGED <<storeVars, groupVars, dedupes, threads, readVars, first, thread>>

Finish(w) ==
  /\ pc[w] = "finish"
  /\ Insert("started", thread[w])
  /\ Goto(w, "Started")
  /\ UNCHANGED <<evaluated, sessions, groupVars, serverVars, readVars, first, thread>>

(* A preflight error, a failed connection, or a request that was refused.  *)
CallFails(w) ==
  /\ pc[w] \in Calling
  /\ Goto(w, "fail")
  /\ UNCHANGED <<storeVars, groupVars, serverVars, readVars, first, thread>>

(* record_failure, whether or not this attempt's insertion wins.           *)
RecordFailure(w) ==
  /\ pc[w] = "fail"
  /\ Insert("failed", thread[w])
  /\ Goto(w, "Failed")
  /\ UNCHANGED <<evaluated, sessions, groupVars, serverVars, readVars, first, thread>>

(* The process is killed, the request is refused by its validation, or a   *)
(* store call fails: the caller gets an error and nothing is undone.       *)
Die(w) ==
  /\ pc[w] \in Active
  /\ Goto(w, "Died")
  /\ UNCHANGED <<storeVars, groupVars, serverVars, readVars, first, thread>>

(* A grouping operation, or its undo, moves the source session away from   *)
(* the request's task or back.                                             *)
MoveSession ==
  /\ moves < MaxMoves
  /\ linked' = ~linked
  /\ moves' = moves + 1
  /\ UNCHANGED <<storeVars, serverVars, pc, readVars, first, thread>>
-------------------------------------------------------------------------------
Step(w) ==
  \/ Begin(w)
  \/ \E s \in Status : Scan(w, s)
  \/ ReuseStarted(w) \/ ReuseFailed(w) \/ Recover(w) \/ RefuseDuplicate(w)
  \/ Claim(w)
  \/ Prepare(w) \/ Connect(w)
  \/ StartThread(w) \/ StartThreadUnanswered(w) \/ RecordThread(w)
  \/ ResumeThread(w) \/ CheckThread(w) \/ LinkSession(w)
  \/ StartTurn(w) \/ StartTurnUnanswered(w) \/ Finish(w)
  \/ CallFails(w) \/ RecordFailure(w)

Next ==
  \/ \E w \in Worker : Step(w) \/ Die(w)
  \/ MoveSession

Spec == Init /\ [][Next]_vars

(* A process that is not killed keeps running: the store's transactions    *)
(* return, and every App Server request gives up after ten seconds.        *)
FairSpec == Spec /\ \A w \in Worker : WF_vars(pc[w] # "idle" /\ Step(w))
-------------------------------------------------------------------------------
(* Properties.                                                             *)

(* Every variable stays in its range. *)
TypeOK ==
  /\ log \in [Status -> Thread \union {NoThread, Absent}]
  /\ evaluated \subseteq Worker
  /\ sessions \subseteq Thread
  /\ linked \in BOOLEAN
  /\ moves \in Nat
  /\ dedupes \in BOOLEAN
  /\ threads \subseteq Thread
  /\ turn \in [Worker -> Thread \union {NoThread}]
  /\ pc \in [Worker -> {"idle"} \union Active \union Terminal]
  /\ snapshot \in [Worker -> SUBSET Status]
  /\ unread \in [Worker -> SUBSET Status]
  /\ seen \in [Worker -> SUBSET Status]
  /\ first \in [Worker -> BOOLEAN]
  /\ thread \in [Worker -> Thread \union {NoThread}]

(* One prompt never yields two Codex tasks: however many invocations       *)
(* overlap, crash or lose an answer, and even when grouping hides the      *)
(* operation's events, thread/start succeeds at most once.                 *)
AtMostOneThread == \A s, t \in threads : s = t

(* Write-ahead order: when a turn runs, the store already holds the        *)
(* pending claim, the thread's id, the session link and this worker's      *)
(* contract evaluation, so a restart can find the thread it runs in.       *)
TurnIsRecoverable ==
  \A w \in Worker : turn[w] # NoThread =>
    /\ Recorded("pending")
    /\ log["thread_created"] = turn[w]
    /\ turn[w] \in sessions
    /\ w \in evaluated

(* Callers told "Started" stop the source turn, so all of them name the    *)
(* one recorded thread, and the prompt does run in it: it is not lost.     *)
StartedMeansRunning ==
  \A w \in Worker : pc[w] = "Started" =>
    /\ thread[w] = log["started"]
    /\ thread[w] = log["thread_created"]
    /\ \E v \in Worker : turn[v] = thread[w]

(* With an App Server that drops a repeated clientUserMessageId, recovery  *)
(* and overlapping attempts run the prompt at most once.                   *)
AtMostOneTurn ==
  dedupes => \A v, w \in Worker : turn[v] # NoThread /\ turn[w] # NoThread => v = w

(* Every invocation that is not killed answers its caller. *)
EveryCallAnswers == \A w \in Worker : pc[w] = "scan" ~> pc[w] \in Terminal

(* An operation does not stay "pending" unless a worker died: its thread   *)
(* or its failure gets recorded.                                           *)
ClaimIsSettled ==
  Recorded("pending") ~> \/ Recorded("thread_created") \/ Recorded("failed")
                         \/ \E w \in Worker : pc[w] = "Died"

(* Nobody waits for an attempt that may be dead, and no attempt is left    *)
(* without an outcome (continuation.rs:165). *)
AttemptsSettle == EveryCallAnswers /\ ClaimIsSettled

(* Statements of the documentation that the code does not keep.            *)

(* docs/product-roadmap.md:58 "no source prompt is lost, duplicated, or    *)
(* blocked after a failed rollover": a caller told "Failed" keeps the      *)
(* prompt in the source task, so it must not run in the new thread too.    *)
FailedIsNotRunning ==
  \A w \in Worker : pc[w] = "Failed" => \A v \in Worker : turn[v] = NoThread

(* docs/architecture.md:137 "A repeated hook invocation reuses the         *)
(* recorded result."                                                       *)
RepeatReusesResult ==
  \A w \in Worker : "started" \in snapshot[w] /\ pc[w] \in Answers => pc[w] = "Started"

(* The promise of Handoff, read off the detailed state. *)
CreatedThread == IF threads = {} THEN NoThread ELSE CHOOSE t \in threads : TRUE
Running == \E w \in Worker : turn[w] # NoThread
Told == {pc[w] : w \in Worker} \intersect Answers

Promise == INSTANCE Handoff WITH created <- CreatedThread, running <- Running, told <- Told

(* The worker keeps the promise of Handoff. *)
ImplementsHandoff == Promise!Spec
===============================================================================
