------------------------------- MODULE Projection -------------------------------
(***************************************************************************)
(* The event log and its projections (src/src/store/projection.rs), with   *)
(* everything that writes them in an order of its own: hook events that    *)
(* were queued and are ingested late, edits of tasks and facts, grouping   *)
(* operations that are previewed, claimed and undone                       *)
(* (src/src/grouping.rs, src/src/store/operations.rs), and retention       *)
(* (src/src/store/maintenance.rs).                                         *)
(*                                                                         *)
(* One repository.  A session without a task starts one of its own, named  *)
(* after the session; a split creates one named after its request.  All    *)
(* facts state the same, so a fact is named after the task it was stated   *)
(* in.  Of a row are kept the task it belongs to and what decides its      *)
(* fate; a session's evidence, checkpoints, changes and tests move         *)
(* together and are one row.                                               *)
(***************************************************************************)
EXTENDS Naturals, Folds

CONSTANTS
  Session,
  Request,       \* operation ids of grouping requests
  None,          \* no task, no fact, no operation
  MaxTimes,      \* bound on hook events, previews and edits, taken together
  MaxEdits,      \* bound on edits of tasks and facts
  MaxRetentions  \* bound on compactions

ASSUME BoundsAssumption == {MaxTimes, MaxEdits, MaxRetentions} \subseteq Nat

Task == Session \union Request
Lifecycle == {"active", "completed", "abandoned"}
FactLifecycle == {"candidate", "pinned", "invalid"}
Fact == [task : Task, by : Session, lifecycle : FactLifecycle]  \* by: of its evidence

ASSUME NoneAssumption == None \notin Task \union Lifecycle \union Fact

VARIABLES
  log,           \* canonical_events
  tables,        \* the projections
  inflight,      \* hook events that are captured and not ingested
  held,          \* edits a handler has read and not written
  previews,      \* grouping operations a handler has previewed, and ...
  overtaken,     \* ... history: of those, before another was claimed
  clock,
  rejected,      \* history: events the store could not project
  compactions,   \* number of compactions, and ...
  refused,       \* ... history: of those that failed
  edits

store == <<log, tables>>
prepared == <<previews, overtaken>>
bounds == <<edits, compactions>>
vars == <<log, tables, inflight, held, previews, overtaken, clock, rejected,
          compactions, refused, edits>>
-------------------------------------------------------------------------------
(* Applying an event.                                                      *)

EmptyTables ==
  [ok |-> TRUE,
   session |-> [s \in Session |-> None],      \* its task
   owned |-> [s \in Session |-> None],        \* the task of its evidence
   assigned |-> [s \in Session |-> None],     \* session_grouping_assignments
   task |-> [t \in Task |-> None],
   fact |-> [f \in Task |-> None]]

Failed(t) == [t EXCEPT !.ok = FALSE]

(* Faulty: the event is believed. *)
NoAssignment(t, e) == e.task

(* effective_grouping_task_id: a grouped session stays where it was put. *)
Effective(t, e) ==
  IF t.assigned[e.session] # None THEN t.assigned[e.session] ELSE e.task

(* A new task in the payload replaces an older row. *)
EnsureTask(t, task, fresh) ==
  IF fresh \/ t.task[task] = None THEN [t EXCEPT !.task[task] = "active"] ELSE t

EnsureSession(t, s, task) == [t EXCEPT !.session[s] = task]

ApplyHook(t, e) ==
  LET task == Effective(t, e) IN
  EnsureTask(EnsureSession(t, e.session, task), task, e.fresh /\ task = e.task)

(* FactCandidate brings its evidence along, FactConfirmed does not. *)
ApplyFact(t, e) ==
  LET task == Effective(t, e)
      ensured == EnsureTask(EnsureSession(t, e.session, task), task, FALSE)
  IN [ensured EXCEPT
        !.fact[e.fact] = [task |-> task, by |-> e.session, lifecycle |-> e.lifecycle],
        !.owned[e.session] = IF e.stated THEN task ELSE @]

(* Faulty: the columns of the assignment are swapped. *)
AssignOperation(t, op) ==
  [s \in Session |-> IF s \in op.sessions THEN op.id ELSE t.assigned[s]]

Assign(t, op) ==
  [s \in Session |-> IF s \in op.sessions THEN op.to ELSE t.assigned[s]]

ApplyTask(t, e) == [t EXCEPT !.task[e.task] = e.lifecycle]

(* The moves, the facts and the lifecycle are those the preview computed.  *)
ApplyGrouping(t, op) ==
  LET created == IF op.action = "split"
                 THEN [t EXCEPT !.task[op.task] = op.after] ELSE t
      moved == [created EXCEPT
                  !.session = [s \in Session |-> IF s \in op.sessions THEN op.to ELSE @[s]],
                  !.assigned = Assign(t, op),
                  !.owned = [s \in Session |-> IF s \in op.sessions /\ @[s] # None
                                               THEN op.to ELSE @[s]],
                  !.fact = [f \in Task |-> IF f \in op.facts /\ @[f] # None
                                           THEN [@[f] EXCEPT !.task = op.to] ELSE @[f]]]
  IN CASE \E s \in op.sessions : t.session[s] = None -> Failed(t)
       [] op.task # None /\ op.after # None /\ moved.task[op.task] = None -> Failed(t)
       [] OTHER -> IF op.task = None THEN moved ELSE [moved EXCEPT !.task[op.task] = op.after]

Apply(t, e) ==
  CASE ~t.ok -> t
    [] t.ok /\ e.kind = "grouping" -> ApplyGrouping(t, e.op)
    [] t.ok /\ e.kind = "task" -> ApplyTask(t, e)
    [] t.ok /\ e.kind = "fact" -> ApplyFact(t, e)
    [] t.ok /\ e.kind = "hook" -> ApplyHook(t, e)

(* occurred_at, then event id: the id of a statement may sort on either    *)
(* side of the prompt it was taken from.                                   *)
Before(d, e) == d.at < e.at \/ (d.at = e.at /\ d.tie < e.tie)

Latest(events) == CHOOSE e \in events : \A d \in events : ~Before(e, d)

(* rebuild_projections_tx *)
Replay(events) ==
  MapThenFoldSet(LAMBDA e, t : Apply(t, e), EmptyTables, LAMBDA e : e, Latest, events)

(* Faulty: the event is applied to what is there. *)
ProjectNext(e) == Apply(tables, e)

(* An event older than the latest one rebuilds everything. *)
Project(e) ==
  IF \E d \in log : Before(e, d) THEN Replay(log \union {e}) ELSE Apply(tables, e)

(* insert_event: one transaction. *)
Insert(e) ==
  LET projected == Project(e) IN
  IF projected.ok
  THEN /\ log' = log \union {e}
       /\ tables' = projected
       /\ UNCHANGED rejected
  ELSE rejected' = rejected \union {e} /\ UNCHANGED store

(* Somebody takes the time. *)
Tick == clock < MaxTimes /\ clock' = clock + 1
-------------------------------------------------------------------------------
Init ==
  /\ log = {} /\ tables = EmptyTables
  /\ inflight = {} /\ held = {} /\ previews = {} /\ overtaken = {}
  /\ clock = 0
  /\ rejected = {} /\ refused = FALSE
  /\ edits = 0 /\ compactions = 0
-------------------------------------------------------------------------------
(* Hook events.                                                            *)

(* The event has its time from the hook, and may wait in a queue. *)
Capture(s) ==
  /\ Tick
  /\ inflight' = inflight \union {[pc |-> "captured", session |-> s, at |-> clock]}
  /\ UNCHANGED <<store, held, prepared, rejected, refused, bounds>>

(* resolve_task: a prompt, which states a fact, belongs to the task of its *)
(* session or to a new one; the call of resume_task, to the one it names.  *)
Resolve(c) ==
  LET own == IF tables.session[c.session] = None THEN c.session ELSE tables.session[c.session]
      resolved(states, task, fresh) ==
        [pc |-> "resolved", session |-> c.session, at |-> c.at,
         states |-> states, task |-> task, fresh |-> fresh]
      prompt == resolved(TRUE, own, tables.session[c.session] = None)
      resumed == {resolved(FALSE, t, FALSE) : t \in {u \in Task : tables.task[u] = "active"}}
  IN
  /\ c.pc = "captured"
  /\ \E r \in {prompt} \union resumed : inflight' = (inflight \ {c}) \union {r}
  /\ UNCHANGED <<store, held, prepared, clock, rejected, refused, bounds>>

Persist(c) ==
  /\ c.pc = "resolved"
  /\ Insert([kind |-> "hook", at |-> c.at, tie |-> 1, session |-> c.session,
             task |-> c.task, fresh |-> c.fresh])
  /\ inflight' = (inflight \ {c}) \union
       IF c.states /\ log' # log THEN {[c EXCEPT !.pc = "persisted"]} ELSE {}
  /\ UNCHANGED <<held, prepared, clock, refused, bounds>>

(* append_explicit_fact_candidates *)
AppendFact(c) ==
  /\ c.pc = "persisted"
  /\ \E tie \in {0, 2} :
       Insert([kind |-> "fact", at |-> c.at, tie |-> tie, session |-> c.session,
               task |-> c.task, fact |-> c.task, lifecycle |-> "candidate",
               stated |-> TRUE])
  /\ inflight' = inflight \ {c}
  /\ UNCHANGED <<held, prepared, clock, refused, bounds>>
-------------------------------------------------------------------------------
(* Edits in the review UI: read, change, write, without a lock.            *)

Edit(e) ==
  /\ edits < MaxEdits
  /\ edits' = edits + 1
  /\ held' = held \union {e}
  /\ Tick
  /\ UNCHANGED <<store, inflight, prepared, rejected, refused, compactions>>

(* update_task writes the whole row, also for a new title. *)
UpdateTask(t, l) ==
  /\ tables.task[t] # None
  /\ Edit([kind |-> "task", at |-> clock, tie |-> 1, task |-> t, lifecycle |-> l])

(* update_fact names the session of the evidence, and the task it read. *)
UpdateFact(f, l) ==
  /\ tables.fact[f] # None
  /\ Edit([kind |-> "fact", at |-> clock, tie |-> 1, session |-> tables.fact[f].by,
           task |-> tables.fact[f].task, fact |-> f, lifecycle |-> l, stated |-> FALSE])

(* revalidate_fact changes where the fact was last seen, and writes the    *)
(* rest of the row as it was read.                                         *)
Revalidate(f) == tables.fact[f] # None /\ UpdateFact(f, tables.fact[f].lifecycle)

(* update_session: the session is left out of context packs, or not.  The   *)
(* event names the task that was read, as a hook event does.               *)
UpdateSession(s) ==
  /\ tables.session[s] # None
  /\ Edit([kind |-> "hook", at |-> clock, tie |-> 1, session |-> s,
           task |-> tables.session[s], fresh |-> FALSE])

Write(e) ==
  /\ Insert(e)
  /\ held' = held \ {e}
  /\ UNCHANGED <<inflight, prepared, clock, refused, bounds>>
-------------------------------------------------------------------------------
(* Grouping.                                                               *)

SessionsOf(t) == {s \in Session : tables.session[s] = t}

(* Facts of the task whose provenance is moved.  The evidence of a fact    *)
(* comes from one statement, so it is never mixed.                         *)
Impacts(from, sessions) ==
  {f \in Task : /\ tables.fact[f] # None
                /\ tables.fact[f].task = from
                /\ tables.fact[f].by \in sessions
                /\ tables.owned[tables.fact[f].by] = from}

PreviewAt(o, action, sessions, from, to, time) ==
  LET emptied == action = "merge" /\ sessions = SessionsOf(from)
      changed == CASE emptied -> from [] action = "split" -> o [] OTHER -> None
  IN [id |-> o, action |-> action, sessions |-> sessions, from |-> from, to |-> to,
      facts |-> Impacts(from, sessions),
      task |-> changed,
      before |-> IF emptied THEN tables.task[from] ELSE None,
      after |-> CASE emptied -> "completed" [] action = "split" -> "active" [] OTHER -> None,
      at |-> time]

(* Faulty: the operation has the time of the oldest event. *)
PreviewOfTask(o, action, sessions, from, to) ==
  PreviewAt(o, action, sessions, from, to,
            CHOOSE n \in {e.at : e \in log} : \A e \in log : n <= e.at)

PreviewOf(o, action, sessions, from, to) == PreviewAt(o, action, sessions, from, to, clock)

Operations == {e.op : e \in {d \in log : d.kind = "grouping"}}
Undo(o) == <<"undo", o>>
IsClaimed(id) == \E op \in Operations : op.id = id

Previewed(op) ==
  /\ previews' = previews \union {op}
  /\ UNCHANGED <<store, inflight, held, overtaken, rejected, refused, bounds>>

Preview(o, action, sessions, to) ==
  /\ Tick
  /\ sessions # {} /\ ~IsClaimed(o)
  /\ \E from \in {t \in Task : tables.task[t] # None} :
       /\ sessions \subseteq SessionsOf(from)
       /\ IF action = "split"
          THEN to = o /\ tables.task[o] = None
          ELSE to # from /\ tables.task[to] \in Lifecycle \ {"abandoned"}
       /\ Previewed(PreviewOf(o, action, sessions, from, to))

(* The inverse of a claimed operation swaps its tasks and its lifecycles.  *)
PrepareUndo(op) ==
  /\ Tick
  /\ op.action # "undo" /\ ~IsClaimed(Undo(op.id))
  /\ \A s \in op.sessions : tables.session[s] = op.to
  /\ Previewed([op EXCEPT !.id = Undo(@), !.action = "undo", !.from = op.to, !.to = op.from,
                          !.before = op.after, !.after = op.before, !.at = clock])

(* The rows of a task that an undone split created are moved, or none is. *)
Deletable(op) ==
  /\ SessionsOf(op.task) \subseteq op.sessions
  /\ {f \in Task : tables.fact[f] # None /\ tables.fact[f].task = op.task} \subseteq op.facts
  /\ {s \in Session : tables.owned[s] = op.task} \subseteq op.sessions

(* claim_task_grouping_operation checks everything again under the lock. *)
Valid(op) ==
  /\ tables.task[op.from] # None
  /\ op.task # None => tables.task[op.task] = op.before
  /\ op.action = "merge" /\ op.after = "completed" => SessionsOf(op.from) \subseteq op.sessions
  /\ op.action = "split" \/ tables.task[op.to] \in Lifecycle \ {"abandoned"}
  /\ op.action # "undo" => Impacts(op.from, op.sessions) = op.facts
  /\ op.task # None /\ op.after = None => Deletable(op)
  /\ \A s \in op.sessions : tables.session[s] = op.from

Claim(op) ==
  /\ IF IsClaimed(op.id) \/ ~Valid(op)
     THEN UNCHANGED <<store, rejected>>
     ELSE Insert([kind |-> "grouping", at |-> op.at, tie |-> 0, op |-> op])
  /\ previews' = previews \ {op}
  /\ overtaken' = IF log' = log THEN overtaken \ {op} ELSE previews'
  /\ UNCHANGED <<inflight, held, clock, refused, bounds>>
-------------------------------------------------------------------------------
(* Retention.                                                              *)

Pinned(f) == tables.fact[f] # None /\ tables.fact[f].lifecycle = "pinned"

(* Faulty: pinning protects the evidence only. *)
RetainedWithoutFacts(cutoff) ==
  {e \in log : \/ e.at >= cutoff
               \/ e.kind \in {"task", "grouping"}
               \/ \E d \in log : e.kind = "hook" /\ d.kind = "fact" /\ d.at = e.at /\ Pinned(d.fact)}

(* The prompt a pinned fact was taken from shares its time.                *)
Retained(cutoff) ==
  {e \in log : \/ e.at >= cutoff
               \/ e.kind \in {"task", "grouping"}
               \/ e.kind = "fact" /\ Pinned(e.fact)
               \/ /\ e.kind = "hook"
                  /\ \E d \in log : /\ d.kind = "fact" /\ d.stated /\ d.at = e.at
                                    /\ Pinned(d.fact) /\ tables.fact[d.fact].by = d.session}

(* apply_retention: the database is replaced, or everything stays.  That   *)
(* it runs between the preview and the claim of one operation is left out: *)
(* its sessions would have to wake up, after 90 days, in that moment.      *)
Retention(cutoff) ==
  /\ compactions < MaxRetentions /\ previews = {}
  /\ Retained(cutoff) # log
  /\ compactions' = compactions + 1
  /\ LET kept == Retained(cutoff)
         rebuilt == Replay(kept)
     IN IF rebuilt.ok THEN log' = kept /\ tables' = rebuilt /\ UNCHANGED refused
        ELSE refused' = TRUE /\ UNCHANGED store
  /\ UNCHANGED <<inflight, held, prepared, clock, rejected, edits>>
-------------------------------------------------------------------------------
Next ==
  \/ \E s \in Session : Capture(s) \/ UpdateSession(s)
  \/ \E c \in inflight : Resolve(c) \/ Persist(c) \/ AppendFact(c)
  \/ \E t \in Task, l \in Lifecycle : UpdateTask(t, l)
  \/ \E f \in Task, l \in {"pinned", "invalid"} : UpdateFact(f, l)
  \/ \E f \in Task : Revalidate(f)
  \/ \E e \in held : Write(e)
  \/ \E o \in Request, a \in {"move", "merge", "split"}, ss \in SUBSET Session, to \in Task :
       Preview(o, a, ss, to)
  \/ \E op \in Operations : PrepareUndo(op)
  \/ \E op \in previews : Claim(op)
  \/ \E cutoff \in 1..clock : Retention(cutoff)

Spec == Init /\ [][Next]_vars
-------------------------------------------------------------------------------
(* Properties.                                                             *)

(* Every variable stays in its range. *)
TypeOK ==
  /\ tables.ok
  /\ \A row \in {tables.session, tables.owned, tables.assigned} :
       row \in [Session -> Task \union {None}]
  /\ tables.task \in [Task -> Lifecycle \union {None}]
  /\ tables.fact \in [Task -> {None} \union Fact]
  /\ \A e \in log : e.kind \in {"hook", "fact", "task", "grouping"} /\ e.at < clock
  /\ \A c \in inflight : c.pc \in {"captured", "resolved", "persisted"}
  /\ \A op \in previews \union Operations : op.sessions \subseteq Session /\ op.facts \subseteq Task
  /\ overtaken \subseteq previews
  /\ clock \in 0..MaxTimes /\ edits \in 0..MaxEdits /\ compactions \in 0..MaxRetentions

(* README.md:49 "deterministic replay": in whatever order queued events,   *)
(* edits, operations and compactions reach the store, the tables are those *)
(* a replay of the log from nothing gives.                                 *)
ProjectionIsReplay == tables = Replay(log)

(* What belongs to a session that was grouped is where the user put it,    *)
(* whatever an event that was resolved before says.                        *)
GroupingIsAuthoritative ==
  \A s \in Session : tables.assigned[s] # None =>
    /\ tables.session[s] = tables.assigned[s]
    /\ tables.owned[s] \in {None, tables.assigned[s]}

(* A task that an undo brings back to what it was. *)
Restores(op) == op.action = "undo" /\ op.after # None

(* No rebuild, in whatever order, meets an operation whose sessions or     *)
(* tasks are not there: hook events, facts and edits are never refused.    *)
(* An operation is only if another one was claimed since its preview, or   *)
(* if it would restore a task and something newer is stored.               *)
OnlyOvertakenIsRejected ==
  [][\A e \in rejected' \ rejected :
       /\ e.kind = "grouping"
       /\ \/ e.op \in overtaken
          \/ Restores(e.op) /\ \E d \in log : Before(e, d)]_vars

(* Not so: an operation that is overtaken twice, there and back, can be    *)
(* valid again and has no place in the log.                                *)
NothingIsRejected == rejected = {}

StatedBy(f) == {e \in log : e.kind = "fact" /\ e.fact = f}

(* privacy.md:51 "until the fact is unpinned": no hook event, grouping,    *)
(* rebuild or edit of something else ends a pin, nor does a statement that *)
(* is ingested late; only a newer event of that fact does.  A compaction   *)
(* leaves the fact as it was.                                              *)
PinnedSurvives ==
  [][\A f \in Task : Pinned(f) =>
       \/ \E e \in StatedBy(f)' : \A d \in StatedBy(f) : Before(d, e)
       \/ Pinned(f)' /\ (compactions' # compactions => tables'.fact[f] = tables.fact[f])]_vars

(* A compaction succeeds. *)
RetentionSucceeds == ~refused

(* A pinned fact is pinned until the user edits it. *)
PinIsKept ==
  [][\A f \in Task : Pinned(f) /\ log \subseteq log' =>
       Pinned(f)' \/ \E e \in log' \ log : e.kind = "fact" /\ ~e.stated /\ e.fact = f]_vars
=================================================================================
