---------------------------- MODULE AiRefreshProofs ----------------------------
(***************************************************************************)
(* Proofs about AiRefresh, for any set of servers, requests, facts,        *)
(* evidence and candidates, and any number of requests and troubles.       *)
(***************************************************************************)
EXTENDS AiRefresh, FiniteSetTheorems, TLAPS

Statuses == {"pending", "thread_created", "completed", "failed"}
Steps == {"claim", "run", "record", "turn", "settle"}
Task == [pc : Steps, server : Server, snap : Snapshot]

Working(j) == job[j].pc \in Steps \ {"claim"}
(* Its snapshot is not in the log yet. *)
Holding(j) == job[j].pc \in {"claim", "record", "settle"}

Types ==
  /\ log \subseteq Snapshot
  /\ facts \in [Fact \union Proposed -> {NoFact} \union FactRow]
  /\ job \in [Job -> {Idle} \union Task]
  /\ server \in [Server -> {"down", "recovering", "serving"}]
  /\ todo \in [Server -> SUBSET Snapshot]
  /\ clock \in Nat
  /\ threads \in [Operation -> Nat]
  /\ overlapped \in BOOLEAN

(* A fact that was proposed has no evidence, so no pack contains it.       *)
ProposedIsUnproved == \A f \in Proposed : IsFact(f) => facts[f].evidence = {}

HasLatest(o) == \E e \in Snapshots(o) : \A d \in Snapshots(o) : d.at <= e.at

(* No two snapshots have the same time, and an operation has a latest one. *)
Times ==
  /\ \A e \in log : e.at < clock
  /\ \A j \in Job : job[j] # Idle => job[j].snap.at < clock
  /\ \A e, d \in log : e.at = d.at => e = d
  /\ \A j \in Job : Holding(j) => \A e \in log : e.at # job[j].snap.at
  /\ \A i, j \in Job : Holding(i) /\ Holding(j) /\ job[i].snap.at = job[j].snap.at => i = j
  /\ \A o \in Operation : Claimed(o) => HasLatest(o)

Sorted == Types /\ ProposedIsUnproved /\ Times

(* Only one task ever works for an operation, and it has one thread.       *)
Claims ==
  /\ \A j \in Job : Working(j) => Claimed(job[j].snap.op)
  /\ \A i, j \in Job : Working(i) /\ Working(j) /\ job[i].snap.op = job[j].snap.op => i = j
  /\ \A j \in Job : job[j].pc = "run" => threads[job[j].snap.op] = 0
  /\ \A o \in Operation : threads[o] = 0 \/ Claimed(o)
  /\ OneThreadPerOperation

Verdict == {"accepted", "edited", "rejected"}
Undecided(e) == \A c \in Candidate : e.decision[c] \notin Verdict
Unfinal(o) == \A e \in log : e.op = o => e.status # "completed"

(* What a task holds fits where it is. *)
Stage(j) ==
  /\ job[j].pc \in {"claim", "run"} => job[j].snap.status = "pending"
  /\ job[j].pc \in {"record", "turn"} => job[j].snap.status = "thread_created"
  /\ job[j].pc = "settle" => job[j].snap.status \in {"completed", "failed"}

Pending(k) ==
  {st \in {"pending", "thread_created"} :
     /\ k.pc \in {"run", "record"} => st = "pending"
     /\ k.pc = "turn" \/ (k.pc = "settle" /\ k.snap.status = "completed") => st = "thread_created"}

(* Only a completed operation is decided, after its task is done, and a    *)
(* completed snapshot repeats the verdicts of the earlier ones.            *)
Verdicts ==
  /\ \A j \in Job : job[j].pc \in Steps => Stage(j) /\ Undecided(job[j].snap)
  /\ \A s \in Server : \A e \in todo[s] : Undecided(e)
  /\ \A e \in log : e.status # "completed" => Undecided(e)
  /\ \A j \in Job : Working(j) => Unfinal(job[j].snap.op)
  /\ \A e, d \in log :
       e.op = d.op /\ e.status = "completed" /\ d.status = "completed" /\ e.at <= d.at
         => \A c \in Candidate : e.decision[c] \in Verdict => d.decision[c] = e.decision[c]
  /\ \A o \in Operation, c \in Candidate :
       IsFact(<<o, c>>) <=> \E e \in log : e.op = o /\ e.decision[c] \in {"accepted", "edited"}

(* The status of an operation is that of its task, and nothing comes after *)
(* a completed snapshot but its reviews.                                   *)
InStep ==
  /\ \A s, t \in Server : server[s] # "down" /\ server[t] # "down" => s = t
  /\ \A j \in Job : job[j].pc \in Steps => server[job[j].server] = "serving"
  /\ \A s \in Server : \A e \in todo[s] :
       server[s] = "recovering" /\ Claimed(e.op) /\ Unfinal(e.op)
  /\ \A e, d \in log :
       e.op = d.op /\ e.status = "completed" /\ d.status # "completed" => d.at < e.at
  /\ \A j \in Job : Working(j) /\ Holding(j) =>
       \A e \in log : e.op = job[j].snap.op => e.at < job[j].snap.at
  /\ \A j \in Job : Working(j) => Status(job[j].snap.op) \in Pending(job[j])

(* While two servers are up, each takes the tasks of the other for dead.   *)
Alone == overlapped \/ InStep
-------------------------------------------------------------------------------
(* Snapshots and tasks.                                                    *)

LEMMA StampedIs ==
  ASSUME NEW e \in Snapshot, NEW status \in Statuses, Types
  PROVE /\ Stamped(e, status) \in Snapshot
        /\ Stamped(e, status).op = e.op /\ Stamped(e, status).decision = e.decision
        /\ Stamped(e, status).at = clock /\ Stamped(e, status).status = status
  BY DEF Stamped, Snapshot, Statuses, Types

(* The latest snapshot of an operation is current.                         *)
LEMMA CurrentIsLatest ==
  ASSUME Times, NEW o \in Operation, Claimed(o)
  PROVE /\ Current(o) \in log /\ Current(o).op = o
        /\ \A e \in log : e.op = o => e.at <= Current(o).at
<1>1. \E e \in Snapshots(o) : \A d \in Snapshots(o) : d.at <= e.at
  BY DEF Times, HasLatest
<1>2. Current(o) \in Snapshots(o) /\ \A d \in Snapshots(o) : d.at <= Current(o).at
  BY <1>1 DEF Current
<1> QED BY <1>2 DEF Snapshots

(* Whatever is latest is current. *)
LEMMA LatestIsCurrent ==
  ASSUME Types, Times, NEW x \in log, \A e \in log : e.op = x.op => e.at <= x.at
  PROVE Claimed(x.op) /\ Current(x.op) = x
<1>1. x.op \in Operation /\ Claimed(x.op)
  BY DEF Types, Snapshot, Claimed, Snapshots
<1>2. /\ Current(x.op) \in log /\ Current(x.op).op = x.op
      /\ \A e \in log : e.op = x.op => e.at <= Current(x.op).at
  BY <1>1, CurrentIsLatest
<1>3. x.at \in Nat /\ Current(x.op).at \in Nat
  BY <1>2 DEF Types, Snapshot
<1>4. Current(x.op).at = x.at
  BY <1>2, <1>3
<1> QED BY <1>1, <1>2, <1>4 DEF Times
-------------------------------------------------------------------------------
(* The first part of the invariant: types, evidence and times.             *)

(* A pack consists of facts the task had from the beginning.               *)
LEMMA PackIsOperation ==
  ASSUME Types, ProposedIsUnproved
  PROVE Pack \in Operation
<1> SUFFICES ASSUME NEW f \in Fact \union Proposed, IsFact(f), Sendable(f) PROVE f \in Fact
  BY DEF Pack, Operation, Types
<1> QED BY DEF Sendable, ProposedIsUnproved

LEMMA TaskIs ==
  ASSUME Types, NEW j \in Job, job[j].pc \in Steps
  PROVE job[j] \in Task /\ job[j].snap \in Snapshot /\ job[j].server \in Server /\ job[j] # Idle
  BY DEF Types, Task, Idle, Steps

LEMMA UnfinishedIs ==
  ASSUME Times, NEW e \in Unfinished
  PROVE /\ e \in log /\ e.op \in Operation /\ Claimed(e.op) /\ Current(e.op) = e
        /\ e.status \in {"pending", "thread_created"}
<1>1. PICK o \in Operation : e = Current(o) /\ Status(o) \in {"pending", "thread_created"}
  BY DEF Unfinished
<1>2. Claimed(o) /\ e.status = Status(o)
  BY <1>1 DEF Status
<1>3. e \in log /\ e.op = o
  BY <1>1, <1>2, CurrentIsLatest
<1> QED BY <1>1, <1>2, <1>3

LEMMA TypesStep ==
  ASSUME Sorted, [Next]_vars
  PROVE Types'
<1> USE DEF Sorted
<1>1. CASE UNCHANGED vars
  BY <1>1 DEF Types, vars
<1>2. ASSUME NEW j \in Job, NEW s \in Server, Ask(j, s)
      PROVE Types'
  <2> DEFINE x == [op |-> Pack, at |-> clock, status |-> "pending",
                   decision |-> [c \in Candidate |-> "none"]]
  <2>1. x \in Snapshot
    BY PackIsOperation DEF Snapshot, Decisions, Types
  <2>2. [pc |-> "claim", server |-> s, snap |-> x] \in Task
    BY <2>1 DEF Task, Steps
  <2> HIDE DEF x
  <2>3. job' = [job EXCEPT ![j] = [pc |-> "claim", server |-> s, snap |-> x]]
    BY <1>2 DEF Ask, x
  <2>4. job' \in [Job -> {Idle} \union Task]
    BY <2>2, <2>3 DEF Types
  <2> QED BY <1>2, <2>4 DEF Types, Ask, Tick, store, history
<1>3. ASSUME NEW j \in Job, Claim(j)
      PROVE Types'
  <2>1. job[j] \in Task /\ job[j].snap \in Snapshot
    BY <1>3, TaskIs DEF Claim, Steps
  <2>2. [job[j] EXCEPT !.pc = "run"] \in Task
    BY <2>1 DEF Task, Steps
  <2>3. job' \in [Job -> {Idle} \union Task] /\ log' \subseteq Snapshot
    BY <1>3, <2>1, <2>2 DEF Types, Claim
  <2> QED BY <1>3, <2>3 DEF Types, Claim, history
<1>4. ASSUME NEW j \in Job, CreateThread(j)
      PROVE Types'
  <2>1. job[j] \in Task /\ job[j].snap \in Snapshot
    BY <1>4, TaskIs DEF CreateThread, Steps
  <2> DEFINE x == Stamped(job[j].snap, "thread_created")
  <2>2. x \in Snapshot
    BY <2>1, StampedIs DEF Statuses
  <2> HIDE DEF x
  <2>3. job' = [job EXCEPT ![j] = [@ EXCEPT !.pc = "record", !.snap = x]]
    BY <1>4, <2>1 DEF CreateThread, x, Types
  <2>4. [job[j] EXCEPT !.pc = "record", !.snap = x] \in Task
    BY <2>1, <2>2 DEF Task, Steps
  <2>5. job' \in [Job -> {Idle} \union Task]
    BY <2>3, <2>4 DEF Types
  <2>6. threads' \in [Operation -> Nat]
    BY <1>4, <2>1 DEF Types, CreateThread, Snapshot
  <2> QED BY <1>4, <2>5, <2>6 DEF Types, CreateThread, Tick, store
<1>5. ASSUME NEW j \in Job, Record(j)
      PROVE Types'
  <2>1. job[j] \in Task /\ job[j].snap \in Snapshot
    BY <1>5, TaskIs DEF Record, Steps
  <2>2. [job[j] EXCEPT !.pc = "turn"] \in Task
    BY <2>1 DEF Task, Steps
  <2> QED BY <1>5, <2>1, <2>2 DEF Types, Record, history
<1>6. ASSUME NEW j \in Job, Propose(j)
      PROVE Types'
  <2>1. job[j] \in Task /\ job[j].snap \in Snapshot
    BY <1>6, TaskIs DEF Propose, Steps
  <2>2. PICK x \in Snapshot :
          job' = [job EXCEPT ![j].pc = "settle", ![j].snap = x]
    <3>1. PICK proposed \in SUBSET Candidate :
            job' = [job EXCEPT ![j].pc = "settle",
                      ![j].snap = [Stamped(@, "completed") EXCEPT !.decision =
                        [c \in Candidate |-> IF c \in proposed THEN "pending" ELSE "none"]]]
      BY <1>6 DEF Propose
    <3>2. Stamped(job[j].snap, "completed") \in Snapshot
      BY <2>1, StampedIs DEF Statuses
    <3>3. [Stamped(job[j].snap, "completed") EXCEPT !.decision =
             [c \in Candidate |-> IF c \in proposed THEN "pending" ELSE "none"]] \in Snapshot
      BY <3>2 DEF Snapshot, Decisions
    <3> QED BY <3>1, <3>3 DEF Types
  <2>3. job' \in [Job -> {Idle} \union Task]
    <3>1. [job[j] EXCEPT !.pc = "settle", !.snap = x] \in Task
      BY <2>1 DEF Task, Steps
    <3> QED BY <2>2, <3>1 DEF Types
  <2> QED BY <1>6, <2>3 DEF Types, Propose, Tick, store, history
<1>7. ASSUME NEW j \in Job, Fail(j) \/ AppendFails(j)
      PROVE Types'
  <2>1. job[j] \in Task /\ job[j].snap \in Snapshot
    BY <1>7, TaskIs DEF Fail, AppendFails, Steps
  <2> DEFINE x == Stamped(job[j].snap, "failed")
  <2>2. x \in Snapshot
    BY <2>1, StampedIs DEF Statuses
  <2> HIDE DEF x
  <2>3. job' = [job EXCEPT ![j] = [@ EXCEPT !.pc = "settle", !.snap = x]] \/ job' = [job EXCEPT ![j] = Idle]
    BY <1>7, <2>1 DEF Fail, AppendFails, x, Types
  <2>4. [job[j] EXCEPT !.pc = "settle", !.snap = x] \in Task
    BY <2>1, <2>2 DEF Task, Steps
  <2>5. job' \in [Job -> {Idle} \union Task]
    BY <2>3, <2>4 DEF Types
  <2> QED BY <1>7, <2>5 DEF Types, Fail, AppendFails, Tick, store, history
<1>8. ASSUME NEW j \in Job, Settle(j)
      PROVE Types'
  <2>1. job[j].snap \in Snapshot
    BY <1>8, TaskIs DEF Settle, Steps
  <2> QED BY <1>8, <2>1 DEF Types, Settle, history
<1>9. ASSUME NEW s \in Server, Start(s)
      PROVE Types'
  <2>1. Unfinished \subseteq Snapshot
    BY UnfinishedIs DEF Types
  <2>2. overlapped' \in BOOLEAN
    BY <1>9, Zenon DEF Types, Start
  <2> QED BY <1>9, <2>1, <2>2 DEF Types, Start, store
<1>10. ASSUME NEW s \in Server, Interrupt(s)
       PROVE Types'
  <2>1. PICK e \in todo[s] : /\ log' = log \union {Stamped(e, "failed")}
                             /\ todo' = [todo EXCEPT ![s] = @ \ {e}]
    BY <1>10 DEF Interrupt
  <2>2. Stamped(e, "failed") \in Snapshot
    BY StampedIs DEF Statuses, Types
  <2> QED BY <1>10, <2>1, <2>2 DEF Types, Interrupt, Tick, history
<1>11. ASSUME NEW s \in Server, Serve(s)
       PROVE Types'
  BY <1>11 DEF Types, Serve, store, history
<1>12. ASSUME NEW s \in Server, Kill(s)
       PROVE Types'
  BY <1>12 DEF Types, Kill, store, history
<1>13. ASSUME NEW o \in Operation, NEW c \in Candidate,
              NEW d \in {"accepted", "edited", "rejected"}, Review(o, c, d)
       PROVE Types'
  <2>1. Claimed(o)
    BY <1>13 DEF Review, Reviewable, Status
  <2>2. Current(o) \in Snapshot
    BY <2>1, CurrentIsLatest DEF Types
  <2>3. [Current(o) EXCEPT !.at = clock, !.decision[c] = d] \in Snapshot
    BY <2>2 DEF Snapshot, Decisions, Types
  <2>4. [lifecycle |-> "candidate", content |-> Content(d), evidence |-> {}] \in FactRow
    BY DEF FactRow, Content
  <2>5. facts' \in [Fact \union Proposed -> {NoFact} \union FactRow]
    BY <1>13, <2>4 DEF Review, Decide, Types, Proposed
  <2> QED BY <1>13, <2>3, <2>5 DEF Types, Review, Decide, Tick, history
<1>14. ASSUME NEW f \in Fact \union Proposed, NEW l \in {"pinned", "invalid"}, UpdateFact(f, l)
       PROVE Types'
  <2>1. facts[f] \in FactRow
    BY <1>14 DEF UpdateFact, IsFact, Types
  <2>2. [facts[f] EXCEPT !.lifecycle = l] \in FactRow
    BY <2>1 DEF FactRow
  <2> QED BY <1>14, <2>2 DEF Types, UpdateFact, history
<1> QED BY <1>1, <1>2, <1>3, <1>4, <1>5, <1>6, <1>7, <1>8, <1>9, <1>10, <1>11, <1>12,
           <1>13, <1>14 DEF Next, JobStep, ServerStep

LEMMA UnprovedStep ==
  ASSUME Sorted, [Next]_vars
  PROVE ProposedIsUnproved'
<1> USE DEF Sorted
<1>1. CASE UNCHANGED facts
  BY <1>1 DEF ProposedIsUnproved, IsFact
<1>2. ASSUME NEW o \in Operation, NEW c \in Candidate,
             NEW d \in {"accepted", "edited", "rejected"}, Review(o, c, d)
      PROVE ProposedIsUnproved'
  <2> SUFFICES ASSUME NEW f \in Proposed, IsFact(f)' PROVE facts'[f].evidence = {}
    BY DEF ProposedIsUnproved
  <2>1. CASE facts' = facts
    BY <2>1 DEF ProposedIsUnproved, IsFact
  <2>2. CASE facts' = [facts EXCEPT ![<<o, c>>] =
                        [lifecycle |-> "candidate", content |-> Content(d), evidence |-> {}]]
    BY <2>2 DEF ProposedIsUnproved, IsFact, Types
  <2> QED BY <1>2, <2>1, <2>2 DEF Review, Decide
<1>3. ASSUME NEW f \in Fact \union Proposed, NEW l \in {"pinned", "invalid"}, UpdateFact(f, l)
      PROVE ProposedIsUnproved'
  <2> SUFFICES ASSUME NEW g \in Proposed, IsFact(g)' PROVE facts'[g].evidence = {}
    BY DEF ProposedIsUnproved
  <2>1. facts[f] \in FactRow
    BY <1>3 DEF UpdateFact, IsFact, Types
  <2>2. CASE g = f
    BY <1>3, <2>1, <2>2 DEF ProposedIsUnproved, UpdateFact, Types, FactRow
  <2>3. CASE g # f
    BY <1>3, <2>3 DEF ProposedIsUnproved, UpdateFact, Types, IsFact
  <2> QED BY <2>2, <2>3
<1> QED BY <1>1, <1>2, <1>3 DEF Next, vars, store, JobStep, ServerStep, Ask, Claim, CreateThread,
           Record, Propose, Fail, AppendFails, Settle, Start, Interrupt, Serve, Kill

LEMMA AppendHasLatest ==
  ASSUME Types, Times, NEW x \in Snapshot, log' = log \union {x}
  PROVE \A o \in Operation : Claimed(o)' => HasLatest(o)'
<1> SUFFICES ASSUME NEW o \in Operation, Claimed(o)' PROVE HasLatest(o)'
  OBVIOUS
<1>1. Snapshots(o)' = Snapshots(o) \union {e \in {x} : e.op = o}
  BY DEF Snapshots
<1>2. \A e \in Snapshots(o) : e.at \in Nat
  BY DEF Snapshots, Types, Snapshot
<1>3. x.at \in Nat
  BY DEF Snapshot
<1>4. CASE ~Claimed(o)
  BY <1>1, <1>3, <1>4 DEF Claimed, HasLatest
<1>5. CASE Claimed(o)
  <2>1. PICK e \in Snapshots(o) : \A d \in Snapshots(o) : d.at <= e.at
    BY <1>5 DEF Times, HasLatest
  <2>2. CASE x.op = o /\ x.at > e.at
    <3>1. \A d \in Snapshots(o)' : d.at <= x.at
      BY <1>1, <1>2, <1>3, <2>1, <2>2
    <3> QED BY <1>1, <2>2, <3>1 DEF HasLatest
  <2>3. CASE ~(x.op = o /\ x.at > e.at)
    <3>1. \A d \in Snapshots(o)' : d.at <= e.at
      BY <1>1, <1>2, <1>3, <2>1, <2>3
    <3> QED BY <1>1, <2>1, <3>1 DEF HasLatest
  <2> QED BY <2>2, <2>3
<1> QED BY <1>4, <1>5

(* Times when the log is as it was: a task takes a time, at most. *)
LEMMA TimesOfTask ==
  ASSUME Sorted, Types', UNCHANGED log, clock' \in {clock, clock + 1},
         \A j \in Job : job'[j] # Idle =>
           \/ job'[j] = job[j]
           \/ job'[j].snap.at = clock /\ clock' = clock + 1,
         \A i, j \in Job : job'[i] # job[i] /\ job'[j] # job[j]
                           /\ job'[i] # Idle /\ job'[j] # Idle => i = j
  PROVE Times'
<1> USE DEF Sorted
<1>0. clock \in Nat /\ \A j \in Job : Holding(j)' => job'[j] # Idle
  BY DEF Types, Holding, Idle
<1>1. \A e \in log : e.at \in Nat /\ e.at < clock
  BY DEF Types, Times, Snapshot
<1>2. \A j \in Job : job[j] # Idle => job[j].snap.at \in Nat /\ job[j].snap.at < clock
  BY DEF Types, Times, Task, Snapshot
<1>3. \A e \in log' : e.at < clock'
  BY <1>0, <1>1
<1>4. \A j \in Job : job'[j] # Idle => job'[j].snap.at < clock'
  BY <1>0, <1>2
<1>5. \A e, d \in log' : e.at = d.at => e = d
  BY DEF Times
<1>6. ASSUME NEW j \in Job, Holding(j)', NEW e \in log' PROVE e.at # job'[j].snap.at
  <2>1. CASE job'[j] = job[j]
    BY <1>6, <2>1 DEF Times, Holding
  <2>2. CASE job'[j].snap.at = clock
    BY <1>1, <2>2, <1>0
  <2> QED BY <1>0, <1>6, <2>1, <2>2
<1>7. ASSUME NEW i \in Job, NEW j \in Job, Holding(i)', Holding(j)', job'[i].snap.at = job'[j].snap.at
      PROVE i = j
  <2>1. CASE job'[i] = job[i] /\ job'[j] = job[j]
    BY <1>7, <2>1 DEF Times, Holding
  <2>2. CASE job'[i] = job[i] /\ job'[j] # job[j]
    BY <1>0, <1>2, <1>7, <2>2
  <2>3. CASE job'[i] # job[i] /\ job'[j] = job[j]
    BY <1>0, <1>2, <1>7, <2>3
  <2>4. CASE job'[i] # job[i] /\ job'[j] # job[j]
    BY <1>0, <1>7, <2>4
  <2> QED BY <2>1, <2>2, <2>3, <2>4
<1>8. \A o \in Operation : Claimed(o)' => HasLatest(o)'
  BY DEF Times, Claimed, HasLatest, Snapshots
<1> QED BY <1>3, <1>4, <1>5, <1>6, <1>7, <1>8 DEF Times

(* Times when a task appends what it holds. *)
LEMMA TimesOfAppend ==
  ASSUME Sorted, UNCHANGED clock, NEW j \in Job, Holding(j), job[j] # Idle,
         log' = log \union {job[j].snap},
         \A i \in Job \ {j} : job'[i] = job[i],
         ~Holding(j)', job'[j] = Idle \/ job'[j].snap = job[j].snap
  PROVE Times'
<1> USE DEF Sorted
<1> DEFINE x == job[j].snap
<1>0. x \in Snapshot /\ clock \in Nat
  BY DEF Types, Task
<1>1. \A e \in log' : e.at < clock'
  BY DEF Times
<1>2. \A i \in Job : job'[i] # Idle => job'[i].snap.at < clock'
  BY DEF Times
<1>3. \A e, d \in log' : e.at = d.at => e = d
  BY DEF Times
<1>4. \A i \in Job : Holding(i)' => i # j /\ Holding(i) /\ job'[i] = job[i]
  BY DEF Holding
<1>5. \A i \in Job : Holding(i)' => \A e \in log' : e.at # job'[i].snap.at
  BY <1>4 DEF Times
<1>6. \A i, k \in Job : Holding(i)' /\ Holding(k)' /\ job'[i].snap.at = job'[k].snap.at => i = k
  BY <1>4 DEF Times
<1>7. \A o \in Operation : Claimed(o)' => HasLatest(o)'
  BY <1>0, AppendHasLatest
<1> QED BY <1>1, <1>2, <1>3, <1>5, <1>6, <1>7 DEF Times

(* Times when somebody else appends a snapshot with a time of its own. *)
LEMMA TimesOfTick ==
  ASSUME Sorted, NEW x \in Snapshot, x.at = clock, log' = log \union {x},
         UNCHANGED job, clock' = clock + 1
  PROVE Times'
<1> USE DEF Sorted
<1>0. clock \in Nat
  BY DEF Types
<1>1. \A e \in log : e.at \in Nat /\ e.at < clock
  BY DEF Types, Times, Snapshot
<1>2. \A i \in Job : job[i] # Idle => job[i].snap.at \in Nat /\ job[i].snap.at < clock
  BY DEF Types, Times, Task, Snapshot
<1>3. \A e \in log' : e.at < clock'
  BY <1>0, <1>1
<1>4. \A i \in Job : job'[i] # Idle => job'[i].snap.at < clock'
  BY <1>0, <1>2
<1>5. \A e, d \in log' : e.at = d.at => e = d
  BY <1>0, <1>1 DEF Times
<1>6. \A i \in Job : Holding(i)' => Holding(i) /\ job[i] # Idle
  BY DEF Holding, Idle
<1>7. \A i \in Job : Holding(i)' => \A e \in log' : e.at # job'[i].snap.at
  BY <1>0, <1>2, <1>6 DEF Times
<1>8. \A i, k \in Job : Holding(i)' /\ Holding(k)' /\ job'[i].snap.at = job'[k].snap.at => i = k
  BY <1>6 DEF Times
<1>9. \A o \in Operation : Claimed(o)' => HasLatest(o)'
  BY AppendHasLatest
<1> QED BY <1>3, <1>4, <1>5, <1>7, <1>8, <1>9 DEF Times

LEMMA TimesStep ==
  ASSUME Sorted, Types', [Next]_vars
  PROVE Times'
<1> USE DEF Sorted
<1>0. clock \in Nat
  BY DEF Types
<1>1. CASE UNCHANGED vars
  BY <1>1, TimesOfTask DEF vars, store
<1>2. ASSUME NEW j \in Job, NEW s \in Server, Ask(j, s)
      PROVE Times'
  <2>1. job'[j].snap.at = clock /\ \A i \in Job \ {j} : job'[i] = job[i]
    BY <1>2 DEF Ask, Types
  <2> QED BY <1>2, <2>1, TimesOfTask DEF Ask, Tick, store
<1>3. ASSUME NEW j \in Job, Claim(j) \/ Record(j) \/ Settle(j)
      PROVE Times'
  <2>1. job[j] # Idle /\ Holding(j)
    BY <1>3, TaskIs DEF Claim, Record, Settle, Holding, Steps
  <2>2. \A i \in Job \ {j} : job'[i] = job[i]
    BY <1>3 DEF Claim, Record, Settle, Types
  <2>3. job'[j] = Idle \/ (job'[j].snap = job[j].snap /\ job'[j].pc \in {"run", "turn"})
    BY <1>3, TaskIs DEF Claim, Record, Settle, Types, Task, Steps
  <2>4. ~Holding(j)'
    BY <2>3 DEF Holding, Idle
  <2>5. CASE UNCHANGED log
    <3>1. job'[j] = Idle
      BY <1>3, <2>1, <2>5 DEF Claim, Record, Settle, Types, Times, Holding
    <3> QED BY <1>3, <2>2, <2>5, <3>1, TimesOfTask DEF Claim, Record, Settle
  <2>6. CASE log' = log \union {job[j].snap}
    BY <1>3, <2>1, <2>2, <2>3, <2>4, <2>6, TimesOfAppend DEF Claim, Record, Settle
  <2> QED BY <1>3, <2>5, <2>6 DEF Claim, Record, Settle
<1>4. ASSUME NEW j \in Job, CreateThread(j) \/ Propose(j) \/ Fail(j) \/ AppendFails(j)
      PROVE Times'
  <2>1. job[j] \in Task /\ job[j].snap \in Snapshot
    BY <1>4, TaskIs DEF CreateThread, Propose, Fail, AppendFails, Steps
  <2>2. \A i \in Job \ {j} : job'[i] = job[i]
    BY <1>4 DEF CreateThread, Propose, Fail, AppendFails, Types
  <2>3. \A st \in Statuses : Stamped(job[j].snap, st).at = clock
    BY <2>1, StampedIs
  <2>4. job'[j] = Idle \/ job'[j].snap.at = clock
    <3>1. CASE CreateThread(j)
      BY <2>1, <2>3, <3>1 DEF CreateThread, Types, Task, Statuses
    <3>2. CASE Propose(j)
      <4>1. PICK proposed \in SUBSET Candidate :
              job' = [job EXCEPT ![j].pc = "settle",
                        ![j].snap = [Stamped(@, "completed") EXCEPT !.decision =
                          [c \in Candidate |-> IF c \in proposed THEN "pending" ELSE "none"]]]
        BY <3>2 DEF Propose
      <4> DEFINE y == Stamped(job[j].snap, "completed")
      <4>2. y.at = clock /\ y \in Snapshot
        BY <2>1, <2>3, StampedIs DEF Statuses
      <4> HIDE DEF y
      <4>3. job'[j].snap = [y EXCEPT !.decision =
                             [c \in Candidate |-> IF c \in proposed THEN "pending" ELSE "none"]]
        BY <2>1, <4>1 DEF Types, Task, y
      <4> QED BY <4>2, <4>3 DEF Snapshot
    <3>3. CASE Fail(j) \/ AppendFails(j)
      BY <2>1, <2>3, <3>3 DEF Fail, AppendFails, Types, Task, Statuses
    <3> QED BY <1>4, <3>1, <3>2, <3>3
  <2>5. UNCHANGED log /\ clock' = clock + 1
    BY <1>4 DEF CreateThread, Propose, Fail, AppendFails, Tick, store
  <2> QED BY <2>2, <2>4, <2>5, TimesOfTask
<1>5. ASSUME NEW s \in Server, Start(s) \/ Serve(s) \/ Kill(s)
      PROVE Times'
  <2>1. UNCHANGED <<log, clock>> /\ \A j \in Job : job'[j] \in {job[j], Idle}
    BY <1>5 DEF Start, Serve, Kill, store
  <2> QED BY <2>1, TimesOfTask
<1>6. ASSUME NEW s \in Server, Interrupt(s)
      PROVE Times'
  <2>1. PICK e \in todo[s] : log' = log \union {Stamped(e, "failed")}
    BY <1>6 DEF Interrupt
  <2>2. Stamped(e, "failed") \in Snapshot /\ Stamped(e, "failed").at = clock
    BY StampedIs DEF Statuses, Types
  <2> QED BY <1>6, <2>1, <2>2, TimesOfTick DEF Interrupt, Tick
<1>7. ASSUME NEW o \in Operation, NEW c \in Candidate,
             NEW d \in {"accepted", "edited", "rejected"}, Review(o, c, d)
      PROVE Times'
  <2> DEFINE x == [Current(o) EXCEPT !.at = clock, !.decision[c] = d]
  <2>1. Current(o) \in Snapshot
    BY <1>7, CurrentIsLatest DEF Review, Reviewable, Status, Types
  <2>2. x \in Snapshot /\ x.at = clock
    BY <1>0, <2>1 DEF Snapshot, Decisions
  <2>3. log' = log \union {x}
    BY <1>7 DEF Review, Decide
  <2> QED BY <1>7, <2>2, <2>3, TimesOfTick DEF Review, Decide, Tick
<1>8. ASSUME NEW f \in Fact \union Proposed, NEW l \in {"pinned", "invalid"}, UpdateFact(f, l)
      PROVE Times'
  BY <1>8, TimesOfTask DEF UpdateFact
<1> QED BY <1>1, <1>2, <1>3, <1>4, <1>5, <1>6, <1>7, <1>8 DEF Next, JobStep, ServerStep
-------------------------------------------------------------------------------
(* One thread per operation.                                               *)

(* What an append changes: its own operation only. *)
LEMMA Appended ==
  ASSUME Types', Times', NEW x \in Snapshot, log' = log \union {x}
  PROVE /\ Claimed(x.op)'
        /\ \A o \in Operation : Claimed(o) => Claimed(o)'
        /\ \A o \in Operation \ {x.op} : Snapshots(o)' = Snapshots(o)
        /\ \A o \in Operation \ {x.op} : Status(o)' = Status(o)
        /\ (\A e \in log : e.op = x.op => e.at <= x.at) =>
             Current(x.op)' = x /\ Status(x.op)' = x.status
<1>1. Claimed(x.op)' /\ \A o \in Operation : Claimed(o) => Claimed(o)'
  BY DEF Claimed, Snapshots
<1>2. \A o \in Operation \ {x.op} : Snapshots(o)' = Snapshots(o)
  BY DEF Snapshots
<1>3. \A o \in Operation \ {x.op} : Status(o)' = Status(o)
  <2> SUFFICES ASSUME NEW o \in Operation \ {x.op} PROVE Status(o)' = Status(o)
    OBVIOUS
  <2>1. Snapshots(o)' = Snapshots(o)
    BY <1>2
  <2>2. Current(o)' = Current(o) /\ (Claimed(o)' <=> Claimed(o))
    BY <2>1 DEF Current, Claimed
  <2> QED BY <2>2 DEF Status
<1>4. ASSUME \A e \in log : e.op = x.op => e.at <= x.at
      PROVE Current(x.op)' = x
  <2>1. x.at \in Nat /\ x \in Snapshots(x.op)' /\ \A d \in Snapshots(x.op)' : d.at <= x.at
    BY <1>4 DEF Snapshots, Snapshot
  <2>2. Current(x.op)' \in Snapshots(x.op)' /\ \A d \in Snapshots(x.op)' : d.at <= Current(x.op)'.at
    BY <2>1 DEF Current
  <2>3. Current(x.op)' \in log' /\ Current(x.op)'.op = x.op /\ Current(x.op)'.at \in Nat
    BY <2>2 DEF Snapshots, Types, Snapshot
  <2>4. Current(x.op)'.at = x.at
    BY <2>1, <2>2, <2>3
  <2> QED BY <2>3, <2>4 DEF Times
<1>5. ASSUME \A e \in log : e.op = x.op => e.at <= x.at
      PROVE Status(x.op)' = x.status
  BY <1>1, <1>4, <1>5 DEF Status
<1> QED BY <1>1, <1>2, <1>3, <1>4, <1>5

(* Claims, when no thread is started and the only task that changes drops  *)
(* out or goes on with the same operation.                                 *)
LEMMA ClaimsOfTask ==
  ASSUME Claims, Types, Types', UNCHANGED threads, log \subseteq log',
         \A j \in Job : \/ job'[j] = job[j] \/ ~Working(j)'
                        \/ (Working(j) /\ job'[j].snap.op = job[j].snap.op /\ job'[j].pc # "run")
  PROVE Claims'
<1>1. \A o \in Operation : Claimed(o) => Claimed(o)'
  BY DEF Claimed, Snapshots
<1>2. \A j \in Job : Working(j)' =>
        /\ Working(j) /\ job'[j].snap.op = job[j].snap.op /\ job[j].snap.op \in Operation
        /\ job'[j].pc = "run" => job[j].pc = "run"
  BY TaskIs DEF Working, Snapshot
<1>3. \A j \in Job : job'[j].pc = "run" => Working(j)'
  BY DEF Working, Steps
<1>4. \A j \in Job : Working(j)' => Claimed(job[j].snap.op)'
  BY <1>1, <1>2 DEF Claims
<1>5. \A i, j \in Job : Working(i)' /\ Working(j)' /\ job'[i].snap.op = job'[j].snap.op => i = j
  BY <1>2 DEF Claims
<1>6. \A j \in Job : job'[j].pc = "run" => threads'[job'[j].snap.op] = 0
  BY <1>2, <1>3 DEF Claims
<1>7. \A o \in Operation : threads'[o] = 0 \/ Claimed(o)'
  BY <1>1 DEF Claims
<1>8. OneThreadPerOperation'
  BY DEF Claims, OneThreadPerOperation
<1> QED BY <1>4, <1>5, <1>6, <1>7, <1>8 DEF Claims

LEMMA ClaimsStep ==
  ASSUME Sorted, Claims, Types', [Next]_vars
  PROVE Claims'
<1> USE DEF Sorted
<1>1. CASE UNCHANGED vars
  BY <1>1, ClaimsOfTask DEF vars, store, history
<1>2. ASSUME NEW j \in Job, NEW s \in Server, Ask(j, s)
      PROVE Claims'
  <2>1. ~Working(j)' /\ \A i \in Job \ {j} : job'[i] = job[i]
    BY <1>2 DEF Ask, Types, Working, Steps
  <2> QED BY <1>2, <2>1, ClaimsOfTask DEF Ask, store, history
<1>3. ASSUME NEW j \in Job, Claim(j)
      PROVE Claims'
  <2>1. \A i \in Job \ {j} : job'[i] = job[i]
    BY <1>3 DEF Claim, Types
  <2>2. CASE Claimed(job[j].snap.op)
    <3>1. ~Working(j)'
      BY <1>3, <2>2 DEF Claim, Types, Working, Steps, Idle
    <3> QED BY <1>3, <2>1, <2>2, <3>1, ClaimsOfTask DEF Claim, history
  <2>3. CASE ~Claimed(job[j].snap.op)
    <3>0. job[j].snap \in Snapshot /\ job[j].snap.op \in Operation
      BY <1>3, TaskIs DEF Claim, Steps, Snapshot
    <3>00. PICK p \in Operation : p = job[j].snap.op
      BY <3>0
    <3>1. job[j] \in Task /\ job[j].snap \in Snapshot /\ job[j].snap.op = p
      BY <1>3, <3>00, TaskIs DEF Claim, Steps
    <3>2. job'[j].snap.op = p /\ job'[j].pc = "run"
      BY <1>3, <2>3, <3>1 DEF Claim, Types, Task
    <3>3. \A o \in Operation : Claimed(o) => Claimed(o)'
      BY <1>3 DEF Claim, Claimed, Snapshots
    <3>4. Claimed(p)'
      BY <1>3, <2>3, <3>1 DEF Claim, Claimed, Snapshots
    <3>5. \A i \in Job \ {j} : Working(i)' => Working(i) /\ job'[i] = job[i] /\ job[i].snap.op \in Operation
      BY <2>1, TaskIs DEF Working, Snapshot
    <3>6. \A i \in Job : Working(i)' => Claimed(job[i].snap.op)'
      BY <3>2, <3>3, <3>4, <3>5 DEF Claims
    <3>7. \A i \in Job \ {j} : Working(i)' => job'[i].snap.op # p
      BY <2>3, <3>1, <3>5 DEF Claims
    <3>8. \A i, k \in Job : Working(i)' /\ Working(k)' /\ job'[i].snap.op = job'[k].snap.op => i = k
      BY <3>2, <3>5, <3>7 DEF Claims
    <3>9. threads' = threads /\ threads[p] = 0
      BY <1>3, <2>3, <3>1 DEF Claim, history, Claims
    <3>10. \A i \in Job : job'[i].pc = "run" => threads'[job'[i].snap.op] = 0
      BY <2>1, <3>2, <3>9 DEF Claims
    <3>11. \A o \in Operation : threads'[o] = 0 \/ Claimed(o)'
      BY <3>3, <3>9 DEF Claims
    <3>12. OneThreadPerOperation'
      BY <3>9 DEF Claims, OneThreadPerOperation
    <3> QED BY <3>6, <3>8, <3>10, <3>11, <3>12 DEF Claims
  <2> QED BY <2>2, <2>3
<1>4. ASSUME NEW j \in Job, CreateThread(j)
      PROVE Claims'
  <2>0. job[j] \in Task /\ job[j].snap \in Snapshot /\ job[j].snap.op \in Operation
    BY <1>4, TaskIs DEF CreateThread, Steps, Snapshot
  <2>00. PICK p \in Operation : p = job[j].snap.op
    BY <2>0
  <2>1. job[j] \in Task /\ job[j].snap \in Snapshot /\ job[j].snap.op = p
    BY <2>0, <2>00
  <2>2. \A i \in Job \ {j} : job'[i] = job[i]
    BY <1>4 DEF CreateThread, Types
  <2>3. job'[j].pc = "record" /\ job'[j].snap.op = p
    BY <1>4, <2>1, StampedIs DEF CreateThread, Types, Task, Statuses
  <2>4. Working(j) /\ \A i \in Job : Working(i)' => Working(i) /\ job'[i].snap.op = job[i].snap.op
    BY <1>4, <2>1, <2>2, <2>3 DEF CreateThread, Working, Steps
  <2>5. threads[p] = 0 /\ threads'[p] = 1 /\ \A o \in Operation \ {p} : threads'[o] = threads[o]
    BY <1>4, <2>1 DEF CreateThread, Claims, Types
  <2>6. \A o \in Operation : Claimed(o)' <=> Claimed(o)
    BY <1>4 DEF CreateThread, store, Claimed, Snapshots
  <2>7. \A i \in Job : Working(i)' => job[i].snap.op \in Operation
    BY <2>4, TaskIs DEF Working, Snapshot
  <2>8. \A i \in Job : Working(i)' => Claimed(job[i].snap.op)'
    BY <2>4, <2>6, <2>7 DEF Claims
  <2>9. \A i, k \in Job : Working(i)' /\ Working(k)' /\ job'[i].snap.op = job'[k].snap.op => i = k
    BY <2>4 DEF Claims
  <2>10. \A i \in Job : job'[i].pc = "run" => threads'[job'[i].snap.op] = 0
    <3> SUFFICES ASSUME NEW i \in Job, job'[i].pc = "run" PROVE threads'[job'[i].snap.op] = 0
      OBVIOUS
    <3>1. i # j /\ job'[i] = job[i] /\ Working(i)'
      BY <2>2, <2>3 DEF Working, Steps
    <3>2. job[i].snap.op # p
      BY <2>1, <2>4, <3>1 DEF Claims
    <3> QED BY <2>5, <2>7, <3>1, <3>2 DEF Claims
  <2>11. \A o \in Operation : threads'[o] = 0 \/ Claimed(o)'
    BY <2>1, <2>4, <2>5, <2>6 DEF Claims
  <2>12. OneThreadPerOperation'
    BY <2>1, <2>5 DEF Claims, OneThreadPerOperation
  <2> QED BY <2>8, <2>9, <2>10, <2>11, <2>12 DEF Claims
<1>5. ASSUME NEW j \in Job, Record(j) \/ Propose(j) \/ Fail(j) \/ AppendFails(j) \/ Settle(j)
      PROVE Claims'
  <2>1. \A i \in Job \ {j} : job'[i] = job[i]
    BY <1>5 DEF Record, Propose, Fail, AppendFails, Settle, Types
  <2>2. job[j] \in Task /\ job[j].snap \in Snapshot /\ Working(j)
    BY <1>5, TaskIs DEF Record, Propose, Fail, AppendFails, Settle, Steps, Working
  <2>3. \A st \in Statuses : /\ Stamped(job[j].snap, st) \in Snapshot
                             /\ Stamped(job[j].snap, st).op = job[j].snap.op
    BY <2>2, StampedIs
  <2>4. ~Working(j)' \/ (job'[j].snap.op = job[j].snap.op /\ job'[j].pc # "run")
    <3>1. CASE Record(j) \/ Settle(j)
      BY <2>2, <3>1 DEF Record, Settle, Types, Task, Working, Idle, Steps
    <3>2. CASE Propose(j)
      <4>1. PICK proposed \in SUBSET Candidate :
              job' = [job EXCEPT ![j].pc = "settle",
                        ![j].snap = [Stamped(@, "completed") EXCEPT !.decision =
                          [c \in Candidate |-> IF c \in proposed THEN "pending" ELSE "none"]]]
        BY <3>2 DEF Propose
      <4> DEFINE y == Stamped(job[j].snap, "completed")
      <4>2. y.op = job[j].snap.op /\ y \in Snapshot
        BY <2>3 DEF Statuses
      <4> HIDE DEF y
      <4>3. /\ job'[j].pc = "settle"
            /\ job'[j].snap = [y EXCEPT !.decision =
                                 [c \in Candidate |-> IF c \in proposed THEN "pending" ELSE "none"]]
        BY <2>2, <4>1 DEF Types, Task, y
      <4> QED BY <4>2, <4>3 DEF Snapshot
    <3>3. CASE Fail(j) \/ AppendFails(j)
      BY <2>2, <2>3, <3>3 DEF Fail, AppendFails, Types, Task, Statuses, Working, Idle, Steps
    <3> QED BY <1>5, <3>1, <3>2, <3>3
  <2>5. UNCHANGED threads /\ log \subseteq log'
    BY <1>5 DEF Record, Propose, Fail, AppendFails, Settle, store, history
  <2> QED BY <2>1, <2>2, <2>4, <2>5, ClaimsOfTask
<1>6. ASSUME NEW s \in Server, Start(s) \/ Interrupt(s) \/ Serve(s) \/ Kill(s)
      PROVE Claims'
  <2>1. UNCHANGED threads /\ log \subseteq log' /\ \A i \in Job : job'[i] \in {job[i], Idle}
    BY <1>6 DEF Start, Interrupt, Serve, Kill, store, history
  <2>2. \A i \in Job : job'[i] = Idle => ~Working(i)'
    BY DEF Idle, Working, Steps
  <2> QED BY <2>1, <2>2, ClaimsOfTask
<1>7. ASSUME NEW o \in Operation, NEW c \in Candidate,
             NEW d \in {"accepted", "edited", "rejected"}, Review(o, c, d)
      PROVE Claims'
  BY <1>7, ClaimsOfTask DEF Review, Decide, history
<1>8. ASSUME NEW f \in Fact \union Proposed, NEW l \in {"pinned", "invalid"}, UpdateFact(f, l)
      PROVE Claims'
  BY <1>8, ClaimsOfTask DEF UpdateFact, history
<1> QED BY <1>1, <1>2, <1>3, <1>4, <1>5, <1>6, <1>7, <1>8 DEF Next, JobStep, ServerStep
-------------------------------------------------------------------------------
(* Verdicts.                                                               *)

(* Nobody decides: a task goes on, or whatever undecided is appended. *)
LEMMA VerdictsOfTask ==
  ASSUME Sorted, Verdicts, NEW X \in SUBSET Snapshot, log' = log \union X, UNCHANGED facts,
         \A x \in X : /\ Undecided(x)
                      /\ x.status = "completed" =>
                           Unfinal(x.op) /\ \A j \in Job : Working(j)' => job'[j].snap.op # x.op,
         \A x, y \in X : x = y,
         \A j \in Job : job'[j].pc \in Steps => Stage(j)' /\ Undecided(job'[j].snap),
         \A j \in Job : Working(j)' => Unfinal(job'[j].snap.op),
         \A s \in Server : \A e \in todo'[s] : Undecided(e)
  PROVE Verdicts'
<1>1. \A j \in Job : job'[j].pc \in Steps => Stage(j)' /\ Undecided(job[j].snap)'
  BY DEF Undecided
<1>2. \A s \in Server : \A e \in todo'[s] : Undecided(e)'
  BY DEF Undecided
<1>3. \A e \in log' : e.status # "completed" => Undecided(e)'
  BY DEF Verdicts, Undecided
<1>4. \A j \in Job : Working(j)' => Unfinal(job[j].snap.op)'
  BY DEF Unfinal
<1>5. \A e, d \in log' :
        e.op = d.op /\ e.status = "completed" /\ d.status = "completed" /\ e.at <= d.at
          => \A c \in Candidate : e.decision[c] \in Verdict => d.decision[c] = e.decision[c]
  BY DEF Verdicts, Undecided, Unfinal
<1>6. ASSUME NEW o \in Operation, NEW c \in Candidate
      PROVE IsFact(<<o, c>>)' <=>
              \E e \in log' : e.op = o /\ e.decision[c] \in {"accepted", "edited"}
  BY DEF Verdicts, Undecided, Verdict, IsFact
<1> QED BY <1>1, <1>2, <1>3, <1>4, <1>5, <1>6 DEF Verdicts

(* What a task that goes on holds then. *)
LEMMA TaskGoesOn ==
  ASSUME Sorted, Verdicts, Types', NEW j \in Job,
         CreateThread(j) \/ Record(j) \/ Propose(j) \/ Fail(j) \/ AppendFails(j) \/ Settle(j)
  PROVE /\ Working(j) /\ \A i \in Job \ {j} : job'[i] = job[i]
        /\ job[j] \in Task /\ job[j].snap \in Snapshot
        /\ job'[j].pc \in Steps =>
             /\ Working(j)' /\ Stage(j)' /\ Undecided(job'[j].snap)
             /\ job'[j].snap.op = job[j].snap.op /\ job'[j].server = job[j].server
             /\ Holding(j)' => job'[j].snap.at = clock
<1> USE DEF Sorted
<1>1. \A i \in Job \ {j} : job'[i] = job[i]
  BY DEF CreateThread, Record, Propose, Fail, AppendFails, Settle, Types
<1>2. job[j] \in Task /\ job[j].snap \in Snapshot /\ Working(j)
  BY TaskIs DEF CreateThread, Record, Propose, Fail, AppendFails, Settle, Steps, Working
<1>3. Undecided(job[j].snap) /\ Stage(j)
  BY <1>2 DEF Verdicts, Working
<1>4. \A st \in Statuses :
        /\ Stamped(job[j].snap, st) \in Snapshot /\ Undecided(Stamped(job[j].snap, st))
        /\ Stamped(job[j].snap, st).op = job[j].snap.op
        /\ Stamped(job[j].snap, st).at = clock /\ Stamped(job[j].snap, st).status = st
  BY <1>2, <1>3, StampedIs DEF Undecided
<1> DEFINE Goal ==
      /\ Working(j)' /\ Stage(j)' /\ Undecided(job'[j].snap)
      /\ job'[j].snap.op = job[j].snap.op /\ job'[j].server = job[j].server
      /\ Holding(j)' => job'[j].snap.at = clock
<1>5. CASE CreateThread(j)
  <2> DEFINE x == Stamped(job[j].snap, "thread_created")
  <2>1. /\ x \in Snapshot /\ Undecided(x) /\ x.op = job[j].snap.op
        /\ x.at = clock /\ x.status = "thread_created"
    BY <1>4 DEF Statuses
  <2> HIDE DEF x
  <2>2. job' = [job EXCEPT ![j].pc = "record", ![j].snap = x]
    BY <1>5 DEF CreateThread, x
  <2>3. job'[j].pc = "record" /\ job'[j].snap = x /\ job'[j].server = job[j].server
    BY <1>2, <2>2 DEF Types, Task
  <2> QED BY <1>1, <1>2, <2>1, <2>3 DEF Working, Steps, Stage
<1>6. CASE Record(j)
  <2>1. job' = [job EXCEPT ![j].pc = "turn"]
    BY <1>6 DEF Record
  <2>2. job'[j].pc = "turn" /\ job'[j].snap = job[j].snap /\ job'[j].server = job[j].server
    BY <1>2, <2>1 DEF Types, Task
  <2>3. job[j].snap.status = "thread_created"
    BY <1>3, <1>6 DEF Record, Stage
  <2> QED BY <1>1, <1>2, <1>3, <2>2, <2>3 DEF Working, Steps, Stage, Holding
<1>7. CASE Propose(j)
  <2>1. PICK proposed \in SUBSET Candidate :
          job' = [job EXCEPT ![j].pc = "settle",
                    ![j].snap = [Stamped(@, "completed") EXCEPT !.decision =
                      [c \in Candidate |-> IF c \in proposed THEN "pending" ELSE "none"]]]
    BY <1>7 DEF Propose
  <2> DEFINE y == Stamped(job[j].snap, "completed")
             z == [y EXCEPT !.decision =
                     [c \in Candidate |-> IF c \in proposed THEN "pending" ELSE "none"]]
  <2>2. y \in Snapshot /\ y.op = job[j].snap.op /\ y.at = clock /\ y.status = "completed"
    BY <1>4 DEF Statuses
  <2>3. job'[j].pc = "settle" /\ job'[j].snap = z /\ job'[j].server = job[j].server
    BY <1>2, <2>1 DEF Types, Task
  <2> HIDE DEF y
  <2>4. z.op = job[j].snap.op /\ z.at = clock /\ z.status = "completed" /\ Undecided(z)
    BY <2>2 DEF Snapshot, Undecided, Verdict
  <2> HIDE DEF z
  <2> QED BY <1>1, <1>2, <2>3, <2>4 DEF Working, Steps, Stage
<1>8. CASE Fail(j) \/ AppendFails(j)
  <2> DEFINE x == Stamped(job[j].snap, "failed")
  <2>1. /\ x \in Snapshot /\ Undecided(x) /\ x.op = job[j].snap.op
        /\ x.at = clock /\ x.status = "failed"
    BY <1>4 DEF Statuses
  <2> HIDE DEF x
  <2>2. job' = [job EXCEPT ![j].pc = "settle", ![j].snap = x] \/ job' = [job EXCEPT ![j] = Idle]
    BY <1>8 DEF Fail, AppendFails, x
  <2>3. CASE job' = [job EXCEPT ![j] = Idle]
    BY <1>1, <1>2, <2>3 DEF Idle, Steps, Types
  <2>4. CASE job' = [job EXCEPT ![j].pc = "settle", ![j].snap = x]
    <3>1. job'[j].pc = "settle" /\ job'[j].snap = x /\ job'[j].server = job[j].server
      BY <1>2, <2>4 DEF Types, Task
    <3>2. Goal
      BY <2>1, <3>1 DEF Working, Steps, Stage
    <3> QED BY <1>1, <1>2, <3>2
  <2> QED BY <2>2, <2>3, <2>4
<1>9. CASE Settle(j)
  <2>1. job'[j] = Idle
    BY <1>9 DEF Settle, Types
  <2> QED BY <1>1, <1>2, <2>1 DEF Idle, Steps
<1> QED BY <1>1, <1>2, <1>5, <1>6, <1>7, <1>8, <1>9

LEMMA VerdictsStep ==
  ASSUME Sorted, Claims, Verdicts, Types', [Next]_vars
  PROVE Verdicts'
<1> USE DEF Sorted
<1>0. /\ \A j \in Job : Working(j) => job[j].pc \in Steps
      /\ \A j \in Job : job[j].pc \in Steps => Stage(j) /\ Undecided(job[j].snap)
      /\ \A j \in Job : Working(j) => Unfinal(job[j].snap.op)
      /\ \A s \in Server : \A e \in todo[s] : Undecided(e)
  BY DEF Working, Verdicts
<1>1. ASSUME UNCHANGED <<log, facts>>,
             \A j \in Job : \/ job'[j] = job[j]
                            \/ ~(job'[j].pc \in Steps)
                            \/ /\ Stage(j)' /\ Undecided(job'[j].snap)
                               /\ Working(j)' => Working(j) /\ job'[j].snap.op = job[j].snap.op,
             \A s \in Server : \A e \in todo'[s] : Undecided(e)
      PROVE Verdicts'
  <2>1. \A j \in Job : job'[j].pc \in Steps => Stage(j)' /\ Undecided(job'[j].snap)
    BY <1>0, <1>1 DEF Stage
  <2>2. \A j \in Job : Working(j)' => Unfinal(job'[j].snap.op)
    BY <1>0, <1>1 DEF Working
  <2>3. log' = log \union {} /\ {} \in SUBSET Snapshot
    BY <1>1
  <2> QED BY <1>1, <2>1, <2>2, <2>3, VerdictsOfTask
<1>2. CASE UNCHANGED vars
  BY <1>0, <1>1, <1>2 DEF vars, store
<1>3. ASSUME NEW j \in Job, NEW s \in Server, Ask(j, s)
      PROVE Verdicts'
  <2>1. \A i \in Job \ {j} : job'[i] = job[i]
    BY <1>3 DEF Ask, Types
  <2>2. /\ job'[j].pc = "claim" /\ job'[j].snap.status = "pending"
        /\ job'[j].snap.decision = [c \in Candidate |-> "none"]
    BY <1>3 DEF Ask, Types
  <2>3. Stage(j)' /\ Undecided(job'[j].snap) /\ ~Working(j)'
    BY <2>2 DEF Stage, Undecided, Verdict, Working
  <2> QED BY <1>0, <1>1, <1>3, <2>1, <2>3 DEF Ask, store
<1>4. ASSUME NEW j \in Job, Claim(j)
      PROVE Verdicts'
  <2>1. \A i \in Job \ {j} : job'[i] = job[i]
    BY <1>4 DEF Claim, Types
  <2>2. job[j] \in Task /\ job[j].snap \in Snapshot /\ Stage(j) /\ Undecided(job[j].snap)
    BY <1>0, <1>4, TaskIs DEF Claim, Steps
  <2>3. CASE Claimed(job[j].snap.op)
    <3>1. job'[j].pc \notin Steps
      BY <1>4, <2>3 DEF Claim, Types, Idle, Steps
    <3> QED BY <1>0, <1>1, <1>4, <2>1, <2>3, <3>1 DEF Claim
  <2>4. CASE ~Claimed(job[j].snap.op)
    <3>1. job'[j].pc = "run" /\ job'[j].snap = job[j].snap
      BY <1>4, <2>2, <2>4 DEF Claim, Types, Task
    <3>2. \A i \in Job : job'[i].pc \in Steps => Stage(i)' /\ Undecided(job'[i].snap)
      BY <1>0, <1>4, <2>1, <2>2, <3>1 DEF Stage, Claim
    <3>3. Unfinal(job[j].snap.op)
      BY <2>4 DEF Unfinal, Claimed, Snapshots
    <3>4. \A i \in Job : Working(i)' => Unfinal(job'[i].snap.op)
      BY <1>0, <2>1, <3>1, <3>3 DEF Working
    <3>5. log' = log \union {job[j].snap} /\ {job[j].snap} \in SUBSET Snapshot
      BY <1>4, <2>2, <2>4 DEF Claim
    <3>6. job[j].snap.status = "pending"
      BY <1>4, <2>2 DEF Claim, Stage
    <3> QED BY <1>0, <1>4, <2>2, <3>2, <3>4, <3>5, <3>6, VerdictsOfTask DEF Claim
  <2> QED BY <2>3, <2>4
<1>5. ASSUME NEW j \in Job, CreateThread(j) \/ Propose(j) \/ Fail(j) \/ AppendFails(j)
      PROVE Verdicts'
  <2>1. UNCHANGED <<log, facts, todo>>
    BY <1>5 DEF CreateThread, Propose, Fail, AppendFails, store
  <2> QED BY <1>0, <1>1, <1>5, <2>1, TaskGoesOn
<1>6. ASSUME NEW j \in Job, Record(j) \/ Settle(j)
      PROVE Verdicts'
  <2>1. /\ Working(j) /\ \A i \in Job \ {j} : job'[i] = job[i]
        /\ job[j].snap \in Snapshot
        /\ job'[j].pc \in Steps => /\ Working(j)' /\ Stage(j)' /\ Undecided(job'[j].snap)
                                   /\ job'[j].snap.op = job[j].snap.op
    BY <1>6, TaskGoesOn
  <2>2. log' = log \union {job[j].snap} /\ UNCHANGED <<facts, todo>>
    BY <1>6 DEF Record, Settle
  <2>3. Stage(j) /\ Undecided(job[j].snap) /\ Unfinal(job[j].snap.op)
    BY <1>0, <2>1
  <2>4. \A i \in Job : job'[i].pc \in Steps => Stage(i)' /\ Undecided(job'[i].snap)
    BY <1>0, <2>1 DEF Stage
  <2>5. \A i \in Job : Working(i)' => Working(i) /\ job'[i].snap.op = job[i].snap.op
    BY <2>1 DEF Working
  <2>6. \A i \in Job : Working(i)' => Unfinal(job'[i].snap.op)
    BY <1>0, <2>5
  <2>7. job[j].snap.status = "completed" =>
          Unfinal(job[j].snap.op) /\ \A i \in Job : Working(i)' => job'[i].snap.op # job[j].snap.op
    <3> SUFFICES ASSUME job[j].snap.status = "completed", NEW i \in Job, Working(i)'
                 PROVE job'[i].snap.op # job[j].snap.op
      BY <2>3
    <3>1. Settle(j)
      BY <1>6, <2>3 DEF Record, Stage
    <3>2. ~Working(j)'
      BY <3>1 DEF Settle, Types, Idle, Working, Steps
    <3> QED BY <2>1, <2>5, <3>2 DEF Claims
  <2> DEFINE X == {job[j].snap}
  <2>8. X \in SUBSET Snapshot /\ log' = log \union X /\ \A x \in X : x = job[j].snap
    BY <2>1, <2>2
  <2> HIDE DEF X
  <2>9. \A s \in Server : \A e \in todo'[s] : Undecided(e)
    BY <1>0, <2>2
  <2> QED BY <2>2, <2>3, <2>4, <2>6, <2>7, <2>8, <2>9, VerdictsOfTask
<1>7. ASSUME NEW s \in Server, Start(s)
      PROVE Verdicts'
  <2>1. \A e \in Unfinished : Undecided(e)
    BY UnfinishedIs DEF Verdicts
  <2> QED BY <1>0, <1>1, <1>7, <2>1 DEF Start, store, Types
<1>8. ASSUME NEW s \in Server, Serve(s) \/ Kill(s)
      PROVE Verdicts'
  <2>1. /\ UNCHANGED <<log, facts>> /\ \A i \in Job : job'[i] \in {job[i], Idle}
        /\ \A t \in Server : todo'[t] \subseteq todo[t]
    BY <1>8 DEF Serve, Kill, store, Types
  <2>2. Idle.pc \notin Steps
    BY DEF Idle, Steps
  <2> QED BY <1>0, <1>1, <2>1, <2>2
<1>9. ASSUME NEW s \in Server, Interrupt(s)
      PROVE Verdicts'
  <2>1. PICK e \in todo[s] : /\ log' = log \union {Stamped(e, "failed")}
                             /\ todo' = [todo EXCEPT ![s] = @ \ {e}]
    BY <1>9 DEF Interrupt
  <2>2. /\ Stamped(e, "failed") \in Snapshot /\ Stamped(e, "failed").status = "failed"
        /\ Stamped(e, "failed").decision = e.decision
    BY StampedIs DEF Statuses, Types
  <2>3. Undecided(Stamped(e, "failed")) /\ {Stamped(e, "failed")} \in SUBSET Snapshot
    BY <1>0, <2>2 DEF Undecided
  <2>4. UNCHANGED <<facts, job>>
    BY <1>9 DEF Interrupt
  <2>5. \A t \in Server : \A d \in todo'[t] : Undecided(d)
    BY <1>0, <2>1 DEF Types
  <2>6. \A i \in Job : job'[i].pc \in Steps => Stage(i)' /\ Undecided(job'[i].snap)
    BY <1>0, <2>4 DEF Stage
  <2>7. \A i \in Job : Working(i)' => Unfinal(job'[i].snap.op)
    BY <1>0, <2>4 DEF Working
  <2> QED BY <2>1, <2>2, <2>3, <2>4, <2>5, <2>6, <2>7, VerdictsOfTask
<1>10. ASSUME NEW o \in Operation, NEW c \in Candidate, NEW d \in Verdict, Review(o, c, d)
       PROVE Verdicts'
  <2> DEFINE x == [Current(o) EXCEPT !.at = clock, !.decision[c] = d]
  <2>1. /\ Claimed(o) /\ Current(o).status = "completed"
        /\ Current(o) \in log /\ Current(o) \in Snapshot /\ Current(o).op = o
        /\ \A e \in log : e.op = o => e.at <= Current(o).at
    BY <1>10, CurrentIsLatest DEF Review, Reviewable, Status, Types
  <2>2. PICK y \in log : y = Current(o)
    BY <2>1
  <2>3. /\ x \in Snapshot /\ x.op = o /\ x.status = "completed" /\ x.at = clock
        /\ x.decision = [y.decision EXCEPT ![c] = d]
    BY <2>1, <2>2 DEF Snapshot, Decisions, Types, Verdict
  <2>4. log' = log \union {x} /\ UNCHANGED <<job, todo>> /\ y.decision[c] = "pending"
    BY <1>10, <2>2 DEF Review, Decide
  <2> HIDE DEF x
  <2>5. /\ \A k \in Candidate \ {c} : x.decision[k] = y.decision[k]
        /\ x.decision[c] = d
    BY <2>1, <2>2, <2>3 DEF Snapshot
  <2>6. \A e \in log : e.at \in Nat /\ e.at < clock
    BY DEF Types, Times, Snapshot
  <2>7. \A e \in log : e.op = o /\ e.status = "completed" =>
          \A k \in Candidate : e.decision[k] \in Verdict =>
            k # c /\ x.decision[k] = e.decision[k]
    <3> SUFFICES ASSUME NEW e \in log, e.op = o, e.status = "completed",
                        NEW k \in Candidate, e.decision[k] \in Verdict
                 PROVE k # c /\ x.decision[k] = e.decision[k]
      OBVIOUS
    <3>1. y.decision[k] = e.decision[k]
      BY <2>1, <2>2 DEF Verdicts
    <3> QED BY <2>4, <2>5, <3>1 DEF Verdict
  <2>8. \A j \in Job : job'[j].pc \in Steps => Stage(j)' /\ Undecided(job[j].snap)'
    BY <1>0, <2>4 DEF Stage, Undecided
  <2>9. \A t \in Server : \A e \in todo'[t] : Undecided(e)'
    BY <1>0, <2>4 DEF Undecided
  <2>10. \A e \in log' : e.status # "completed" => Undecided(e)'
    BY <2>3, <2>4 DEF Verdicts, Undecided
  <2>11. \A j \in Job : Working(j)' => Unfinal(job[j].snap.op)'
    <3> SUFFICES ASSUME NEW j \in Job, Working(j) PROVE Unfinal(job[j].snap.op)'
      BY <2>4 DEF Working
    <3>1. Unfinal(job[j].snap.op) /\ job[j].snap.op # o
      BY <1>0, <2>1 DEF Unfinal
    <3> QED BY <2>3, <2>4, <3>1 DEF Unfinal
  <2>12. \A e, f \in log' :
           e.op = f.op /\ e.status = "completed" /\ f.status = "completed" /\ e.at <= f.at
             => \A k \in Candidate : e.decision[k] \in Verdict => f.decision[k] = e.decision[k]
    <3> SUFFICES ASSUME NEW e \in log', NEW f \in log', e.op = f.op, e.status = "completed",
                        f.status = "completed", e.at <= f.at, NEW k \in Candidate,
                        e.decision[k] \in Verdict
                 PROVE f.decision[k] = e.decision[k]
      OBVIOUS
    <3>1. CASE e \in log /\ f \in log
      BY <3>1 DEF Verdicts
    <3>2. CASE e \in log /\ f = x
      BY <2>3, <2>7, <3>2
    <3>3. CASE e = x /\ f \in log
      <4>1. clock \in Nat /\ f.at < clock /\ f.at \in Nat
        BY <2>6, <3>3 DEF Types
      <4> QED BY <2>3, <3>3, <4>1
    <3>4. CASE e = x /\ f = x
      BY <3>4
    <3> QED BY <2>4, <3>1, <3>2, <3>3, <3>4
  <2>13. \A p \in Operation, k \in Candidate :
           IsFact(<<p, k>>)' <=> \E e \in log' : e.op = p /\ e.decision[k] \in {"accepted", "edited"}
    <3> SUFFICES ASSUME NEW p \in Operation, NEW k \in Candidate
                 PROVE IsFact(<<p, k>>)' <=>
                         \E e \in log' : e.op = p /\ e.decision[k] \in {"accepted", "edited"}
      OBVIOUS
    <3>1. IsFact(<<p, k>>) <=> \E e \in log : e.op = p /\ e.decision[k] \in {"accepted", "edited"}
      BY DEF Verdicts
    <3>2. CASE p = o /\ k = c
      <4>1. CASE d = "rejected"
        BY <1>10, <2>3, <2>4, <2>5, <3>1, <3>2, <4>1 DEF Review, Decide, IsFact
      <4>2. CASE d # "rejected"
        <5> DEFINE row == [lifecycle |-> "candidate", content |-> Content(d), evidence |-> {}]
        <5>1. row \in FactRow /\ row # NoFact
          BY NoFactAssumption DEF FactRow, Content
        <5>2. facts' = [facts EXCEPT ![<<o, c>>] = row]
          BY <1>10, <4>2 DEF Review, Decide
        <5>3. <<o, c>> \in Fact \union Proposed
          BY DEF Proposed
        <5>4. facts'[<<o, c>>] = row
          BY <5>2, <5>3 DEF Types
        <5>5. IsFact(<<p, k>>)'
          BY <3>2, <5>1, <5>4 DEF IsFact
        <5>6. x \in log' /\ x.op = p /\ x.decision[k] \in {"accepted", "edited"}
          BY <2>3, <2>4, <2>5, <3>2, <4>2 DEF Verdict
        <5> QED BY <5>5, <5>6
      <4> QED BY <4>1, <4>2
    <3>3. CASE p # o \/ k # c
      <4>1. facts'[<<p, k>>] = facts[<<p, k>>]
        BY <1>10, <3>3 DEF Review, Decide, Types
      <4>2. (\E e \in log' : e.op = p /\ e.decision[k] \in {"accepted", "edited"}) <=>
            (\E e \in log : e.op = p /\ e.decision[k] \in {"accepted", "edited"})
        <5>1. CASE p # o
          BY <2>3, <2>4, <5>1
        <5>2. CASE p = o /\ k # c
          BY <2>1, <2>2, <2>4, <2>5, <5>2
        <5> QED BY <3>3, <5>1, <5>2
      <4> QED BY <3>1, <4>1, <4>2 DEF IsFact
    <3> QED BY <3>2, <3>3
  <2> QED BY <2>8, <2>9, <2>10, <2>11, <2>12, <2>13 DEF Verdicts
<1>11. ASSUME NEW f \in Fact \union Proposed, NEW l \in {"pinned", "invalid"}, UpdateFact(f, l)
       PROVE Verdicts'
  <2>1. facts[f] \in FactRow /\ IsFact(f)
    BY <1>11 DEF UpdateFact, IsFact, Types
  <2>2. [facts[f] EXCEPT !.lifecycle = l] \in FactRow
    BY <2>1 DEF FactRow
  <2>3. facts'[f] # NoFact /\ \A g \in (Fact \union Proposed) \ {f} : facts'[g] = facts[g]
    BY <1>11, <2>2, NoFactAssumption DEF UpdateFact, Types
  <2>4. \A p \in Operation, k \in Candidate : IsFact(<<p, k>>)' <=> IsFact(<<p, k>>)
    BY <2>1, <2>3 DEF IsFact, Proposed
  <2>5. UNCHANGED <<log, job, todo>>
    BY <1>11 DEF UpdateFact
  <2> QED BY <2>4, <2>5 DEF Verdicts, Stage, Undecided, Working, Unfinal
<1> QED BY <1>2, <1>3, <1>4, <1>5, <1>6, <1>7, <1>8, <1>9, <1>10, <1>11
           DEF Next, JobStep, ServerStep, Verdict
-------------------------------------------------------------------------------
(* Tasks and the record, while one server is up at a time.                 *)

LEMMA StatusIsOfLog ==
  ASSUME UNCHANGED log, NEW o \in Operation
  PROVE (Claimed(o)' <=> Claimed(o)) /\ Status(o)' = Status(o)
  BY DEF Status, Claimed, Current, Snapshots

(* A task goes on, or somebody stops, while the log stays. *)
LEMMA InStepOfTask ==
  ASSUME Sorted, InStep, Types', UNCHANGED log,
         \A s \in Server : todo'[s] \subseteq todo[s],
         \A s \in Server : \/ server'[s] = server[s]
                           \/ server'[s] = "down" /\ todo'[s] = {}
                           \/ server[s] # "down" /\ server'[s] = "serving" /\ todo'[s] = {},
         \A j \in Job :
           \/ ~(job'[j].pc \in Steps)
           \/ /\ server'[job'[j].server] = "serving"
              /\ Working(j)' =>
                   /\ Working(j) /\ job'[j].snap.op = job[j].snap.op
                   /\ Status(job[j].snap.op) \in Pending(job'[j])
                   /\ Holding(j)' => job'[j].snap.at = clock \/ job'[j] = job[j]
  PROVE InStep'
<1> USE DEF Sorted
<1>1. \A s, t \in Server : server'[s] # "down" /\ server'[t] # "down" => s = t
  BY DEF InStep
<1>2. \A j \in Job : job'[j].pc \in Steps => server'[job'[j].server] = "serving"
  OBVIOUS
<1>3. ASSUME NEW s \in Server, NEW e \in todo'[s]
      PROVE server'[s] = "recovering" /\ Claimed(e.op)' /\ Unfinal(e.op)'
  <2>1. server[s] = "recovering" /\ Claimed(e.op) /\ Unfinal(e.op)
    BY <1>3 DEF InStep
  <2>2. server'[s] = server[s]
    BY <1>3
  <2> QED BY <2>1, <2>2 DEF Claimed, Snapshots, Unfinal
<1>4. \A e, d \in log' :
        e.op = d.op /\ e.status = "completed" /\ d.status # "completed" => d.at < e.at
  BY DEF InStep
<1>5. \A j \in Job : Working(j)' =>
        /\ Working(j) /\ job'[j].snap.op = job[j].snap.op
        /\ Status(job[j].snap.op) \in Pending(job'[j])
        /\ Holding(j)' => job'[j].snap.at = clock \/ job'[j] = job[j]
  BY DEF Working
<1>6. ASSUME NEW j \in Job, Working(j)', Holding(j)', NEW e \in log', e.op = job'[j].snap.op
      PROVE e.at < job'[j].snap.at
  <2>1. CASE job'[j].snap.at = clock
    BY <1>6, <2>1 DEF Times
  <2>2. CASE job'[j] = job[j]
    BY <1>5, <1>6, <2>2 DEF InStep, Holding
  <2> QED BY <1>5, <1>6, <2>1, <2>2
<1>7. ASSUME NEW j \in Job, Working(j)'
      PROVE Status(job[j].snap.op)' \in Pending(job[j])'
  <2>1. PICK o \in Operation : o = job[j].snap.op
    BY <1>5, <1>7, TaskIs DEF Working, Snapshot
  <2>2. Status(o)' = Status(o) /\ job'[j].snap.op = o /\ Status(o) \in Pending(job'[j])
    BY <1>5, <1>7, <2>1, StatusIsOfLog
  <2>3. Status(o)' \in Pending(job[j])'
    BY <2>2 DEF Pending
  <2> QED BY <2>2, <2>3
<1> QED BY <1>1, <1>2, <1>3, <1>4, <1>6, <1>7 DEF InStep

(* A task appends what it holds. *)
LEMMA InStepOfAppend ==
  ASSUME Sorted, Claims, Verdicts, InStep, Types', Times', UNCHANGED <<server, todo>>,
         NEW j \in Job, Record(j) \/ Settle(j)
  PROVE /\ InStep'
        /\ Status(job[j].snap.op) \in Pending(job[j])
        /\ \A e \in log : e.op = job[j].snap.op => e.at <= job[j].snap.at
<1> USE DEF Sorted
<1>1. PICK x \in Snapshot, p \in Operation : x = job[j].snap /\ x.op = p
  BY TaskIs DEF Record, Settle, Steps, Snapshot
<1>2. /\ Working(j) /\ Holding(j) /\ job[j].pc \in Steps /\ Stage(j) /\ Unfinal(p)
      /\ log' = log \union {x}
  BY <1>1 DEF Record, Settle, Working, Holding, Steps, Verdicts
<1>3. \A e \in log : e.op = p => e.at < x.at /\ e.at <= x.at
  BY <1>1, <1>2 DEF InStep, Types, Snapshot
<1>4. /\ Claimed(p)' /\ Status(p)' = x.status
      /\ \A o \in Operation : Claimed(o) => Claimed(o)'
      /\ \A o \in Operation \ {p} : Status(o)' = Status(o)
  BY <1>1, <1>2, <1>3, Appended
<1>5. \A i \in Job \ {j} : job'[i] = job[i]
  BY DEF Record, Settle, Types
<1>6. job'[j] = Idle \/ /\ job'[j].pc = "turn" /\ x.status = "thread_created"
                        /\ job'[j].snap = x /\ job'[j].server = job[j].server
  BY <1>1, <1>2, TaskIs DEF Record, Settle, Types, Task, Stage
<1>7. \A s \in Server : todo[s] = {}
  <2>1. job[j].server \in Server /\ server[job[j].server] = "serving"
    BY <1>2, TaskIs DEF InStep
  <2> QED BY <2>1 DEF InStep
<1>8. \A i \in Job : Working(i)' => Working(i) /\ (i = j => job'[j].pc = "turn")
  BY <1>2, <1>5, <1>6 DEF Working, Idle, Steps
<1>9. \A s, t \in Server : server'[s] # "down" /\ server'[t] # "down" => s = t
  BY DEF InStep
<1>10. \A i \in Job : job'[i].pc \in Steps => server'[job'[i].server] = "serving"
  BY <1>2, <1>5, <1>6 DEF InStep, Idle, Steps
<1>11. \A e, d \in log' :
         e.op = d.op /\ e.status = "completed" /\ d.status # "completed" => d.at < e.at
  BY <1>1, <1>2, <1>3 DEF InStep, Unfinal
<1>12. \A i \in Job \ {j} : Working(i)' => Working(i) /\ job'[i] = job[i] /\ job[i].snap.op # p
  BY <1>1, <1>2, <1>5, <1>8 DEF Claims
<1>13. \A i \in Job : Working(i)' /\ Holding(i)' =>
         \A e \in log' : e.op = job'[i].snap.op => e.at < job'[i].snap.at
  <2> SUFFICES ASSUME NEW i \in Job, Working(i)', Holding(i)', NEW e \in log', e.op = job'[i].snap.op
               PROVE e.at < job'[i].snap.at
    OBVIOUS
  <2>1. i # j
    BY <1>8 DEF Holding
  <2>2. Working(i) /\ Holding(i) /\ job'[i] = job[i] /\ job[i].snap.op # p
    BY <1>12, <2>1 DEF Holding
  <2> QED BY <1>1, <1>2, <2>2 DEF InStep
<1>14. ASSUME NEW i \in Job, Working(i)'
       PROVE Status(job[i].snap.op)' \in Pending(job[i])'
  <2>1. CASE i = j
    <3>1. job'[j].pc = "turn" /\ job'[j].snap.op = p /\ x.status = "thread_created"
      BY <1>1, <1>6, <1>8, <1>14, <2>1 DEF Idle
    <3>2. Status(p)' \in Pending(job[j])'
      BY <1>4, <3>1 DEF Pending
    <3> QED BY <2>1, <3>1, <3>2
  <2>2. CASE i # j
    <3>1. Working(i) /\ job'[i] = job[i] /\ job[i].snap.op # p
      BY <1>12, <1>14, <2>2
    <3>2. PICK o \in Operation : o = job[i].snap.op
      BY <3>1, TaskIs DEF Working, Snapshot
    <3>3. Status(o)' \in Pending(job[i])'
      BY <1>4, <3>1, <3>2 DEF InStep, Pending
    <3> QED BY <3>1, <3>2, <3>3
  <2> QED BY <2>1, <2>2
<1>15. \A s \in Server : \A e \in todo'[s] : server'[s] = "recovering" /\ Claimed(e.op)' /\ Unfinal(e.op)'
  BY <1>7
<1>16. InStep'
  BY <1>9, <1>10, <1>11, <1>13, <1>14, <1>15 DEF InStep
<1> QED BY <1>1, <1>2, <1>3, <1>16 DEF InStep

(* A claim, of an operation nobody has claimed. *)
LEMMA InStepOfClaim ==
  ASSUME Sorted, Claims, Verdicts, InStep, Types', Times', UNCHANGED <<server, todo>>,
         NEW j \in Job, Claim(j), ~Claimed(job[j].snap.op)
  PROVE InStep'
<1> USE DEF Sorted
<1>1. PICK x \in Snapshot, p \in Operation : x = job[j].snap /\ x.op = p
  BY TaskIs DEF Claim, Steps, Snapshot
<1>2. /\ job[j].pc \in Steps /\ x.status = "pending" /\ log' = log \union {x}
      /\ job'[j].pc = "run" /\ job'[j].snap = x /\ job'[j].server = job[j].server
  BY <1>1, TaskIs DEF Claim, Steps, Verdicts, Stage, Types, Task
<1>3. \A e \in log : e.op # p
  BY <1>1 DEF Claimed, Snapshots
<1>4. /\ Claimed(p)' /\ Status(p)' = "pending"
      /\ \A o \in Operation : Claimed(o) => Claimed(o)'
      /\ \A o \in Operation \ {p} : Status(o)' = Status(o)
  BY <1>1, <1>2, <1>3, Appended
<1>5. \A i \in Job \ {j} : job'[i] = job[i]
  BY DEF Claim, Types
<1>6. \A s, t \in Server : server'[s] # "down" /\ server'[t] # "down" => s = t
  BY DEF InStep
<1>7. \A i \in Job : job'[i].pc \in Steps => server'[job'[i].server] = "serving"
  BY <1>2, <1>5 DEF InStep
<1>8. ASSUME NEW s \in Server, NEW e \in todo'[s]
      PROVE server'[s] = "recovering" /\ Claimed(e.op)' /\ Unfinal(e.op)'
  <2>1. server[s] = "recovering" /\ Claimed(e.op) /\ Unfinal(e.op)
    BY <1>8 DEF InStep
  <2>2. Claimed(e.op)'
    BY <1>2, <2>1 DEF Claimed, Snapshots
  <2> QED BY <1>2, <2>1, <2>2 DEF Unfinal
<1>9. \A e, d \in log' :
        e.op = d.op /\ e.status = "completed" /\ d.status # "completed" => d.at < e.at
  BY <1>1, <1>2, <1>3 DEF InStep
<1>10. \A i \in Job \ {j} : Working(i)' => Working(i) /\ job'[i] = job[i] /\ job[i].snap.op # p
  BY <1>1, <1>5 DEF Claims, Working
<1>11. \A i \in Job : Working(i)' /\ Holding(i)' =>
         \A e \in log' : e.op = job'[i].snap.op => e.at < job'[i].snap.at
  <2> SUFFICES ASSUME NEW i \in Job, Working(i)', Holding(i)', NEW e \in log', e.op = job'[i].snap.op
               PROVE e.at < job'[i].snap.at
    OBVIOUS
  <2>1. i # j
    BY <1>2 DEF Holding
  <2>2. Working(i) /\ Holding(i) /\ job'[i] = job[i] /\ job[i].snap.op # p
    BY <1>10, <2>1 DEF Holding
  <2> QED BY <1>1, <1>2, <2>2 DEF InStep
<1>12. ASSUME NEW i \in Job, Working(i)'
       PROVE Status(job[i].snap.op)' \in Pending(job[i])'
  <2>1. CASE i = j
    <3>1. Status(p)' \in Pending(job[j])'
      BY <1>2, <1>4 DEF Pending
    <3> QED BY <1>1, <1>2, <2>1, <3>1
  <2>2. CASE i # j
    <3>1. Working(i) /\ job'[i] = job[i] /\ job[i].snap.op # p
      BY <1>10, <1>12, <2>2
    <3>2. PICK o \in Operation : o = job[i].snap.op
      BY <3>1, TaskIs DEF Working, Snapshot
    <3>3. Status(o)' \in Pending(job[i])'
      BY <1>4, <3>1, <3>2 DEF InStep, Pending
    <3> QED BY <3>1, <3>2, <3>3
  <2> QED BY <2>1, <2>2
<1> QED BY <1>6, <1>7, <1>8, <1>9, <1>11, <1>12 DEF InStep

(* A server that recovers, and the reviews of one that serves: the tasks   *)
(* of the operation are gone, and so is whatever a server found unfinished.*)
LEMMA InStepOfRecord ==
  ASSUME Sorted, InStep, Types', Times', UNCHANGED <<server, job>>,
         NEW x \in Snapshot, NEW p \in Operation, x.op = p, x.at = clock, log' = log \union {x},
         \A j \in Job : Working(j) => job[j].snap.op # p,
         \A s \in Server : todo'[s] \subseteq todo[s],
         x.status = "completed" => \A s \in Server : todo'[s] = {},
         x.status # "completed" => Unfinal(p)
  PROVE InStep'
<1> USE DEF Sorted
<1>1. /\ Claimed(p)' /\ \A o \in Operation : Claimed(o) => Claimed(o)'
      /\ \A o \in Operation \ {p} : Status(o)' = Status(o)
  BY Appended
<1>2. \A e \in log : e.at < clock
  BY DEF Times
<1>3. \A s, t \in Server : server'[s] # "down" /\ server'[t] # "down" => s = t
  BY DEF InStep
<1>4. \A j \in Job : job'[j].pc \in Steps => server'[job'[j].server] = "serving"
  BY DEF InStep
<1>5. ASSUME NEW s \in Server, NEW e \in todo'[s]
      PROVE server'[s] = "recovering" /\ Claimed(e.op)' /\ Unfinal(e.op)'
  <2>1. server[s] = "recovering" /\ Claimed(e.op) /\ Unfinal(e.op) /\ x.status # "completed"
    BY <1>5 DEF InStep
  <2>2. Claimed(e.op)'
    BY <2>1 DEF Claimed, Snapshots
  <2> QED BY <2>1, <2>2 DEF Unfinal
<1>6. \A e, d \in log' :
        e.op = d.op /\ e.status = "completed" /\ d.status # "completed" => d.at < e.at
  BY <1>2 DEF InStep, Unfinal
<1>7. \A j \in Job : Working(j)' => Working(j) /\ job'[j] = job[j] /\ job[j].snap.op # p
  BY DEF Working
<1>8. ASSUME NEW j \in Job, Working(j)', Holding(j)', NEW e \in log', e.op = job'[j].snap.op
      PROVE e.at < job'[j].snap.at
  BY <1>7, <1>8 DEF InStep, Holding
<1>9. ASSUME NEW j \in Job, Working(j)'
      PROVE Status(job[j].snap.op)' \in Pending(job[j])'
  <2>1. PICK o \in Operation : o = job[j].snap.op
    BY <1>7, <1>9, TaskIs DEF Working, Snapshot
  <2>2. Status(o)' \in Pending(job[j])'
    BY <1>1, <1>7, <1>9, <2>1 DEF InStep, Pending
  <2> QED BY <1>7, <1>9, <2>1, <2>2
<1> QED BY <1>3, <1>4, <1>5, <1>6, <1>8, <1>9 DEF InStep

LEMMA NobodyRecovers ==
  ASSUME InStep, NEW s \in Server, server[s] = "serving"
  PROVE \A t \in Server : todo[t] = {}
  BY DEF InStep

LEMMA NobodyWorks ==
  ASSUME Types, InStep, NEW s \in Server, server[s] = "recovering"
  PROVE \A j \in Job : job[j].pc \notin Steps
<1> SUFFICES ASSUME NEW j \in Job, job[j].pc \in Steps PROVE FALSE
  OBVIOUS
<1>1. job[j].server \in Server /\ server[job[j].server] = "serving"
  BY TaskIs DEF InStep
<1> QED BY <1>1 DEF InStep

LEMMA InStepStep ==
  ASSUME Sorted, Claims, Verdicts, InStep, Types', Times', ~overlapped', [Next]_vars
  PROVE InStep'
<1> USE DEF Sorted
<1>0. /\ \A j \in Job : job[j].pc \in Steps => server[job[j].server] = "serving"
      /\ \A j \in Job : Working(j) => job[j].pc \in Steps /\ Status(job[j].snap.op) \in Pending(job[j])
  BY DEF InStep, Working
<1>1. CASE UNCHANGED vars
  BY <1>0, <1>1, InStepOfTask DEF vars, store, Working, Holding
<1>2. ASSUME NEW j \in Job, NEW s \in Server, Ask(j, s)
      PROVE InStep'
  <2>1. \A i \in Job \ {j} : job'[i] = job[i]
    BY <1>2 DEF Ask, Types
  <2>2. job'[j].pc = "claim" /\ job'[j].server = s /\ server[s] = "serving" /\ ~Working(j)'
    BY <1>2 DEF Ask, Types, Working
  <2>3. UNCHANGED <<log, server, todo>>
    BY <1>2 DEF Ask, store
  <2> QED BY <1>0, <2>1, <2>2, <2>3, InStepOfTask DEF Working, Holding
<1>3. ASSUME NEW j \in Job, Claim(j)
      PROVE InStep'
  <2>1. CASE ~Claimed(job[j].snap.op)
    BY <1>3, <2>1, InStepOfClaim DEF Claim
  <2>2. CASE Claimed(job[j].snap.op)
    <3>1. \A i \in Job \ {j} : job'[i] = job[i]
      BY <1>3 DEF Claim, Types
    <3>2. job'[j].pc \notin Steps /\ UNCHANGED <<log, server, todo>>
      BY <1>3, <2>2 DEF Claim, Types, Idle, Steps
    <3> QED BY <1>0, <3>1, <3>2, InStepOfTask DEF Working, Holding
  <2> QED BY <2>1, <2>2
<1>4. ASSUME NEW j \in Job, CreateThread(j) \/ Propose(j) \/ Fail(j) \/ AppendFails(j)
      PROVE InStep'
  <2>1. /\ Working(j) /\ \A i \in Job \ {j} : job'[i] = job[i]
        /\ job[j] \in Task /\ job[j].snap \in Snapshot
        /\ job'[j].pc \in Steps =>
             /\ Working(j)' /\ Stage(j)'
             /\ job'[j].snap.op = job[j].snap.op /\ job'[j].server = job[j].server
             /\ Holding(j)' => job'[j].snap.at = clock
    BY <1>4, TaskGoesOn
  <2>2. UNCHANGED <<log, server, todo>>
    BY <1>4 DEF CreateThread, Propose, Fail, AppendFails, store
  <2>3. Status(job[j].snap.op) \in Pending(job[j]) /\ Stage(j)
    BY <1>0, <2>1 DEF Verdicts
  <2>4. job'[j].pc \in Steps => Status(job[j].snap.op) \in Pending(job'[j])
    <3>1. CASE CreateThread(j)
      <4>1. job[j].pc = "run" /\ job'[j].pc = "record"
        BY <2>1, <3>1 DEF CreateThread, Types
      <4> QED BY <2>3, <4>1 DEF Pending
    <3>2. CASE Propose(j)
      <4>1. job[j].pc = "turn" /\ job'[j].pc = "settle"
        BY <2>1, <3>2 DEF Propose, Types
      <4> QED BY <2>3, <4>1 DEF Pending
    <3>3. CASE Fail(j) \/ AppendFails(j)
      <4> SUFFICES ASSUME job'[j].pc \in Steps PROVE Status(job[j].snap.op) \in Pending(job'[j])
        OBVIOUS
      <4>1. job' = [job EXCEPT ![j].pc = "settle", ![j].snap = Stamped(@, "failed")]
        BY <3>3 DEF Fail, AppendFails, Types, Idle, Steps
      <4>2. Stamped(job[j].snap, "failed").status = "failed"
        BY <2>1, StampedIs DEF Statuses
      <4>3. job'[j].pc = "settle" /\ job'[j].snap.status = "failed"
        BY <2>1, <4>1, <4>2 DEF Types, Task
      <4>4. Status(job[j].snap.op) \in {"pending", "thread_created"}
        BY <2>3 DEF Pending
      <4> QED BY <4>3, <4>4 DEF Pending
    <3> QED BY <1>4, <3>1, <3>2, <3>3
  <2> QED BY <1>0, <2>1, <2>2, <2>4, InStepOfTask DEF Working, Holding
<1>5. ASSUME NEW j \in Job, Record(j) \/ Settle(j)
      PROVE InStep'
  <2>1. UNCHANGED <<server, todo>>
    BY <1>5 DEF Record, Settle
  <2> QED BY <1>5, <2>1, InStepOfAppend
<1>6. ASSUME NEW s \in Server, Start(s)
      PROVE InStep'
  <2>1. \A t \in Server : server[t] = "down"
    BY <1>6 DEF Start, Types
  <2>2. \A j \in Job : job[j].pc \notin Steps
    BY <1>0, <2>1, TaskIs
  <2>3. UNCHANGED <<log, job>>
    BY <1>6 DEF Start, store
  <2>4. /\ server'[s] = "recovering" /\ todo'[s] = Unfinished
        /\ \A t \in Server \ {s} : server'[t] = "down" /\ todo'[t] = {}
    BY <1>6, <2>1 DEF Start, Types, InStep
  <2>5. \A j \in Job : job'[j].pc \notin Steps /\ ~Working(j)'
    BY <2>2, <2>3 DEF Working
  <2>6. \A e \in Unfinished : Claimed(e.op)' /\ Unfinal(e.op)'
    <3> SUFFICES ASSUME NEW e \in Unfinished PROVE Claimed(e.op)' /\ Unfinal(e.op)'
      OBVIOUS
    <3>1. /\ e \in log /\ e.op \in Operation /\ Claimed(e.op) /\ Current(e.op) = e
          /\ e.status \in {"pending", "thread_created"}
      BY UnfinishedIs
    <3>2. \A d \in log : d.op = e.op => d.at <= e.at /\ d.at \in Nat /\ e.at \in Nat
      BY <3>1, CurrentIsLatest DEF Types, Snapshot
    <3>3. \A d \in log : d.op = e.op => d.status # "completed"
      BY <3>1, <3>2 DEF InStep
    <3> QED BY <2>3, <3>1, <3>3 DEF Claimed, Snapshots, Unfinal
  <2>7. \A e, d \in log' :
          e.op = d.op /\ e.status = "completed" /\ d.status # "completed" => d.at < e.at
    BY <2>3 DEF InStep
  <2>8. \A t \in Server : \A e \in todo'[t] : server'[t] = "recovering" /\ Claimed(e.op)' /\ Unfinal(e.op)'
    BY <2>4, <2>6
  <2>9. \A t, u \in Server : server'[t] # "down" /\ server'[u] # "down" => t = u
    BY <2>4
  <2> QED BY <2>5, <2>7, <2>8, <2>9 DEF InStep
<1>7. ASSUME NEW s \in Server, Serve(s)
      PROVE InStep'
  <2>1. /\ server'[s] = "serving" /\ server[s] = "recovering" /\ todo'[s] = {}
        /\ \A t \in Server \ {s} : server'[t] = server[t]
        /\ UNCHANGED <<log, job, todo>>
    BY <1>7 DEF Serve, store, Types
  <2>2. \A j \in Job : job'[j].pc \notin Steps
    BY <2>1, NobodyWorks
  <2>3. \A t \in Server : \/ server'[t] = server[t]
                          \/ server[t] # "down" /\ server'[t] = "serving" /\ todo'[t] = {}
    BY <2>1
  <2> QED BY <2>1, <2>2, <2>3, InStepOfTask
<1>8. ASSUME NEW s \in Server, Kill(s)
      PROVE InStep'
  <2>1. /\ server'[s] = "down" /\ todo'[s] = {}
        /\ \A t \in Server \ {s} : server'[t] = server[t] /\ todo'[t] = todo[t]
        /\ UNCHANGED log
    BY <1>8 DEF Kill, store, Types
  <2>2. \A j \in Job : job'[j].pc \in Steps => job'[j] = job[j] /\ job[j].server # s
    BY <1>8 DEF Kill, Idle, Steps
  <2>3. \A j \in Job : job'[j].pc \in Steps => server'[job'[j].server] = "serving"
    BY <1>0, <2>1, <2>2, TaskIs
  <2>4. \A t \in Server : todo'[t] \subseteq todo[t]
    BY <2>1
  <2>5. \A t \in Server : server'[t] = server[t] \/ (server'[t] = "down" /\ todo'[t] = {})
    BY <2>1
  <2>6. \A j \in Job : job'[j].pc \in Steps =>
          /\ server'[job'[j].server] = "serving"
          /\ Working(j)' => /\ Working(j) /\ job'[j] = job[j]
                            /\ Status(job[j].snap.op) \in Pending(job'[j])
    BY <1>0, <2>2, <2>3 DEF Working
  <2> QED BY <2>1, <2>4, <2>5, <2>6, InStepOfTask
<1>9. ASSUME NEW s \in Server, Interrupt(s)
      PROVE InStep'
  <2>1. PICK e \in todo[s] : /\ log' = log \union {Stamped(e, "failed")}
                             /\ todo' = [todo EXCEPT ![s] = @ \ {e}]
    BY <1>9 DEF Interrupt
  <2>2. PICK x \in Snapshot, p \in Operation :
          /\ x = Stamped(e, "failed") /\ x.op = p /\ e.op = p /\ x.at = clock /\ x.status = "failed"
    BY StampedIs DEF Statuses, Types, Snapshot
  <2>3. Unfinal(p) /\ server[s] = "recovering" /\ UNCHANGED <<server, job>>
    BY <1>9, <2>2 DEF InStep, Interrupt
  <2>4. \A j \in Job : ~Working(j)
    BY <1>0, <2>3, NobodyWorks
  <2>5. \A t \in Server : todo'[t] \subseteq todo[t]
    BY <2>1 DEF Types
  <2> QED BY <2>1, <2>2, <2>3, <2>4, <2>5, InStepOfRecord
<1>10. ASSUME NEW o \in Operation, NEW c \in Candidate, NEW d \in Verdict, Review(o, c, d)
       PROVE InStep'
  <2>1. PICK s \in Server : server[s] = "serving"
    BY <1>10 DEF Review, Reviewable
  <2>2. /\ Current(o).status = "completed" /\ Current(o) \in log
        /\ Current(o) \in Snapshot /\ Current(o).op = o
    BY <1>10, CurrentIsLatest DEF Review, Reviewable, Status, Types
  <2>3. PICK x \in Snapshot :
          /\ x = [Current(o) EXCEPT !.at = clock, !.decision[c] = d]
          /\ x.op = o /\ x.at = clock /\ x.status = "completed"
    <3> DEFINE y == [Current(o) EXCEPT !.at = clock, !.decision[c] = d]
    <3>1. y \in Snapshot /\ y.op = o /\ y.at = clock /\ y.status = "completed"
      BY <2>2 DEF Snapshot, Decisions, Types, Verdict
    <3> QED BY <3>1
  <2>4. log' = log \union {x} /\ UNCHANGED <<server, job, todo>>
    BY <1>10, <2>3 DEF Review, Decide
  <2>5. \A j \in Job : Working(j) => job[j].snap.op # o
    BY <2>2 DEF Verdicts, Unfinal
  <2>6. \A t \in Server : todo'[t] = {} /\ todo'[t] \subseteq todo[t]
    BY <2>1, <2>4, NobodyRecovers
  <2> QED BY <2>3, <2>4, <2>5, <2>6, InStepOfRecord
<1>11. ASSUME NEW f \in Fact \union Proposed, NEW l \in {"pinned", "invalid"}, UpdateFact(f, l)
       PROVE InStep'
  <2>1. UNCHANGED <<log, job, server, todo>>
    BY <1>11 DEF UpdateFact
  <2> QED BY <1>0, <2>1, InStepOfTask DEF Working, Holding
<1> QED BY <1>1, <1>2, <1>3, <1>4, <1>5, <1>6, <1>7, <1>8, <1>9, <1>10, <1>11
           DEF Next, JobStep, ServerStep, Verdict
-------------------------------------------------------------------------------
(* The invariant, and what it gives.                                       *)

IInv == Sorted /\ Claims /\ Verdicts /\ Alone

LEMMA InitIInv ==
  ASSUME Init
  PROVE IInv
<1>1. Types
  <2>1. facts \in [Fact \union Proposed -> {NoFact} \union FactRow]
    BY DEF Init, FactRow
  <2> QED BY <2>1 DEF Init, Types
<1>2. log = {} /\ \A j \in Job : job[j].pc = "idle" /\ job[j] = Idle
  BY DEF Init, Idle
<1>3. \A j \in Job : job[j].pc \notin Steps /\ ~Working(j) /\ ~Holding(j)
  BY <1>2 DEF Steps, Working, Holding
<1>4. \A o \in Operation : ~Claimed(o)
  BY <1>2 DEF Claimed, Snapshots
<1>5. ProposedIsUnproved
  BY DEF Init, ProposedIsUnproved
<1>6. Times
  BY <1>2, <1>3, <1>4 DEF Times
<1>7. Claims
  BY <1>2, <1>3 DEF Claims, OneThreadPerOperation, Init
<1>8. Verdicts
  BY <1>2, <1>3 DEF Verdicts, Init, Proposed
<1>9. InStep
  BY <1>2, <1>3 DEF InStep, Init
<1> QED BY <1>1, <1>5, <1>6, <1>7, <1>8, <1>9 DEF IInv, Sorted, Alone

LEMMA StepIInv ==
  ASSUME IInv, [Next]_vars
  PROVE IInv'
<1>1. Sorted /\ Claims /\ Verdicts /\ Alone
  BY DEF IInv
<1>2. Types'
  BY <1>1, TypesStep
<1>3. ProposedIsUnproved'
  BY <1>1, UnprovedStep
<1>4. Times'
  BY <1>1, <1>2, TimesStep
<1>5. Claims'
  BY <1>1, <1>2, ClaimsStep
<1>6. Verdicts'
  BY <1>1, <1>2, VerdictsStep
<1>7. overlapped => overlapped'
  BY DEF Next, vars, store, history, JobStep, ServerStep, Ask, Claim, CreateThread, Record, Propose,
         Fail, AppendFails, Settle, Start, Interrupt, Serve, Kill, Review, Decide, UpdateFact
<1>8. overlapped' \/ InStep'
  BY <1>1, <1>2, <1>4, <1>7, InStepStep DEF Alone
<1> QED BY <1>2, <1>3, <1>4, <1>5, <1>6, <1>8 DEF IInv, Sorted, Alone

(* Along every behaviour, the tasks, the times and the verdicts of an      *)
(* operation fit together; while one server is up at a time, the record    *)
(* and the tasks do as well.                                               *)
THEOREM Invariance == Spec => []IInv
<1>1. Init => IInv
  BY InitIInv
<1>2. IInv /\ [Next]_vars => IInv'
  BY StepIInv
<1> QED BY <1>1, <1>2, PTL DEF Spec

(* Every variable stays in its range, and an operation has one snapshot of *)
(* a time, so that the current one is defined (operations.rs).             *)
THEOREM TypeCorrect == Spec => []TypeOK
<1>1. IInv => TypeOK
  <2> SUFFICES ASSUME Types, Times PROVE TypeOK
    BY DEF IInv, Sorted
  <2>1. \A j \in Job : job[j] # Idle => job[j].pc \in Steps /\ job[j].snap \in Snapshot
    BY DEF Types, Task
  <2> QED BY <2>1 DEF Types, Times, TypeOK, Steps
<1> QED BY <1>1, Invariance, PTL

(* The model is called once for an operation, however many requests and    *)
(* servers there are (docs/architecture.md:199).                           *)
THEOREM OneThread == Spec => []OneThreadPerOperation
<1>1. IInv => OneThreadPerOperation
  BY DEF IInv, Claims
<1> QED BY <1>1, Invariance, PTL

(* A candidate has one verdict, whoever reviews it, and a fact exists      *)
(* exactly if that accepted it; with one server, it stays on record        *)
(* (review_ai_fact_candidate, operations.rs).                              *)
THEOREM DecisionsAreKept == Spec => []DecisionIsKept
<1>1. IInv => DecisionIsKept
  <2> SUFFICES ASSUME Sorted, Verdicts, Alone, NEW o \in Operation, NEW c \in Candidate
               PROVE LET decided == {e.decision[c] : e \in Snapshots(o)} \ {"none", "pending"} IN
                     /\ Cardinality(decided) <= 1
                     /\ IsFact(<<o, c>>) <=> decided \intersect {"accepted", "edited"} # {}
                     /\ decided # {} /\ ~overlapped => Current(o).decision[c] \in decided
    BY DEF IInv, DecisionIsKept
  <2> DEFINE decided == {e.decision[c] : e \in Snapshots(o)} \ {"none", "pending"}
  <2>1. \A e \in log : e.decision[c] \in Decisions /\ e.at \in Nat
    BY DEF Sorted, Types, Snapshot
  <2>2. \A v \in decided : \E e \in log : /\ e.op = o /\ e.decision[c] = v /\ v \in Verdict
                                          /\ e.status = "completed"
    BY <2>1 DEF Decisions, Verdict, Verdicts, Undecided, Snapshots
  <2>3. ASSUME NEW v \in decided, NEW w \in decided PROVE v = w
    <3>1. PICK e \in log : e.op = o /\ e.decision[c] = v /\ v \in Verdict /\ e.status = "completed"
      BY <2>2
    <3>2. PICK d \in log : d.op = o /\ d.decision[c] = w /\ w \in Verdict /\ d.status = "completed"
      BY <2>2
    <3>3. e.at <= d.at \/ d.at <= e.at
      BY <2>1
    <3> QED BY <3>1, <3>2, <3>3 DEF Verdicts
  <2>4. Cardinality(decided) <= 1
    <3>1. CASE decided = {}
      <4>1. Cardinality({}) = 0
        BY FS_EmptySet
      <4> HIDE DEF decided
      <4> QED BY <3>1, <4>1
    <3>2. CASE decided # {}
      <4>1. PICK v : v \in decided
        BY <3>2
      <4>2. decided = {v}
        BY <2>3, <4>1
      <4>3. Cardinality({v}) = 1
        BY FS_Singleton
      <4> HIDE DEF decided
      <4> QED BY <4>2, <4>3
    <3> QED BY <3>1, <3>2
  <2>5. IsFact(<<o, c>>) <=> decided \intersect {"accepted", "edited"} # {}
    <3>1. IsFact(<<o, c>>) <=> \E e \in log : e.op = o /\ e.decision[c] \in {"accepted", "edited"}
      BY DEF Verdicts
    <3>2. decided \intersect {"accepted", "edited"} # {} <=>
            \E e \in log : e.op = o /\ e.decision[c] \in {"accepted", "edited"}
      BY DEF Snapshots
    <3> QED BY <3>1, <3>2
  <2>6. ASSUME decided # {}, ~overlapped PROVE Current(o).decision[c] \in decided
    <3>1. PICK v : v \in decided
      BY <2>6
    <3>2. PICK e \in log : e.op = o /\ e.decision[c] = v /\ v \in Verdict /\ e.status = "completed"
      BY <2>2, <3>1
    <3>3. Claimed(o)
      BY <3>2 DEF Claimed, Snapshots
    <3>4. Current(o) \in log /\ Current(o).op = o /\ e.at <= Current(o).at
      BY <3>2, <3>3, CurrentIsLatest DEF Sorted
    <3>5. Current(o).status = "completed"
      BY <2>1, <2>6, <3>2, <3>4 DEF Alone, InStep
    <3>6. Current(o).decision[c] = v
      BY <3>2, <3>4, <3>5 DEF Verdicts
    <3> QED BY <3>1, <3>6
  <2> QED BY <2>4, <2>5, <2>6
<1> QED BY <1>1, Invariance, PTL
-------------------------------------------------------------------------------
(* The refinement.                                                         *)

Phase == [o \in Operation |-> Status(o)]

LEMMA PhaseOfAppend ==
  ASSUME Types', Times', NEW x \in Snapshot, NEW p \in Operation, x.op = p,
         log' = log \union {x}, \A e \in log : e.op = p => e.at <= x.at
  PROVE Phase' = [Phase EXCEPT ![p] = x.status]
<1>1. /\ Status(p)' = x.status
      /\ \A o \in Operation \ {p} : Status(o)' = Status(o)
  BY Appended
<1> QED BY <1>1 DEF Phase

(* Every step with one server is a step of the lifecycle, or none of it.   *)
LEMMA PhaseStep ==
  ASSUME IInv, IInv', ~overlapped', [Next]_vars
  PROVE R!Next \/ UNCHANGED Phase
<1>0. /\ Sorted /\ Types /\ Times /\ Claims /\ Verdicts /\ Types' /\ Times'
  BY DEF IInv, Sorted
<1>1. overlapped => overlapped'
  BY DEF Next, vars, store, history, JobStep, ServerStep, Ask, Claim, CreateThread, Record, Propose,
         Fail, AppendFails, Settle, Start, Interrupt, Serve, Kill, Review, Decide, UpdateFact
<1>2. InStep
  BY <1>1 DEF IInv, Alone
<1>3. CASE UNCHANGED log
  BY <1>3, StatusIsOfLog DEF Phase
<1>4. ASSUME NEW p \in Operation, NEW x \in Snapshot, x.op = p, log' = log \union {x},
             \A e \in log : e.op = p => e.at <= x.at,
             <<Status(p), x.status>> \in
               {<<"absent", "pending">>, <<"pending", "thread_created">>,
                <<"thread_created", "completed">>, <<"pending", "failed">>,
                <<"thread_created", "failed">>}
      PROVE R!Next
  <2>1. Phase' = [Phase EXCEPT ![p] = x.status]
    BY <1>0, <1>4, PhaseOfAppend
  <2>2. Phase[p] = Status(p)
    BY DEF Phase
  <2> QED BY <1>4, <2>1, <2>2 DEF R!Next, R!Becomes, Phase
<1>5. ASSUME NEW j \in Job, Claim(j), log' # log
      PROVE R!Next
  <2>1. PICK x \in Snapshot, p \in Operation : x = job[j].snap /\ x.op = p
    BY <1>0, <1>5, TaskIs DEF Claim, Steps, Snapshot
  <2>2. ~Claimed(p) /\ log' = log \union {x} /\ x.status = "pending"
    BY <1>0, <1>5, <2>1 DEF Claim, Verdicts, Stage, Steps
  <2>3. Status(p) = "absent" /\ \A e \in log : e.op # p
    BY <2>2 DEF Status, Claimed, Snapshots
  <2> QED BY <1>4, <2>1, <2>2, <2>3
<1>6. ASSUME NEW j \in Job, Record(j) \/ Settle(j)
      PROVE R!Next
  <2>1. PICK x \in Snapshot, p \in Operation : x = job[j].snap /\ x.op = p
    BY <1>0, <1>6, TaskIs DEF Record, Settle, Steps, Snapshot
  <2>2. UNCHANGED <<server, todo>> /\ log' = log \union {x}
    BY <1>6, <2>1 DEF Record, Settle
  <2>3. Status(p) \in Pending(job[j]) /\ \A e \in log : e.op = p => e.at <= x.at
    BY <1>0, <1>2, <1>6, <2>1, <2>2, InStepOfAppend
  <2>4. Stage(j) /\ job[j].pc \in {"record", "settle"}
    BY <1>0, <1>6 DEF Record, Settle, Verdicts, Steps
  <2>5. <<Status(p), x.status>> \in
          {<<"pending", "thread_created">>, <<"thread_created", "completed">>,
           <<"pending", "failed">>, <<"thread_created", "failed">>}
    BY <2>1, <2>3, <2>4 DEF Pending, Stage
  <2> QED BY <1>4, <2>1, <2>2, <2>3, <2>5
<1>7. ASSUME NEW s \in Server, Interrupt(s)
      PROVE R!Next \/ UNCHANGED Phase
  <2>1. PICK e \in todo[s] : log' = log \union {Stamped(e, "failed")}
    BY <1>7 DEF Interrupt
  <2>2. PICK x \in Snapshot, p \in Operation :
          /\ x = Stamped(e, "failed") /\ x.op = p /\ e.op = p /\ x.at = clock /\ x.status = "failed"
    BY <1>0, StampedIs DEF Statuses, Types, Snapshot
  <2>3. Claimed(p) /\ Unfinal(p)
    BY <1>2, <2>2 DEF InStep
  <2>4. Status(p) \in {"pending", "thread_created", "failed"}
    BY <1>0, <2>3, CurrentIsLatest DEF Status, Unfinal, Types, Snapshot
  <2>5. \A d \in log : d.op = p => d.at <= x.at
    BY <1>0, <2>2 DEF Times, Types, Snapshot
  <2>6. CASE Status(p) = "failed"
    <3>1. Phase' = [Phase EXCEPT ![p] = "failed"]
      BY <1>0, <2>1, <2>2, <2>5, PhaseOfAppend
    <3> QED BY <2>6, <3>1 DEF Phase
  <2>7. CASE Status(p) # "failed"
    BY <1>4, <2>1, <2>2, <2>4, <2>5, <2>7
  <2> QED BY <2>6, <2>7
<1>8. ASSUME NEW o \in Operation, NEW c \in Candidate, NEW d \in Verdict, Review(o, c, d)
      PROVE UNCHANGED Phase
  <2>1. /\ Status(o) = "completed" /\ Current(o).status = "completed"
        /\ Current(o) \in log /\ Current(o) \in Snapshot /\ Current(o).op = o
    BY <1>0, <1>8, CurrentIsLatest DEF Review, Reviewable, Status, Types
  <2> DEFINE y == [Current(o) EXCEPT !.at = clock, !.decision[c] = d]
  <2>2. y \in Snapshot /\ y.op = o /\ y.at = clock /\ y.status = "completed"
    BY <1>0, <2>1 DEF Snapshot, Decisions, Types, Verdict
  <2>3. PICK x \in Snapshot : x = y /\ x.op = o /\ x.at = clock /\ x.status = "completed"
    BY <2>2
  <2>4. log' = log \union {x}
    BY <1>8, <2>3 DEF Review, Decide
  <2>5. \A e \in log : e.op = o => e.at <= x.at
    BY <1>0, <2>3 DEF Times, Types, Snapshot
  <2>6. Phase' = [Phase EXCEPT ![o] = "completed"]
    BY <1>0, <2>3, <2>4, <2>5, PhaseOfAppend
  <2> QED BY <2>1, <2>6 DEF Phase
<1> QED BY <1>3, <1>5, <1>6, <1>7, <1>8 DEF Next, vars, store, JobStep, ServerStep, Verdict,
           Ask, CreateThread, Propose, Fail, AppendFails, Start, Serve, Kill, UpdateFact

(* With one review server at a time, whoever polls an operation sees it go *)
(* through the lifecycle, and never sees it change its mind.               *)
THEOREM Refinement == Spec => ImplementsLifecycle
<1>1. Init => R!Init
  <2> SUFFICES ASSUME Init PROVE Phase = [o \in Operation |-> "absent"]
    BY DEF R!Init, Phase
  <2>1. \A o \in Operation : Status(o) = "absent"
    BY DEF Init, Status, Claimed, Snapshots
  <2> QED BY <2>1 DEF Phase
<1>2. IInv /\ IInv' /\ [Next]_vars => [overlapped' \/ R!Next]_Phase
  BY PhaseStep
<1> QED BY <1>1, <1>2, Invariance, PTL DEF Spec, ImplementsLifecycle, Phase
===============================================================================
