-------------------------------- MODULE AiRefresh --------------------------------
(***************************************************************************)
(* The opt-in AI fact refresh (src/src/ai_refresh.rs, its store operations *)
(* in src/src/store/operations.rs and its handlers in src/src/server.rs):  *)
(* a request claims an operation, a background task of the review server   *)
(* runs one ephemeral thread for it, and the user reviews the candidates   *)
(* it proposes.  A review server that starts marks what it finds           *)
(* unfinished as interrupted; nothing keeps two servers from running.      *)
(*                                                                         *)
(* The record of an operation is a projection of the event log: the        *)
(* snapshot with the latest updated_at, a time that is taken before the    *)
(* lock of the store is.  An operation is identified by the verified pack  *)
(* it sends, for one task and one request id.  Content is kept as far as   *)
(* "as proposed" and "edited".                                             *)
(***************************************************************************)
EXTENDS Naturals, FiniteSets

CONSTANTS
  Server,        \* review server processes
  Job,           \* requests of the user, each served by a background task
  Fact,          \* facts the task has from the beginning
  Evidence, Verified,
  Candidate,     \* candidates of one operation
  NoFact,
  MaxAsks,       \* bound on requests
  MaxTroubles    \* bound on servers that end, appends the store refuses and
                 \* edits of facts, taken together

FactRow == [lifecycle : {"candidate", "confirmed", "pinned", "invalid"},
            content : {"user", "proposed", "edited"}, evidence : SUBSET Evidence]

ASSUME VerifiedAssumption == Verified \subseteq Evidence
ASSUME NoFactAssumption == NoFact \notin FactRow

VARIABLES
  log,           \* snapshots of operations in the event log
  facts,         \* fact projection
  job,           \* background tasks
  server,        \* "down", "recovering" or "serving"
  todo,          \* what a starting server still has to mark as interrupted
  clock,
  threads,       \* history: ephemeral threads started for an operation
  lost,          \* history: operations whose failure the store refused
  overlapped,    \* history: two servers were up at the same time
  asks, troubles

store == <<log, facts>>
history == <<threads, lost, overlapped>>
bounds == <<asks, troubles>>
vars == <<log, facts, job, server, todo, clock, threads, lost,
          overlapped, asks, troubles>>

Operation == SUBSET Fact
Proposed == Operation \X Candidate
Decisions == {"none", "pending", "accepted", "edited", "rejected"}
Snapshot == [op : Operation, at : Nat,
             status : {"pending", "thread_created", "completed", "failed"},
             decision : [Candidate -> Decisions]]
Idle == [pc |-> "idle"]
IsFact(f) == facts[f] # NoFact

Init ==
  /\ log = {}
  /\ facts \in [Fact \union Proposed ->
                  {NoFact} \union [lifecycle : {"confirmed"}, content : {"user"},
                                   evidence : SUBSET Evidence]]
  /\ \A f \in Fact : IsFact(f)
  /\ \A f \in Proposed : ~IsFact(f)
  /\ job = [j \in Job |-> Idle]
  /\ server = [s \in Server |-> "down"]
  /\ todo = [s \in Server |-> {}]
  /\ clock = 0
  /\ threads = [o \in Operation |-> 0]
  /\ lost = {} /\ overlapped = FALSE
  /\ asks = 0 /\ troubles = 0
-------------------------------------------------------------------------------
(* The projection.                                                         *)

Snapshots(o) == {e \in log : e.op = o}
Claimed(o) == Snapshots(o) # {}
Current(o) == CHOOSE e \in Snapshots(o) : \A d \in Snapshots(o) : d.at <= e.at
Status(o) == IF Claimed(o) THEN Current(o).status ELSE "absent"
Unfinished == {Current(o) : o \in {p \in Operation : Status(p) \in {"pending", "thread_created"}}}

(* A fact without evidence, or with any that is not verified, is not sent. *)
Sendable(f) ==
  /\ facts[f].lifecycle \in {"confirmed", "pinned"}
  /\ facts[f].evidence # {} /\ facts[f].evidence \subseteq Verified
Pack == {f \in {g \in DOMAIN facts : IsFact(g)} : Sendable(f)}

(* Faulty: the time of the claim is kept. *)
StampedAsBefore(e, status) == [e EXCEPT !.status = status]

(* updated_at is taken. *)
Stamped(e, status) == [e EXCEPT !.at = clock, !.status = status]
Tick == clock' = clock + 1

Trouble ==
  /\ troubles < MaxTroubles
  /\ troubles' = troubles + 1
-------------------------------------------------------------------------------
(* The background task of one request.                                     *)

Ask(j, s) ==
  /\ job[j] = Idle /\ server[s] = "serving" /\ asks < MaxAsks
  /\ asks' = asks + 1
  /\ job' = [job EXCEPT ![j] =
               [pc |-> "claim", server |-> s,
                snap |-> [op |-> Pack, at |-> clock, status |-> "pending",
                          decision |-> [c \in Candidate |-> "none"]]]]
  /\ Tick
  /\ UNCHANGED <<store, server, todo, history, troubles>>

(* Faulty: the claim is not looked up. *)
ClaimAnyway(j) ==
  /\ job[j].pc = "claim"
  /\ log' = log \union {job[j].snap}
  /\ job' = [job EXCEPT ![j].pc = "run"]
  /\ UNCHANGED <<facts, server, todo, clock, history, bounds>>

(* An operation that exists is answered as it is, and not run again. *)
Claim(j) ==
  /\ job[j].pc = "claim"
  /\ IF Claimed(job[j].snap.op)
     THEN /\ job' = [job EXCEPT ![j] = Idle]
          /\ UNCHANGED log
     ELSE /\ log' = log \union {job[j].snap}
          /\ job' = [job EXCEPT ![j].pc = "run"]
  /\ UNCHANGED <<facts, server, todo, clock, history, bounds>>

(* The checks of manifest, profile and directory have passed. *)
CreateThread(j) ==
  /\ job[j].pc = "run"
  /\ threads' = [threads EXCEPT ![job[j].snap.op] = @ + 1]
  /\ job' = [job EXCEPT ![j].pc = "record", ![j].snap = Stamped(@, "thread_created")]
  /\ Tick
  /\ UNCHANGED <<store, server, todo, lost, overlapped, bounds>>

Record(j) ==
  /\ job[j].pc = "record"
  /\ log' = log \union {job[j].snap}
  /\ job' = [job EXCEPT ![j].pc = "turn"]
  /\ UNCHANGED <<facts, server, todo, clock, history, bounds>>

(* The output parses; it may propose any of the candidates. *)
Propose(j) ==
  /\ job[j].pc = "turn"
  /\ \E proposed \in SUBSET Candidate :
       job' = [job EXCEPT ![j].pc = "settle",
                 ![j].snap = [Stamped(@, "completed") EXCEPT !.decision =
                                [c \in Candidate |-> IF c \in proposed THEN "pending" ELSE "none"]]]
  /\ Tick
  /\ UNCHANGED <<store, server, todo, history, bounds>>

(* An error, malformed output, or the 45 seconds are over. *)
Fail(j) ==
  /\ job[j].pc \in {"run", "turn"}
  /\ job' = [job EXCEPT ![j].pc = "settle", ![j].snap = Stamped(@, "failed")]
  /\ Tick
  /\ UNCHANGED <<store, server, todo, history, bounds>>

Settle(j) ==
  /\ job[j].pc = "settle"
  /\ log' = log \union {job[j].snap}
  /\ job' = [job EXCEPT ![j] = Idle]
  /\ UNCHANGED <<facts, server, todo, clock, history, bounds>>

(* The store refuses the append: the failure itself is appended, once.     *)
AppendFails(j) ==
  /\ job[j].pc \in {"record", "settle"} /\ Trouble
  /\ IF job[j].snap.status = "failed"
     THEN /\ job' = [job EXCEPT ![j] = Idle]
          /\ lost' = lost \union {job[j].snap.op}
     ELSE /\ job' = [job EXCEPT ![j].pc = "settle", ![j].snap = Stamped(@, "failed")]
          /\ UNCHANGED lost
  /\ Tick
  /\ UNCHANGED <<store, server, todo, threads, overlapped, asks>>

JobStep(j) ==
  \/ Claim(j) \/ CreateThread(j) \/ Record(j) \/ Propose(j) \/ Fail(j) \/ Settle(j)
-------------------------------------------------------------------------------
(* The review server.                                                      *)

(* Faulty: every operation is listed. *)
StartAgain(s) ==
  /\ server[s] = "down"
  /\ server' = [server EXCEPT ![s] = "recovering"]
  /\ todo' = [todo EXCEPT ![s] = {Current(o) : o \in {p \in Operation : Claimed(p)}}]
  /\ overlapped' = (overlapped \/ \E t \in Server : server[t] # "down")
  /\ UNCHANGED <<store, job, clock, threads, lost, bounds>>

(* recover_interrupted_operations lists once ... *)
Start(s) ==
  /\ server[s] = "down"
  /\ server' = [server EXCEPT ![s] = "recovering"]
  /\ todo' = [todo EXCEPT ![s] = Unfinished]
  /\ overlapped' = (overlapped \/ \E t \in Server : server[t] # "down")
  /\ UNCHANGED <<store, job, clock, threads, lost, bounds>>

(* Faulty: an operation whose thread exists is left to its task. *)
InterruptPending(s) ==
  /\ server[s] = "recovering"
  /\ \E e \in todo[s] :
       /\ log' = log \union (IF e.status = "pending" THEN {Stamped(e, "failed")} ELSE {})
       /\ todo' = [todo EXCEPT ![s] = @ \ {e}]
  /\ Tick
  /\ UNCHANGED <<facts, job, server, history, bounds>>

(* ... and appends one failure after the other. *)
Interrupt(s) ==
  /\ server[s] = "recovering"
  /\ \E e \in todo[s] :
       /\ log' = log \union {Stamped(e, "failed")}
       /\ todo' = [todo EXCEPT ![s] = @ \ {e}]
  /\ Tick
  /\ UNCHANGED <<facts, job, server, history, bounds>>

Serve(s) ==
  /\ server[s] = "recovering" /\ todo[s] = {}
  /\ server' = [server EXCEPT ![s] = "serving"]
  /\ UNCHANGED <<store, job, todo, clock, history, bounds>>

(* The tasks of a server end with it. *)
Kill(s) ==
  /\ server[s] # "down" /\ Trouble
  /\ server' = [server EXCEPT ![s] = "down"]
  /\ todo' = [todo EXCEPT ![s] = {}]
  /\ job' = [j \in Job |-> IF job[j] # Idle /\ job[j].server = s THEN Idle ELSE job[j]]
  /\ UNCHANGED <<store, clock, history, asks>>

ServerStep(s) == Interrupt(s) \/ Serve(s)
-------------------------------------------------------------------------------
(* The user.                                                               *)

Content(decision) == IF decision = "edited" THEN "edited" ELSE "proposed"

(* Accepting a candidate makes a fact of it that has no evidence. *)
Decide(o, c, decision) ==
  /\ log' = log \union {[Current(o) EXCEPT !.at = clock, !.decision[c] = decision]}
  /\ facts' = IF decision = "rejected" THEN facts
              ELSE [facts EXCEPT ![<<o, c>>] =
                      [lifecycle |-> "candidate", content |-> Content(decision), evidence |-> {}]]
  /\ Tick
  /\ UNCHANGED <<job, server, todo, history, bounds>>

Reviewable(o, c) ==
  /\ \E s \in Server : server[s] = "serving"
  /\ Status(o) = "completed"

(* Faulty: the decision of another window is overruled. *)
ReviewAgain(o, c, decision) ==
  /\ Reviewable(o, c)
  /\ Current(o).decision[c] # "none"
  /\ Decide(o, c, decision)

(* Only a pending candidate is decided; a repetition is answered with what *)
(* the first review made of it, and a different one is refused.            *)
Review(o, c, decision) ==
  /\ Reviewable(o, c)
  /\ Current(o).decision[c] = "pending"
  /\ Decide(o, c, decision)

(* The user confirms, pins or invalidates a fact; the evidence stays.      *)
UpdateFact(f, lifecycle) ==
  /\ \E s \in Server : server[s] = "serving"
  /\ IsFact(f) /\ Trouble
  /\ facts' = [facts EXCEPT ![f].lifecycle = lifecycle]
  /\ UNCHANGED <<log, job, server, todo, clock, history, asks>>
-------------------------------------------------------------------------------
Next ==
  \/ \E j \in Job : JobStep(j) \/ AppendFails(j) \/ \E s \in Server : Ask(j, s)
  \/ \E s \in Server : Start(s) \/ Kill(s) \/ ServerStep(s)
  \/ \E o \in Operation, c \in Candidate, d \in {"accepted", "edited", "rejected"} : Review(o, c, d)
  \/ \E f \in Fact \union Proposed, l \in {"pinned", "invalid"} : UpdateFact(f, l)

Spec == Init /\ [][Next]_vars

(* Tasks and recoveries that are not killed go on.                         *)
FairSpec == Spec /\ (\A j \in Job : WF_vars(JobStep(j))) /\ \A s \in Server : WF_vars(ServerStep(s))
-------------------------------------------------------------------------------
(* Properties.                                                             *)

(* Every variable stays in its range. *)
TypeOK ==
  /\ log \subseteq Snapshot
  /\ \A e, d \in log : e.op = d.op /\ e.at = d.at => e = d
  /\ facts \in [Fact \union Proposed -> {NoFact} \union FactRow]
  /\ \A j \in Job : job[j] # Idle =>
       job[j].pc \in {"claim", "run", "record", "turn", "settle"} /\ job[j].snap \in Snapshot
  /\ server \in [Server -> {"down", "recovering", "serving"}]
  /\ \A s \in Server : todo[s] \subseteq Snapshot
  /\ clock \in Nat

(* architecture.md:199: however many windows and servers ask for the same  *)
(* refresh, the model is called once.                                      *)
OneThreadPerOperation == \A o \in Operation : threads[o] <= 1

(* Two windows that review a candidate never decide it differently, what   *)
(* was decided stays in the record, and a fact exists exactly for an       *)
(* accepted candidate.                                                     *)
DecisionIsKept ==
  \A o \in Operation, c \in Candidate :
    LET decided == {e.decision[c] : e \in Snapshots(o)} \ {"none", "pending"} IN
    /\ Cardinality(decided) <= 1
    /\ IsFact(<<o, c>>) <=> decided \intersect {"accepted", "edited"} # {}
    /\ decided # {} /\ ~overlapped => Current(o).decision[c] \in decided

R == INSTANCE RefreshLifecycle WITH phase <- [o \in Operation |-> Status(o)]

(* With one review server the record has the states of the lifecycle.      *)
ImplementsLifecycle == R!Init /\ [][overlapped' \/ R!Next]_[o \in Operation |-> Status(o)]

(* If a server that ended is started again, every operation is finished,   *)
(* unless the store did not even take the record of its failure.           *)
EveryRefreshSettles ==
  (\A s \in Server : []<>(server[s] = "serving"))
    => \A o \in Operation :
         Status(o) \in {"pending", "thread_created"}
           ~> Status(o) \in {"completed", "failed"} \/ o \in lost
===============================================================================
