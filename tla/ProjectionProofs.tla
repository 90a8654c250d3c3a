---------------------------- MODULE ProjectionProofs ----------------------------
(***************************************************************************)
(* Proofs about Projection, for any sessions, requests and bounds.         *)
(*                                                                         *)
(* Replay is a fold, and a fold is the CHOOSE of a recursive function.     *)
(* That the function exists, that only one does, and what it is on a part  *)
(* of the log are shown by contradiction from a smallest set of events for *)
(* which it goes wrong (SmallestSet): sets of events are finite, so they   *)
(* are well-founded under inclusion.  Three lemmas are what the rest uses: *)
(* ReplayUnfolds (the latest event is applied last), ReplayPreserves (what *)
(* every event preserves, a replay has) and ReplaysRelate (the same of the *)
(* replays of a log and of a part of it).                                  *)
(*                                                                         *)
(* The inductive invariant IInv then says who holds which time: an event   *)
(* that waits to be stored has a time that no stored event has, or is the  *)
(* statement beside its prompt.  So whatever is stored has a place of its  *)
(* own, and both ways of projecting it lead to the tables of a replay.     *)
(***************************************************************************)
EXTENDS Projection, FiniteSetTheorems, WellFoundedInduction, TLAPS

-------------------------------------------------------------------------------
(* What a replay computes.                                                 *)

(* A smallest set among sets of events: what proofs about a replay start   *)
(* from, as the first one that goes wrong.                                 *)
LEMMA SmallestSet ==
  ASSUME NEW S, IsFiniteSet(S), NEW B \in SUBSET SUBSET S, B # {}
  PROVE  \E T \in B : \A U \in B : U \subseteq T => U = T
<1>1. IsWellFoundedOn(StrictSubsetOrdering(S), SUBSET S)
  BY FS_StrictSubsetOrderingWellFounded, FS_FiniteSubsetsOfFinite
<1>2. PICK T \in B : \A U \in B : ~ (<<U, T>> \in StrictSubsetOrdering(S))
  BY <1>1, WFMin
<1>3. ASSUME NEW U \in B, U \subseteq T, U # T PROVE FALSE
  <2>1. <<U, T>> \in (SUBSET S) \X (SUBSET S)
    OBVIOUS
  <2> QED
    BY <1>2, <1>3, <2>1 DEF StrictSubsetOrdering
<1> QED
  BY <1>3

Timed(S) == \A e \in S : e.at \in Nat /\ e.tie \in Nat

(* Every set of events has a latest one.                                   *)
LEMMA LatestIsIn ==
  ASSUME NEW S, IsFiniteSet(S), S # {}, Timed(S)
  PROVE  Latest(S) \in S /\ \A d \in S : ~Before(Latest(S), d)
<1> DEFINE Last(T) == \E e \in T : \A d \in T : ~Before(e, d)
           B == {T \in SUBSET S : T # {} /\ ~Last(T)}
<1>1. SUFFICES Last(S)
  BY DEF Latest
<1>2. SUFFICES ASSUME B # {} PROVE FALSE
  OBVIOUS
<1>3. PICK T \in B : \A U \in B : U \subseteq T => U = T
  <2> HIDE DEF B
  <2>1. B \in SUBSET SUBSET S
    BY DEF B
  <2> QED
    BY <1>2, <2>1, SmallestSet
<1>4. PICK x \in T : TRUE
  OBVIOUS
<1>5. \A d \in S : d.at \in Nat /\ d.tie \in Nat
  BY DEF Timed
<1>6. ~Before(x, x) /\ \A d, e \in S : Before(d, e) /\ Before(e, x) => Before(d, x)
  BY <1>4, <1>5 DEF Before
<1>7. T \ {x} # {}
  <2>1. T # {x}
    BY <1>6
  <2> QED
    BY <1>4, <2>1
<1>8. PICK m \in T \ {x} : \A d \in T \ {x} : ~Before(m, d)
  <2>1. T \ {x} \notin B
    BY <1>3, <1>4
  <2> QED
    BY <1>7, <2>1
<1>9. CASE ~Before(m, x)
  BY <1>8, <1>9
<1>10. CASE Before(m, x)
  <2>1. \A d \in T : Before(x, d) => Before(m, d)
    BY <1>5, <1>10 DEF Before
  <2>2. \A d \in T : ~Before(x, d)
    BY <1>6, <1>8, <2>1
  <2> QED
    BY <2>2
<1> QED
  BY <1>9, <1>10

IsReplay(F, S) ==
  F = [s \in SUBSET S |-> IF s = {} THEN EmptyTables
                          ELSE Apply(F[s \ {Latest(s)}], Latest(s))]

LEMMA ReplayDef ==
  ASSUME NEW S
  PROVE  Replay(S) = (CHOOSE F : IsReplay(F, S))[S]
BY DEF Replay, MapThenFoldSet, IsReplay

(* A replay of part of the log does not depend on the rest.                *)
LEMMA ReplayRestricts ==
  ASSUME NEW S, NEW F, IsReplay(F, S), NEW T \in SUBSET S
  PROVE  IsReplay([s \in SUBSET T |-> F[s]], T)
<1> DEFINE G == [s \in SUBSET T |-> F[s]]
           V(H, s) == IF s = {} THEN EmptyTables ELSE Apply(H[s \ {Latest(s)}], Latest(s))
<1>1. ASSUME NEW s \in SUBSET T PROVE F[s] = V(G, s)
  <2>1. s \ {Latest(s)} \in SUBSET T /\ s \in SUBSET S
    OBVIOUS
  <2>2. F[s] = V(F, s)
    BY <2>1 DEF IsReplay
  <2>3. G[s \ {Latest(s)}] = F[s \ {Latest(s)}]
    BY <2>1
  <2> QED
    BY <2>2, <2>3
<1>2. G = [s \in SUBSET T |-> V(G, s)]
  BY <1>1
<1> QED
  BY <1>2 DEF IsReplay

LEMMA ReplayUnique ==
  ASSUME NEW S, IsFiniteSet(S), Timed(S), NEW F, NEW G, IsReplay(F, S), IsReplay(G, S)
  PROVE  F = G
<1> DEFINE B == {s \in SUBSET S : F[s] # G[s]}
<1>1. SUFFICES ASSUME B # {} PROVE FALSE
  BY DEF IsReplay
<1>2. PICK T \in B : \A U \in B : U \subseteq T => U = T
  <2> HIDE DEF B
  <2>1. B \in SUBSET SUBSET S
    BY DEF B
  <2> QED
    BY <1>1, <2>1, SmallestSet
<1>3. CASE T = {}
  BY <1>3 DEF IsReplay
<1>4. CASE T # {}
  <2>1. Latest(T) \in T
    BY <1>4, LatestIsIn, FS_Subset DEF Timed
  <2>2. F[T \ {Latest(T)}] = G[T \ {Latest(T)}]
    BY <1>2, <2>1
  <2>3. /\ F[T] = Apply(F[T \ {Latest(T)}], Latest(T))
        /\ G[T] = Apply(G[T \ {Latest(T)}], Latest(T))
    BY <1>4 DEF IsReplay
  <2> QED
    BY <2>2, <2>3
<1> QED
  BY <1>3, <1>4

LEMMA ReplayExists ==
  ASSUME NEW S, IsFiniteSet(S), Timed(S)
  PROVE  \E F : IsReplay(F, S)
<1> DEFINE B == {s \in SUBSET S : ~ \E F : IsReplay(F, s)}
<1>1. SUFFICES ASSUME B # {} PROVE FALSE
  BY DEF IsReplay
<1>2. PICK T \in B : \A U \in B : U \subseteq T => U = T
  <2> HIDE DEF B
  <2>1. B \in SUBSET SUBSET S
    BY DEF B
  <2> QED
    BY <1>1, <2>1, SmallestSet
<1> DEFINE R(s) == CHOOSE F : IsReplay(F, s)
<1>3. ASSUME NEW s \in SUBSET T, s # T PROVE IsReplay(R(s), s)
  <2>1. \E F : IsReplay(F, s)
    BY <1>2, <1>3
  <2> QED
    BY <2>1
<1>4. ASSUME NEW s \in SUBSET T, s # T, NEW u \in SUBSET s PROVE R(s)[u] = R(u)[u]
  <2>1. IsReplay(R(s), s) /\ IsReplay(R(u), u)
    BY <1>3, <1>4
  <2>2. IsReplay([v \in SUBSET u |-> R(s)[v]], u)
    BY <2>1, ReplayRestricts
  <2>3. IsFiniteSet(u) /\ Timed(u)
    BY FS_Subset DEF Timed
  <2>4. [v \in SUBSET u |-> R(s)[v]] = R(u)
    BY <2>1, <2>2, <2>3, ReplayUnique
  <2>5. [v \in SUBSET u |-> R(s)[v]][u] = R(s)[u]
    OBVIOUS
  <2> QED
    BY <2>4, <2>5
<1> DEFINE V(s) == IF s = {} THEN EmptyTables
                   ELSE Apply(R(s \ {Latest(s)})[s \ {Latest(s)}], Latest(s))
           G == [s \in SUBSET T |-> V(s)]
<1>5. ASSUME NEW s \in SUBSET T, s # {} PROVE s \ {Latest(s)} # T /\ s \ {Latest(s)} \in SUBSET T
  <2>1. Latest(s) \in s
    BY <1>5, LatestIsIn, FS_Subset DEF Timed
  <2> QED
    BY <2>1
<1>6. ASSUME NEW u \in SUBSET T, u # T PROVE V(u) = R(u)[u]
  <2>1. IsReplay(R(u), u)
    BY <1>3, <1>6
  <2>2. CASE u = {}
    BY <2>1, <2>2 DEF IsReplay
  <2>3. CASE u # {}
    <3>1. u \ {Latest(u)} \in SUBSET u
      OBVIOUS
    <3>2. R(u)[u \ {Latest(u)}] = R(u \ {Latest(u)})[u \ {Latest(u)}]
      BY <1>4, <1>6, <3>1
    <3>3. R(u)[u] = Apply(R(u)[u \ {Latest(u)}], Latest(u))
      BY <2>1, <2>3 DEF IsReplay
    <3> QED
      BY <2>3, <3>2, <3>3
  <2> QED
    BY <2>2, <2>3
<1> DEFINE W(s) == IF s = {} THEN EmptyTables ELSE Apply(G[s \ {Latest(s)}], Latest(s))
<1>7. ASSUME NEW s \in SUBSET T PROVE V(s) = W(s)
  <2>1. CASE s # {}
    <3>1. G[s \ {Latest(s)}] = R(s \ {Latest(s)})[s \ {Latest(s)}]
      BY <1>5, <1>6, <2>1
    <3> QED
      BY <2>1, <3>1
  <2> QED
    BY <2>1
<1>8. G = [s \in SUBSET T |-> W(s)]
  <2> HIDE DEF V, W
  <2> QED
    BY <1>7
<1>9. IsReplay(G, T)
  BY <1>8 DEF IsReplay
<1> QED
  BY <1>2, <1>9

(* The replay of a log, one event at a time.                               *)
LEMMA ReplayUnfolds ==
  ASSUME NEW S, IsFiniteSet(S), Timed(S), S # {}
  PROVE  Replay(S) = Apply(Replay(S \ {Latest(S)}), Latest(S))
<1> DEFINE R(s) == CHOOSE F : IsReplay(F, s)
           T == S \ {Latest(S)}
<1>1. IsReplay(R(S), S)
  BY ReplayExists
<1>2. IsFiniteSet(T) /\ Timed(T)
  BY FS_Subset DEF Timed
<1>3. IsReplay(R(T), T)
  BY <1>2, ReplayExists
<1>4. IsReplay([s \in SUBSET T |-> R(S)[s]], T)
  BY <1>1, ReplayRestricts
<1>5. [s \in SUBSET T |-> R(S)[s]] = R(T)
  BY <1>2, <1>3, <1>4, ReplayUnique
<1>6. R(T)[T] = R(S)[T]
  <2>1. [s \in SUBSET T |-> R(S)[s]][T] = R(S)[T]
    OBVIOUS
  <2> QED
    BY <1>5, <2>1
<1>7. R(S)[S] = Apply(R(S)[T], Latest(S))
  BY <1>1 DEF IsReplay
<1> QED
  BY <1>6, <1>7, ReplayDef

LEMMA ReplayOfNothing == Replay({}) = EmptyTables
<1>1. IsFiniteSet({}) /\ Timed({})
  BY FS_EmptySet DEF Timed
<1>2. IsReplay(CHOOSE F : IsReplay(F, {}), {})
  BY <1>1, ReplayExists
<1> QED
  BY <1>2, ReplayDef DEF IsReplay

(* What every step of a replay preserves, the replay has.                  *)
LEMMA ReplayPreserves ==
  ASSUME NEW S, IsFiniteSet(S), Timed(S), NEW G, EmptyTables \in G,
         \A e \in S, t \in G : Apply(t, e) \in G
  PROVE  Replay(S) \in G
<1> DEFINE B == {s \in SUBSET S : Replay(s) \notin G}
<1>1. SUFFICES ASSUME B # {} PROVE FALSE
  OBVIOUS
<1>2. PICK T \in B : \A U \in B : U \subseteq T => U = T
  <2> HIDE DEF B
  <2>1. B \in SUBSET SUBSET S
    BY DEF B
  <2> QED
    BY <1>1, <2>1, SmallestSet
<1>3. T # {} /\ IsFiniteSet(T) /\ Timed(T)
  BY FS_Subset, ReplayOfNothing DEF Timed
<1>4. Latest(T) \in T
  BY <1>3, LatestIsIn
<1>5. Replay(T \ {Latest(T)}) \in G
  BY <1>2, <1>4
<1>6. Replay(T) \in G
  BY <1>3, <1>4, <1>5, ReplayUnfolds
<1> QED
  BY <1>6

(* An event later than all others is applied last.                         *)
LEMMA ReplayAppends ==
  ASSUME NEW S, IsFiniteSet(S), NEW e, e \notin S, Timed(S \union {e}),
         \A d \in S : Before(d, e)
  PROVE  Replay(S \union {e}) = Apply(Replay(S), e)
<1> DEFINE T == S \union {e}
<1>1. IsFiniteSet(T)
  BY FS_AddElement
<1>2. Latest(T) \in T /\ ~Before(Latest(T), e)
  BY <1>1, LatestIsIn
<1>3. Latest(T) = e /\ T \ {e} = S
  BY <1>2
<1> QED
  BY <1>1, <1>3, ReplayUnfolds
-------------------------------------------------------------------------------
(* The rows and the events.                                                *)

Sessions == [Session -> Task \union {None}]
Tables ==
  [ok : BOOLEAN, session : Sessions, owned : Sessions, assigned : Sessions,
   task : [Task -> Lifecycle \union {None}], fact : [Task -> {None} \union Fact]]

OpOf(ids, actions) ==
  [id : ids, action : actions, sessions : SUBSET Session, from : Task, to : Task,
   facts : SUBSET Task, task : Task \union {None}, before : Lifecycle \union {None},
   after : Lifecycle \union {None}, at : Nat]
Op == OpOf(Request, {"move", "merge", "split"}) \union OpOf({Undo(o) : o \in Request}, {"undo"})

HookEvent == [kind : {"hook"}, at : Nat, tie : {1}, session : Session, task : Task, fresh : BOOLEAN]
FactEvent == [kind : {"fact"}, at : Nat, tie : 0..2, session : Session, task : Task,
              fact : Task, lifecycle : FactLifecycle, stated : BOOLEAN]
TaskEvent == [kind : {"task"}, at : Nat, tie : {1}, task : Task, lifecycle : Lifecycle]
GroupingEvent == [kind : {"grouping"}, at : Nat, tie : {0}, op : Op]
Event == HookEvent \union FactEvent \union TaskEvent \union GroupingEvent

LEMMA EventsAreTimed == ASSUME NEW S \in SUBSET Event PROVE Timed(S)
BY DEF Timed, Event, HookEvent, FactEvent, TaskEvent, GroupingEvent

LEMMA EmptyIsTyped == EmptyTables \in Tables
BY DEF EmptyTables, Tables, Sessions

LEMMA EffectiveIsTask ==
  ASSUME NEW t \in Tables, NEW e \in HookEvent \union FactEvent
  PROVE  Effective(t, e) \in Task
BY DEF Tables, Sessions, HookEvent, FactEvent, Effective

LEMMA EnsureTyped ==
  ASSUME NEW t \in Tables, NEW s \in Session, NEW task \in Task, NEW fresh
  PROVE  EnsureTask(EnsureSession(t, s, task), task, fresh) \in Tables
BY DEF Tables, Sessions, EnsureTask, EnsureSession, Lifecycle

(* The tables after the moves of an operation, and after all of it.        *)
Created(t, op) == IF op.action = "split" THEN [t EXCEPT !.task[op.task] = op.after] ELSE t
MovedSessions(t, op) == [s \in Session |-> IF s \in op.sessions THEN op.to ELSE t.session[s]]
MovedEvidence(t, op) ==
  [s \in Session |-> IF s \in op.sessions /\ t.owned[s] # None THEN op.to ELSE t.owned[s]]
MovedFacts(t, op) ==
  [f \in Task |-> IF f \in op.facts /\ t.fact[f] # None
                  THEN [t.fact[f] EXCEPT !.task = op.to] ELSE t.fact[f]]
Moved(t, op) ==
  [Created(t, op) EXCEPT !.session = MovedSessions(t, op), !.assigned = Assign(t, op),
                         !.owned = MovedEvidence(t, op), !.fact = MovedFacts(t, op)]

LEMMA MovedIsTyped ==
  ASSUME NEW t \in Tables, NEW op \in Op
  PROVE  Created(t, op) \in Tables /\ Moved(t, op) \in Tables
<1>1. Created(t, op) \in Tables
  BY DEF Created, Op, OpOf, Tables
<1>2. MovedSessions(t, op) \in Sessions /\ MovedEvidence(t, op) \in Sessions
  BY DEF MovedSessions, MovedEvidence, Sessions, Tables, Op, OpOf
<1>3. Assign(t, op) \in Sessions
  BY DEF Assign, Sessions, Tables, Op, OpOf
<1>4. MovedFacts(t, op) \in [Task -> {None} \union Fact]
  <2>1. \A f \in Task : t.fact[f] \in {None} \union Fact
    BY DEF Tables
  <2>2. op.to \in Task
    BY DEF Op, OpOf
  <2> QED
    BY <2>1, <2>2 DEF MovedFacts, Fact
<1>5. Moved(t, op) \in Tables
  BY <1>1, <1>2, <1>3, <1>4 DEF Moved, Tables
<1> QED
  BY <1>1, <1>5

LEMMA ApplyGroupingDef ==
  ASSUME NEW t \in Tables, NEW op \in Op
  PROVE  ApplyGrouping(t, op) =
           CASE \E s \in op.sessions : t.session[s] = None -> Failed(t)
             [] op.task # None /\ op.after # None /\ Moved(t, op).task[op.task] = None -> Failed(t)
             [] OTHER -> IF op.task = None THEN Moved(t, op)
                         ELSE [Moved(t, op) EXCEPT !.task[op.task] = op.after]
<1> DEFINE c == Created(t, op)
<1>1. /\ c.session = t.session /\ c.owned = t.owned /\ c.fact = t.fact
      /\ DOMAIN c = DOMAIN t
  BY DEF Created, Tables
<1>2. Moved(t, op) = [c EXCEPT
        !.session = [s \in Session |-> IF s \in op.sessions THEN op.to ELSE @[s]],
        !.assigned = Assign(t, op),
        !.owned = [s \in Session |-> IF s \in op.sessions /\ @[s] # None THEN op.to ELSE @[s]],
        !.fact = [f \in Task |-> IF f \in op.facts /\ @[f] # None
                                 THEN [@[f] EXCEPT !.task = op.to] ELSE @[f]]]
  BY <1>1 DEF Moved, MovedSessions, MovedEvidence, MovedFacts
<1> QED
  BY <1>2 DEF ApplyGrouping, Created

LEMMA GroupingIsTyped ==
  ASSUME NEW t \in Tables, NEW op \in Op
  PROVE  ApplyGrouping(t, op) \in Tables
<1>1. Failed(t) \in Tables
  BY DEF Failed, Tables
<1>2. Moved(t, op) \in Tables
  BY MovedIsTyped
<1>3. op.task # None => [Moved(t, op) EXCEPT !.task[op.task] = op.after] \in Tables
  BY <1>2 DEF Tables, Op, OpOf
<1> QED
  BY <1>1, <1>2, <1>3, ApplyGroupingDef

LEMMA ApplyIsTyped ==
  ASSUME NEW t \in Tables, NEW e \in Event
  PROVE  Apply(t, e) \in Tables
<1>1. CASE ~t.ok
  BY <1>1 DEF Apply
<1>2. CASE t.ok /\ e \in HookEvent
  BY <1>2, EffectiveIsTask, EnsureTyped DEF Apply, ApplyHook, HookEvent
<1>3. CASE t.ok /\ e \in FactEvent
  <2> DEFINE u == EnsureTask(EnsureSession(t, e.session, Effective(t, e)), Effective(t, e), FALSE)
  <2>1. Effective(t, e) \in Task /\ u \in Tables
    BY <1>3, EffectiveIsTask, EnsureTyped DEF FactEvent
  <2>2. ApplyFact(t, e) \in Tables
    <3> DEFINE row == [task |-> Effective(t, e), by |-> e.session, lifecycle |-> e.lifecycle]
               facts == [u.fact EXCEPT ![e.fact] = row]
               owned == [u.owned EXCEPT ![e.session] = IF e.stated THEN Effective(t, e) ELSE @]
    <3>1. ApplyFact(t, e) = [u EXCEPT !.fact = facts, !.owned = owned]
      <4> HIDE DEF u
      <4> QED
        BY <2>1 DEF ApplyFact, u, Tables
    <3> HIDE DEF u
    <3>2. facts \in [Task -> {None} \union Fact]
      BY <1>3, <2>1 DEF Tables, FactEvent, Fact
    <3>3. owned \in Sessions
      BY <1>3, <2>1 DEF Tables, FactEvent, Sessions
    <3> HIDE DEF facts, owned
    <3> QED
      BY <2>1, <3>1, <3>2, <3>3 DEF Tables
  <2> QED
    BY <1>3, <2>2 DEF Apply, FactEvent
<1>4. CASE t.ok /\ e \in TaskEvent
  BY <1>4 DEF Apply, ApplyTask, Tables, TaskEvent
<1>5. CASE t.ok /\ e \in GroupingEvent
  <2> DEFINE op == e.op
  <2>1. op \in Op
    BY <1>5 DEF GroupingEvent
  <2>2. ApplyGrouping(t, op) \in Tables
    BY <2>1, GroupingIsTyped
  <2> QED
    BY <1>5, <2>2 DEF Apply, GroupingEvent
<1> QED
  BY <1>1, <1>2, <1>3, <1>4, <1>5 DEF Event

(* Grouping is authoritative in every replay.                              *)
Authoritative(t) ==
  \A s \in Session : t.assigned[s] # None =>
    t.session[s] = t.assigned[s] /\ t.owned[s] \in {None, t.assigned[s]}
Grouped == {t \in Tables : Authoritative(t)}

LEMMA EnsureKeeps ==
  ASSUME NEW t \in Tables, NEW s \in Session, NEW task \in Task, NEW fresh
  PROVE  LET u == EnsureTask(EnsureSession(t, s, task), task, fresh)
         IN  /\ u.session = [t.session EXCEPT ![s] = task]
             /\ u.owned = t.owned /\ u.assigned = t.assigned /\ u.fact = t.fact /\ u.ok = t.ok
BY DEF EnsureTask, EnsureSession, Tables

LEMMA ApplyGroups ==
  ASSUME NEW t \in Grouped, NEW e \in Event
  PROVE  Apply(t, e) \in Grouped
<1>1. t \in Tables /\ Authoritative(t)
  BY DEF Grouped
<1>2. SUFFICES Authoritative(Apply(t, e))
  BY <1>1, ApplyIsTyped DEF Grouped
<1>3. CASE ~t.ok
  BY <1>1, <1>3 DEF Apply
<1>4. CASE t.ok /\ e \in HookEvent \union FactEvent
  <2> DEFINE task == Effective(t, e)
             u(fresh) == EnsureTask(EnsureSession(t, e.session, task), task, fresh)
             a == Apply(t, e)
  <2>1. task \in Task /\ e.session \in Session
    BY <1>1, <1>4, EffectiveIsTask DEF HookEvent, FactEvent
  <2>2. \A fresh : /\ u(fresh).session = [t.session EXCEPT ![e.session] = task]
                   /\ u(fresh).owned = t.owned /\ u(fresh).assigned = t.assigned
    BY <1>1, <2>1, EnsureKeeps
  <2>3. t.assigned[e.session] # None => task = t.assigned[e.session]
    BY DEF Effective
  <2>4. /\ a.session = [t.session EXCEPT ![e.session] = task]
        /\ a.assigned = t.assigned
        /\ a.owned \in {t.owned, [t.owned EXCEPT ![e.session] = task]}
    <3>1. CASE e \in HookEvent
      <4>1. a = u(e.fresh /\ task = e.task)
        BY <1>4, <3>1 DEF Apply, ApplyHook, HookEvent
      <4> HIDE DEF u, a, task
      <4> QED
        BY <2>2, <4>1
    <3>2. CASE e \in FactEvent
      <4>1. a = [u(FALSE) EXCEPT
               !.fact[e.fact] = [task |-> task, by |-> e.session, lifecycle |-> e.lifecycle],
               !.owned[e.session] = IF e.stated THEN task ELSE @]
        BY <1>4, <3>2 DEF Apply, ApplyFact, FactEvent
      <4>2. u(FALSE) \in Tables /\ e.stated \in BOOLEAN
        BY <1>1, <2>1, <3>2, EnsureTyped DEF FactEvent
      <4> HIDE DEF u, a, task
      <4>3. /\ a.session = u(FALSE).session /\ a.assigned = u(FALSE).assigned
            /\ a.owned = [u(FALSE).owned EXCEPT ![e.session] = IF e.stated THEN task ELSE @]
        BY <4>1, <4>2 DEF Tables
      <4>4. CASE e.stated
        BY <2>2, <4>3, <4>4
      <4>5. CASE ~e.stated
        <5>1. t.owned = [t.owned EXCEPT ![e.session] = t.owned[e.session]]
          BY <1>1 DEF Tables, Sessions
        <5> QED
          BY <2>2, <4>3, <4>5, <5>1
      <4> QED
        BY <4>4, <4>5
    <3> QED
      BY <1>4, <3>1, <3>2
  <2> HIDE DEF a, task
  <2>5. Authoritative(a)
    BY <1>1, <2>1, <2>3, <2>4 DEF Authoritative, Tables, Sessions
  <2> QED
    BY <2>5 DEF a
<1>5. CASE t.ok /\ e \in TaskEvent
  BY <1>1, <1>5 DEF Apply, ApplyTask, TaskEvent, Authoritative, Tables
<1>6. CASE t.ok /\ e \in GroupingEvent
  <2> DEFINE op == e.op
             m == Moved(t, op)
  <2>1. op \in Op /\ Apply(t, e) = ApplyGrouping(t, op)
    BY <1>6 DEF GroupingEvent, Apply
  <2>2. /\ m.session = MovedSessions(t, op)
        /\ m.assigned = Assign(t, op)
        /\ m.owned = MovedEvidence(t, op)
    BY <1>1 DEF Moved, Created, Tables
  <2>3. Authoritative(m)
    BY <1>1, <2>2 DEF Authoritative, MovedSessions, Assign, MovedEvidence
  <2>4. Authoritative(Failed(t))
    BY <1>1 DEF Authoritative, Failed, Tables
  <2>5. Authoritative([m EXCEPT !.task[op.task] = op.after])
    <3>1. m \in Tables
      BY <1>1, <2>1, MovedIsTyped
    <3> HIDE DEF m
    <3> QED
      BY <2>3, <3>1 DEF Authoritative, Tables
  <2> HIDE DEF m
  <2>6. ApplyGrouping(t, op) \in {Failed(t), m, [m EXCEPT !.task[op.task] = op.after]}
    BY <1>1, <2>1, ApplyGroupingDef DEF m
  <2> QED
    BY <2>1, <2>3, <2>4, <2>5, <2>6
<1> QED
  BY <1>3, <1>4, <1>5, <1>6 DEF Event

LEMMA ReplayIsGrouped ==
  ASSUME NEW S \in SUBSET Event, IsFiniteSet(S)
  PROVE  Replay(S) \in Grouped
<1>1. EmptyTables \in Grouped
  BY EmptyIsTyped DEF Grouped, Authoritative, EmptyTables
<1>2. \A e \in S, t \in Grouped : Apply(t, e) \in Grouped
  BY ApplyGroups
<1> QED
  BY <1>1, <1>2, EventsAreTimed, ReplayPreserves
-------------------------------------------------------------------------------
(* The inductive invariant.                                                *)

Captured == [pc : {"captured"}, session : Session, at : Nat]
Ingested == [pc : {"resolved", "persisted"}, session : Session, at : Nat,
             states : BOOLEAN, task : Task, fresh : BOOLEAN]

Types ==
  /\ log \subseteq Event /\ IsFiniteSet(log)
  /\ tables.ok
  /\ inflight \subseteq Captured \union Ingested
  /\ held \subseteq HookEvent \union FactEvent \union TaskEvent
  /\ previews \subseteq Op /\ overtaken \subseteq previews
  /\ clock \in 0..MaxTimes /\ edits \in 0..MaxEdits /\ compactions \in 0..MaxRetentions

(* Nobody takes a time twice.                                              *)
TakenOnce ==
  /\ \A x \in log \union inflight \union held \union previews : x.at < clock
  /\ \A c, d \in inflight : c.at = d.at => c = d
  /\ \A d, e \in held : d.at = e.at => d = e
  /\ \A o, p \in previews : o.at = p.at => o = p
  /\ \A c \in inflight, e \in held : c.at # e.at
  /\ \A c \in inflight, o \in previews : c.at # o.at
  /\ \A e \in held, o \in previews : e.at # o.at

(* What waits to be stored has a time of its own, except for a statement   *)
(* and its prompt.                                                         *)
Stored ==
  \A d \in log :
    /\ \A c \in inflight : d.at = c.at => c.pc = "persisted" /\ d.tie = 1
    /\ \A e \in held : d.at # e.at
    /\ \A o \in previews : d.at # o.at

(* No two events have the same place in the order of the log.              *)
Placed(S) == \A d, e \in S : d.at = e.at /\ d.tie = e.tie => d = e

IInv == Types /\ TakenOnce /\ Stored /\ Placed(log) /\ ProjectionIsReplay

LEMMA Bounds == MaxTimes \in Nat /\ MaxEdits \in Nat /\ MaxRetentions \in Nat
  BY BoundsAssumption

LEMMA Initially == Init => IInv
<1> SUFFICES ASSUME Init PROVE IInv
  OBVIOUS
<1>1. Types
  BY Bounds, FS_EmptySet DEF Init, Types, EmptyTables
<1>2. TakenOnce /\ Stored /\ Placed(log)
  BY DEF Init, TakenOnce, Stored, Placed
<1>3. ProjectionIsReplay
  BY ReplayOfNothing DEF Init, ProjectionIsReplay
<1> QED
  BY <1>1, <1>2, <1>3 DEF IInv

(* The tables have their types because a replay has.                       *)
LEMMA TablesAreGrouped ==
  ASSUME IInv
  PROVE  tables \in Tables /\ Authoritative(tables)
BY ReplayIsGrouped DEF IInv, Types, ProjectionIsReplay, Grouped

(* Applied to the tables or replayed, an event of a time of its own leads  *)
(* to the tables of a replay.                                              *)
LEMMA ProjectReplays ==
  ASSUME IInv, NEW e \in Event, \A d \in log : d.at # e.at \/ d.tie # e.tie
  PROVE  Project(e) = Replay(log \union {e})
<1>1. CASE \E d \in log : Before(e, d)
  BY <1>1 DEF Project
<1>2. CASE ~ \E d \in log : Before(e, d)
  <2>1. log \union {e} \in SUBSET Event /\ IsFiniteSet(log)
    BY DEF IInv, Types
  <2>2. Timed(log \union {e})
    BY <2>1, EventsAreTimed
  <2>3. \A d \in log : Before(d, e)
    BY <1>2, <2>2 DEF Before, Timed
  <2>4. e \notin log
    OBVIOUS
  <2>5. Replay(log \union {e}) = Apply(tables, e)
    BY <2>1, <2>2, <2>3, <2>4, ReplayAppends DEF IInv, ProjectionIsReplay
  <2> QED
    BY <1>2, <2>5 DEF Project
<1> QED
  BY <1>1, <1>2

LEMMA Inserting ==
  ASSUME IInv, NEW e \in Event, \A d \in log : d.at # e.at \/ d.tie # e.tie, Insert(e)
  PROVE  /\ log' \subseteq log \union {e}
         /\ log' \subseteq Event /\ IsFiniteSet(log') /\ tables'.ok
         /\ Placed(log') /\ ProjectionIsReplay'
<1>1. CASE Project(e).ok
  <2>1. log' = log \union {e} /\ tables' = Project(e)
    BY <1>1 DEF Insert
  <2>2. IsFiniteSet(log')
    BY <2>1, FS_AddElement DEF IInv, Types
  <2>3. Placed(log')
    BY <2>1 DEF IInv, Placed
  <2> QED
    BY <1>1, <2>1, <2>2, <2>3, ProjectReplays DEF IInv, Types, ProjectionIsReplay
<1>2. CASE ~Project(e).ok
  BY <1>2 DEF Insert, store, IInv, Types, ProjectionIsReplay
<1> QED
  BY <1>1, <1>2

LEMMA Ticks ==
  ASSUME IInv, Tick
  PROVE  clock \in Nat /\ clock' = clock + 1 /\ clock' \in 0..MaxTimes
BY Bounds DEF Tick, IInv, Types

LEMMA TimesAreNumbers ==
  ASSUME IInv
  PROVE  \A x \in log \union inflight \union held \union previews : x.at \in Nat
<1>1. \A x \in log \union held \union previews : x.at \in Nat
  BY DEF IInv, Types, Event, HookEvent, FactEvent, TaskEvent, GroupingEvent, Op, OpOf
<1>2. \A x \in inflight : x.at \in Nat
  BY DEF IInv, Types, Captured, Ingested
<1> QED
  BY <1>1, <1>2

(* Somebody begins something, at a time of its own.                        *)
LEMMA Begins ==
  ASSUME IInv, Tick, UNCHANGED log, NEW x, x.at = clock,
         \/ inflight' = inflight \union {x} /\ UNCHANGED <<held, previews>>
         \/ held' = held \union {x} /\ UNCHANGED <<inflight, previews>>
         \/ previews' = previews \union {x} /\ UNCHANGED <<inflight, held>>
  PROVE  TakenOnce' /\ Stored'
<1>1. clock \in Nat /\ clock' = clock + 1
  BY Ticks
<1>2. \A y \in log \union inflight \union held \union previews :
        y.at < clock' /\ y.at # x.at
  BY <1>1, TimesAreNumbers DEF IInv, TakenOnce
<1>3. x.at < clock'
  BY <1>1
<1>4. CASE inflight' = inflight \union {x} /\ UNCHANGED <<held, previews>>
  BY <1>2, <1>3, <1>4 DEF IInv, TakenOnce, Stored
<1>5. CASE held' = held \union {x} /\ UNCHANGED <<inflight, previews>>
  BY <1>2, <1>3, <1>5 DEF IInv, TakenOnce, Stored
<1>6. CASE previews' = previews \union {x} /\ UNCHANGED <<inflight, held>>
  BY <1>2, <1>3, <1>6 DEF IInv, TakenOnce, Stored
<1> QED
  BY <1>4, <1>5, <1>6

LEMMA CaptureKeeps ==
  ASSUME IInv, NEW s \in Session, Capture(s)
  PROVE  IInv'
<1> DEFINE c == [pc |-> "captured", session |-> s, at |-> clock]
<1>1. clock \in Nat /\ clock' = clock + 1 /\ clock' \in 0..MaxTimes
  BY Ticks DEF Capture
<1>2. /\ inflight' = inflight \union {c}
      /\ UNCHANGED <<log, tables, held, previews, overtaken, edits, compactions>>
  BY DEF Capture, prepared, store, bounds
<1>3. c \in Captured /\ c.at = clock
  BY <1>1 DEF Captured
<1> HIDE DEF c
<1>4. Types'
  BY <1>1, <1>2, <1>3 DEF IInv, Types
<1>5. TakenOnce' /\ Stored'
  BY <1>2, <1>3, Begins DEF Capture
<1>6. Placed(log') /\ ProjectionIsReplay'
  BY <1>2 DEF IInv, Placed, ProjectionIsReplay
<1> QED
  BY <1>4, <1>5, <1>6 DEF IInv

LEMMA EditKeeps ==
  ASSUME IInv, NEW e \in HookEvent \union FactEvent \union TaskEvent, e.at = clock, Edit(e)
  PROVE  IInv'
<1>1. clock' \in 0..MaxTimes
  BY Ticks DEF Edit
<1>2. held' = held \union {e} /\ UNCHANGED <<log, tables, inflight, previews, overtaken, compactions>>
  BY DEF Edit, prepared, store
<1>3. edits' \in 0..MaxEdits
  BY Bounds DEF Edit, IInv, Types
<1>4. Types'
  BY <1>1, <1>2, <1>3 DEF IInv, Types
<1>5. TakenOnce' /\ Stored'
  BY <1>2, Begins DEF Edit
<1>6. Placed(log') /\ ProjectionIsReplay'
  BY <1>2 DEF IInv, Placed, ProjectionIsReplay
<1> QED
  BY <1>4, <1>5, <1>6 DEF IInv

(* What is edited was read from the tables.                                *)
LEMMA EditsKeep ==
  ASSUME IInv,
         \/ \E t \in Task, l \in Lifecycle : UpdateTask(t, l)
         \/ \E f \in Task, l \in {"pinned", "invalid"} : UpdateFact(f, l)
         \/ \E f \in Task : Revalidate(f)
         \/ \E s \in Session : UpdateSession(s)
  PROVE  IInv'
<1>1. clock \in Nat
  BY Bounds DEF IInv, Types
<1>2. ASSUME NEW t \in Task, NEW l \in Lifecycle, UpdateTask(t, l) PROVE IInv'
  <2> DEFINE e == [kind |-> "task", at |-> clock, tie |-> 1, task |-> t, lifecycle |-> l]
  <2>1. e \in TaskEvent /\ e.at = clock
    BY <1>1 DEF TaskEvent
  <2>2. Edit(e)
    BY <1>2 DEF UpdateTask
  <2> QED
    BY <2>1, <2>2, EditKeeps
<1>3. ASSUME NEW f \in Task, NEW l \in FactLifecycle, UpdateFact(f, l) PROVE IInv'
  <2> DEFINE e == [kind |-> "fact", at |-> clock, tie |-> 1, session |-> tables.fact[f].by,
                   task |-> tables.fact[f].task, fact |-> f, lifecycle |-> l, stated |-> FALSE]
  <2>1. tables.fact[f] \in Fact
    BY <1>3, TablesAreGrouped DEF UpdateFact, Tables
  <2>2. e \in FactEvent /\ e.at = clock
    BY <1>1, <2>1 DEF FactEvent, Fact
  <2>3. Edit(e)
    BY <1>3 DEF UpdateFact
  <2> QED
    BY <2>2, <2>3, EditKeeps
<1>4. ASSUME NEW f \in Task, Revalidate(f) PROVE IInv'
  <2>1. tables.fact[f] \in Fact
    BY <1>4, TablesAreGrouped DEF Revalidate, Tables
  <2> QED
    BY <1>3, <1>4, <2>1 DEF Revalidate, Fact
<1>5. ASSUME NEW s \in Session, UpdateSession(s) PROVE IInv'
  <2> DEFINE e == [kind |-> "hook", at |-> clock, tie |-> 1, session |-> s,
                   task |-> tables.session[s], fresh |-> FALSE]
  <2>1. tables.session[s] \in Task
    BY <1>5, TablesAreGrouped DEF UpdateSession, Tables, Sessions
  <2>2. e \in HookEvent /\ e.at = clock
    BY <1>1, <2>1 DEF HookEvent
  <2>3. Edit(e)
    BY <1>5 DEF UpdateSession
  <2> QED
    BY <2>2, <2>3, EditKeeps
<1>6. {"pinned", "invalid"} \subseteq FactLifecycle
  BY DEF FactLifecycle
<1> QED
  BY <1>2, <1>3, <1>4, <1>5, <1>6

LEMMA PreviewedKeeps ==
  ASSUME IInv, Tick, NEW o \in Op, o.at = clock, Previewed(o)
  PROVE  IInv'
<1>1. clock' \in 0..MaxTimes
  BY Ticks
<1>2. previews' = previews \union {o} /\ UNCHANGED <<log, tables, inflight, held, overtaken, edits, compactions>>
  BY DEF Previewed, store, bounds
<1>3. Types'
  BY <1>1, <1>2 DEF IInv, Types
<1>4. TakenOnce' /\ Stored'
  BY <1>2, Begins
<1>5. Placed(log') /\ ProjectionIsReplay'
  BY <1>2 DEF IInv, Placed, ProjectionIsReplay
<1> QED
  BY <1>3, <1>4, <1>5 DEF IInv

LEMMA PreviewIsTyped ==
  ASSUME IInv, NEW o \in Request, NEW a \in {"move", "merge", "split"},
         NEW ss \in SUBSET Session, NEW from \in Task, NEW to \in Task
  PROVE  PreviewOf(o, a, ss, from, to) \in Op /\ PreviewOf(o, a, ss, from, to).at = clock
<1>1. clock \in Nat /\ tables \in Tables
  BY Bounds, TablesAreGrouped DEF IInv, Types
<1>2. Impacts(from, ss) \in SUBSET Task
  BY DEF Impacts
<1>3. tables.task[from] \in Lifecycle \union {None}
  BY <1>1 DEF Tables
<1>4. o \in Task
  BY DEF Task
<1>5. {"completed", "active"} \subseteq Lifecycle
  BY DEF Lifecycle
<1> HIDE DEF Task
<1> QED
  BY <1>1, <1>2, <1>3, <1>4, <1>5 DEF PreviewOf, PreviewAt, Op, OpOf

LEMMA PreviewKeeps ==
  ASSUME IInv, NEW o \in Request, NEW a \in {"move", "merge", "split"},
         NEW ss \in SUBSET Session, NEW to \in Task, Preview(o, a, ss, to)
  PROVE  IInv'
<1>1. PICK from \in Task : Previewed(PreviewOf(o, a, ss, from, to))
  BY DEF Preview
<1> QED
  BY <1>1, PreviewIsTyped, PreviewedKeeps DEF Preview

LEMMA UndoIsTyped ==
  ASSUME IInv, NEW op \in Op, op.action # "undo"
  PROVE  LET u == [op EXCEPT !.id = Undo(@), !.action = "undo", !.from = op.to, !.to = op.from,
                             !.before = op.after, !.after = op.before, !.at = clock]
         IN  u \in Op /\ u.at = clock
<1>1. clock \in Nat
  BY Bounds DEF IInv, Types
<1> QED
  BY <1>1 DEF Op, OpOf

LEMMA UndoKeeps ==
  ASSUME IInv, NEW op \in Operations, PrepareUndo(op)
  PROVE  IInv'
<1>1. op \in Op /\ op.action # "undo"
  BY DEF Operations, IInv, Types, Event, HookEvent, FactEvent, TaskEvent, GroupingEvent, PrepareUndo
<1> QED
  BY <1>1, UndoIsTyped, PreviewedKeeps DEF PrepareUndo


(* The hook event gets its task, and keeps its time.                       *)
LEMMA ResolveKeeps ==
  ASSUME IInv, NEW c \in inflight, Resolve(c)
  PROVE  IInv'
<1>1. c \in Captured
  BY DEF IInv, Types, Captured, Ingested, Resolve
<1>2. PICK states \in BOOLEAN, task \in Task, fresh \in BOOLEAN :
        inflight' = (inflight \ {c}) \union
          {[pc |-> "resolved", session |-> c.session, at |-> c.at,
            states |-> states, task |-> task, fresh |-> fresh]}
  <2> DEFINE own == IF tables.session[c.session] = None THEN c.session ELSE tables.session[c.session]
  <2>1. own \in Task
    BY <1>1, TablesAreGrouped DEF Captured, Tables, Sessions, Task
  <2> DEFINE resolved(states, task, fresh) ==
               [pc |-> "resolved", session |-> c.session, at |-> c.at,
                states |-> states, task |-> task, fresh |-> fresh]
             prompt == resolved(TRUE, own, tables.session[c.session] = None)
             resumed == {resolved(FALSE, t, FALSE) : t \in {u \in Task : tables.task[u] = "active"}}
  <2>2. PICK r \in {prompt} \union resumed : inflight' = (inflight \ {c}) \union {r}
    BY DEF Resolve
  <2> HIDE DEF own, resolved
  <2>3. CASE r = prompt
    BY <2>1, <2>2, <2>3 DEF resolved
  <2>4. CASE r \in resumed
    <3>1. PICK t \in Task : r = resolved(FALSE, t, FALSE)
      BY <2>4
    <3> QED
      BY <2>2, <3>1 DEF resolved
  <2> QED
    BY <2>2, <2>3, <2>4
<1> DEFINE r == [pc |-> "resolved", session |-> c.session, at |-> c.at,
                 states |-> states, task |-> task, fresh |-> fresh]
<1>4. r \in Ingested /\ r.at = c.at
  BY <1>1 DEF Captured, Ingested
<1>5. /\ inflight' = (inflight \ {c}) \union {r}
      /\ UNCHANGED <<log, tables, held, previews, overtaken, clock, edits, compactions>>
  BY <1>2 DEF Resolve, prepared, store, bounds
<1> HIDE DEF r
<1>6. Types'
  BY <1>4, <1>5 DEF IInv, Types
<1>7. TakenOnce'
  BY <1>4, <1>5 DEF IInv, TakenOnce
<1>8. Stored'
  <2>1. \A d \in log : d.at # c.at
    BY DEF Resolve, prepared, IInv, Stored
  <2> QED
    BY <1>4, <1>5, <2>1 DEF IInv, Stored
<1>9. Placed(log') /\ ProjectionIsReplay'
  BY <1>5 DEF IInv, Placed, ProjectionIsReplay
<1> QED
  BY <1>6, <1>7, <1>8, <1>9 DEF IInv

LEMMA PersistKeeps ==
  ASSUME IInv, NEW c \in inflight, Persist(c)
  PROVE  IInv'
<1> DEFINE e == [kind |-> "hook", at |-> c.at, tie |-> 1, session |-> c.session,
                 task |-> c.task, fresh |-> c.fresh]
           p == [c EXCEPT !.pc = "persisted"]
<1>1. c \in Ingested /\ c.pc = "resolved"
  BY DEF IInv, Types, Captured, Ingested, Persist
<1>2. e \in Event /\ e.at = c.at /\ e.tie = 1
  BY <1>1 DEF Ingested, Event, HookEvent
<1>3. p \in Ingested /\ p.at = c.at /\ p.pc = "persisted"
  BY <1>1 DEF Ingested
<1>4. /\ Insert(e)
      /\ inflight' \subseteq (inflight \ {c}) \union {p}
      /\ UNCHANGED <<held, previews, overtaken, clock, edits, compactions>>
  BY DEF Persist, prepared, bounds
<1>5. \A d \in log : d.at # e.at
  BY <1>1, <1>2 DEF IInv, Stored
<1> HIDE DEF e, p
<1>6. /\ log' \subseteq log \union {e}
      /\ log' \subseteq Event /\ IsFiniteSet(log') /\ tables'.ok
      /\ Placed(log') /\ ProjectionIsReplay'
  BY <1>2, <1>4, <1>5, Inserting
<1>7. Types'
  BY <1>3, <1>4, <1>6 DEF IInv, Types
<1>8. TakenOnce'
  BY <1>2, <1>3, <1>4, <1>6 DEF IInv, TakenOnce
<1>9. Stored'
  BY <1>2, <1>3, <1>4, <1>6 DEF IInv, Stored, TakenOnce
<1> QED
  BY <1>6, <1>7, <1>8, <1>9 DEF IInv

(* The statement has the time of its prompt, but never its place.          *)
LEMMA AppendFactKeeps ==
  ASSUME IInv, NEW c \in inflight, AppendFact(c)
  PROVE  IInv'
<1>1. c \in Ingested /\ c.pc = "persisted"
  BY DEF IInv, Types, Captured, Ingested, AppendFact
<1>2. PICK tie \in {0, 2} :
        Insert([kind |-> "fact", at |-> c.at, tie |-> tie, session |-> c.session,
                task |-> c.task, fact |-> c.task, lifecycle |-> "candidate", stated |-> TRUE])
  BY DEF AppendFact
<1> DEFINE e == [kind |-> "fact", at |-> c.at, tie |-> tie, session |-> c.session,
                 task |-> c.task, fact |-> c.task, lifecycle |-> "candidate", stated |-> TRUE]
<1>3. e \in Event /\ e.at = c.at /\ e.tie # 1
  BY <1>1 DEF Ingested, Event, FactEvent, FactLifecycle
<1>4. /\ Insert(e)
      /\ inflight' = inflight \ {c}
      /\ UNCHANGED <<held, previews, overtaken, clock, edits, compactions>>
  BY <1>2 DEF AppendFact, prepared, bounds
<1>5. \A d \in log : d.at # e.at \/ d.tie # e.tie
  BY <1>3 DEF IInv, Stored
<1> HIDE DEF e
<1>6. /\ log' \subseteq log \union {e}
      /\ log' \subseteq Event /\ IsFiniteSet(log') /\ tables'.ok
      /\ Placed(log') /\ ProjectionIsReplay'
  BY <1>3, <1>4, <1>5, Inserting
<1>7. Types'
  BY <1>4, <1>6 DEF IInv, Types
<1>8. TakenOnce'
  BY <1>3, <1>4, <1>6 DEF IInv, TakenOnce
<1>9. Stored'
  BY <1>3, <1>4, <1>6 DEF IInv, Stored, TakenOnce
<1> QED
  BY <1>6, <1>7, <1>8, <1>9 DEF IInv

LEMMA WriteKeeps ==
  ASSUME IInv, NEW e \in held, Write(e)
  PROVE  IInv'
<1>1. e \in Event /\ \A d \in log : d.at # e.at
  BY DEF IInv, Types, Event, Stored
<1>2. /\ Insert(e)
      /\ held' = held \ {e}
      /\ UNCHANGED <<inflight, previews, overtaken, clock, edits, compactions>>
  BY DEF Write, prepared, bounds
<1>3. /\ log' \subseteq log \union {e}
      /\ log' \subseteq Event /\ IsFiniteSet(log') /\ tables'.ok
      /\ Placed(log') /\ ProjectionIsReplay'
  BY <1>1, <1>2, Inserting
<1>4. Types'
  BY <1>2, <1>3 DEF IInv, Types
<1>5. TakenOnce'
  BY <1>2, <1>3 DEF IInv, TakenOnce
<1>6. Stored'
  BY <1>2, <1>3 DEF IInv, Stored, TakenOnce
<1> QED
  BY <1>3, <1>4, <1>5, <1>6 DEF IInv

LEMMA ClaimKeeps ==
  ASSUME IInv, NEW op \in previews, Claim(op)
  PROVE  IInv'
<1> DEFINE e == [kind |-> "grouping", at |-> op.at, tie |-> 0, op |-> op]
<1>1. /\ \/ UNCHANGED <<log, tables>>
         \/ Insert(e)
      /\ previews' = previews \ {op} /\ overtaken' \subseteq previews'
      /\ UNCHANGED <<inflight, held, clock, edits, compactions>>
  BY DEF Claim, store, bounds, IInv, Types
<1>2. e \in Event /\ e.at = op.at
  <2>1. op \in Op /\ op.at \in Nat
    BY DEF IInv, Types, Op, OpOf
  <2> QED
    BY <2>1 DEF Event, GroupingEvent
<1>3. \A d \in log : d.at # e.at
  BY DEF IInv, Stored
<1> HIDE DEF e
<1>4. /\ log' \subseteq log \union {e}
      /\ log' \subseteq Event /\ IsFiniteSet(log') /\ tables'.ok
      /\ Placed(log') /\ ProjectionIsReplay'
  <2>1. CASE Insert(e)
    BY <1>2, <1>3, <2>1, Inserting
  <2>2. CASE UNCHANGED <<log, tables>>
    BY <2>2 DEF IInv, Types, Placed, ProjectionIsReplay
  <2> QED
    BY <1>1, <2>1, <2>2
<1>5. Types'
  BY <1>1, <1>4 DEF IInv, Types
<1>6. TakenOnce'
  BY <1>1, <1>2, <1>4 DEF IInv, TakenOnce
<1>7. Stored'
  BY <1>1, <1>2, <1>4 DEF IInv, Stored, TakenOnce
<1> QED
  BY <1>4, <1>5, <1>6, <1>7 DEF IInv

LEMMA RetentionKeeps ==
  ASSUME IInv, NEW cutoff \in 1..clock, Retention(cutoff)
  PROVE  IInv'
<1>1. /\ \/ UNCHANGED <<log, tables>>
         \/ /\ log' = Retained(cutoff) /\ tables' = Replay(log') /\ tables'.ok
      /\ UNCHANGED <<inflight, held, previews, overtaken, clock, edits>>
  BY DEF Retention, prepared, store
<1>2. Retained(cutoff) \subseteq log
  BY DEF Retained
<1>3. compactions' \in 0..MaxRetentions
  BY Bounds DEF Retention, prepared, IInv, Types
<1>4. log' \subseteq log /\ IsFiniteSet(log') /\ tables'.ok /\ Placed(log') /\ ProjectionIsReplay'
  <2>1. log' \subseteq log /\ tables'.ok /\ Placed(log') /\ ProjectionIsReplay'
    BY <1>1, <1>2 DEF IInv, Types, Placed, ProjectionIsReplay
  <2> QED
    BY <2>1, FS_Subset DEF IInv, Types
<1>5. Types'
  BY <1>1, <1>3, <1>4 DEF IInv, Types
<1>6. TakenOnce' /\ Stored'
  BY <1>1, <1>4 DEF IInv, TakenOnce, Stored
<1> QED
  BY <1>4, <1>5, <1>6 DEF IInv

LEMMA NextKeeps ==
  ASSUME IInv, [Next]_vars
  PROVE  IInv'
<1>1. CASE UNCHANGED vars
  BY <1>1 DEF vars, prepared, store, bounds, IInv, Types, TakenOnce, Stored, Placed, ProjectionIsReplay
<1>2. CASE Next
  <2>1. CASE \E s \in Session : Capture(s)
    BY <2>1, CaptureKeeps
  <2>2. CASE \E c \in inflight : Resolve(c) \/ Persist(c) \/ AppendFact(c)
    BY <2>2, ResolveKeeps, PersistKeeps, AppendFactKeeps
  <2>3. CASE \E e \in held : Write(e)
    BY <2>3, WriteKeeps
  <2>4. CASE \E o \in Request, a \in {"move", "merge", "split"}, ss \in SUBSET Session, to \in Task :
               Preview(o, a, ss, to)
    BY <2>4, PreviewKeeps
  <2>5. CASE \E op \in Operations : PrepareUndo(op)
    BY <2>5, UndoKeeps
  <2>6. CASE \E op \in previews : Claim(op)
    BY <2>6, ClaimKeeps
  <2>7. CASE \E cutoff \in 1..clock : Retention(cutoff)
    BY <2>7, RetentionKeeps
  <2> QED
    BY <1>2, <2>1, <2>2, <2>3, <2>4, <2>5, <2>6, <2>7, EditsKeep DEF Next
<1> QED
  BY <1>1, <1>2

(* IInv is an invariant of everything that writes events, in whatever      *)
(* order (store.rs insert_event, grouping.rs, store/maintenance.rs).       *)
THEOREM Invariance == Spec => []IInv
<1>1. IInv /\ [Next]_vars => IInv'
  BY NextKeeps
<1> QED
  BY <1>1, Initially, PTL DEF Spec

(* Type correctness. *)
THEOREM TypeCorrect == Spec => []TypeOK
<1>1. IInv => TypeOK
  <2> SUFFICES ASSUME IInv PROVE TypeOK
    OBVIOUS
  <2>1. tables \in Tables
    BY TablesAreGrouped
  <2>2. \A e \in log : e.kind \in {"hook", "fact", "task", "grouping"} /\ e.at < clock
    BY DEF IInv, Types, TakenOnce, Event, HookEvent, FactEvent, TaskEvent, GroupingEvent
  <2>3. \A c \in inflight : c.pc \in {"captured", "resolved", "persisted"}
    BY DEF IInv, Types, Captured, Ingested
  <2>4. \A op \in previews \union Operations : op \in Op
    BY DEF IInv, Types, Operations, Event, HookEvent, FactEvent, TaskEvent, GroupingEvent
  <2>5. \A op \in previews \union Operations : op.sessions \subseteq Session /\ op.facts \subseteq Task
    BY <2>4 DEF Op, OpOf
  <2> QED
    BY <2>1, <2>2, <2>3, <2>5 DEF IInv, Types, TypeOK, Tables, Sessions, Fact
<1> QED
  BY <1>1, Invariance, PTL

(* README.md:49 "deterministic replay": events that are stored late, in    *)
(* whatever order, leave the tables that a replay of the log gives         *)
(* (store/projection.rs insert_event_tx, rebuild_projections_tx). *)
THEOREM TablesAreReplayed == Spec => []ProjectionIsReplay
<1>1. IInv => ProjectionIsReplay
  BY DEF IInv
<1> QED
  BY <1>1, Invariance, PTL

(* A session stays where the user has put it, whatever is ingested late or *)
(* rebuilt (store/projection.rs effective_grouping_task_id). *)
THEOREM GroupingStays == Spec => []GroupingIsAuthoritative
<1>1. IInv => GroupingIsAuthoritative
  BY TablesAreGrouped DEF GroupingIsAuthoritative, Authoritative
<1> QED
  BY <1>1, Invariance, PTL
-------------------------------------------------------------------------------
(* Comparing replays.                                                      *)

(* What holds between the tables of a log and of a part of it: what every  *)
(* event preserves, whether both replays meet it or only the longer one.   *)
LEMMA ReplaysRelate ==
  ASSUME NEW S \in SUBSET Event, IsFiniteSet(S), Placed(S), NEW T \in SUBSET S, NEW R,
         <<EmptyTables, EmptyTables>> \in R,
         \A e \in T, t, u \in Tables : <<t, u>> \in R => <<Apply(t, e), Apply(u, e)>> \in R,
         \A e \in S \ T, t, u \in Tables : <<t, u>> \in R => <<Apply(t, e), u>> \in R
  PROVE  <<Replay(S), Replay(T)>> \in R
<1> DEFINE Kept(s) == s \intersect T
           B == {s \in SUBSET S : <<Replay(s), Replay(Kept(s))>> \notin R}
<1>1. SUFFICES ASSUME B # {} PROVE FALSE
  <2>1. Kept(S) = T
    OBVIOUS
  <2> HIDE DEF Kept
  <2> QED
    BY <1>1, <2>1
<1>2. PICK s \in B : \A u \in B : u \subseteq s => u = s
  <2> HIDE DEF B
  <2>1. B \in SUBSET SUBSET S
    BY DEF B
  <2> QED
    BY <1>1, <2>1, SmallestSet
<1> DEFINE m == Latest(s)
           r == s \ {m}
<1>3. s \in SUBSET S /\ <<Replay(s), Replay(Kept(s))>> \notin R
  BY <1>2
<1>4. \A u \in SUBSET S : u \in SUBSET Event /\ IsFiniteSet(u) /\ Timed(u) /\ Replay(u) \in Tables
  BY FS_Subset, EventsAreTimed, ReplayIsGrouped DEF Grouped
<1>5. s # {}
  BY <1>3, ReplayOfNothing
<1>6. m \in s /\ \A d \in s : ~Before(m, d)
  BY <1>3, <1>4, <1>5, LatestIsIn
<1>7. Replay(s) = Apply(Replay(r), m)
  BY <1>3, <1>4, <1>5, ReplayUnfolds
<1>8. <<Replay(r), Replay(Kept(r))>> \in R
  BY <1>2, <1>6
<1>9. Replay(r) \in Tables /\ Replay(Kept(r)) \in Tables
  BY <1>3, <1>4
<1>10. CASE m \in T
  <2> DEFINE k == Kept(s)
             l == Latest(k)
  <2>1. k \in SUBSET S /\ k # {} /\ m \in k
    BY <1>3, <1>6, <1>10
  <2>2. l \in k /\ \A d \in k : ~Before(l, d)
    BY <1>4, <2>1, LatestIsIn
  <2>3. l = m
    <3>1. ~Before(l, m) /\ ~Before(m, l) /\ l \in S /\ m \in S
      BY <1>3, <1>6, <2>1, <2>2
    <3>2. l.at \in Nat /\ l.tie \in Nat /\ m.at \in Nat /\ m.tie \in Nat
      BY <1>4, <3>1 DEF Timed
    <3>3. l.at = m.at /\ l.tie = m.tie
      BY <3>1, <3>2 DEF Before
    <3> QED
      BY <3>1, <3>3 DEF Placed
  <2>4. k \ {l} = Kept(r)
    BY <2>3
  <2>5. Replay(k) = Apply(Replay(Kept(r)), m)
    BY <1>4, <2>1, <2>3, <2>4, ReplayUnfolds
  <2> QED
    BY <1>3, <1>7, <1>8, <1>9, <1>10, <2>5
<1>11. CASE m \notin T
  <2>1. Kept(r) = Kept(s)
    BY <1>11
  <2>2. m \in S \ T
    BY <1>3, <1>6, <1>11
  <2> QED
    BY <1>3, <1>7, <1>8, <1>9, <2>1, <2>2
<1> QED
  BY <1>10, <1>11

(* What an event that is projected does to assignments and facts.          *)
LEMMA ApplyFields ==
  ASSUME NEW t \in Tables, NEW e \in Event, Apply(t, e).ok
  PROVE  /\ t.ok
         /\ e.kind \in {"hook", "task"} =>
              Apply(t, e).assigned = t.assigned /\ Apply(t, e).fact = t.fact
         /\ e.kind = "fact" =>
              /\ Apply(t, e).assigned = t.assigned
              /\ Apply(t, e).fact = [t.fact EXCEPT ![e.fact] =
                   [task |-> Effective(t, e), by |-> e.session, lifecycle |-> e.lifecycle]]
         /\ e.kind = "grouping" =>
              Apply(t, e).assigned = Assign(t, e.op) /\ Apply(t, e).fact = MovedFacts(t, e.op)
<1> DEFINE a == Apply(t, e)
<1>1. t.ok
  BY DEF Apply
<1>2. ASSUME NEW s \in Session, NEW task \in Task, NEW fresh
      PROVE  LET u == EnsureTask(EnsureSession(t, s, task), task, fresh)
             IN  u.assigned = t.assigned /\ u.fact = t.fact
  BY DEF EnsureTask, EnsureSession, Tables
<1>3. CASE e \in HookEvent
  <2>1. Effective(t, e) \in Task /\ e.session \in Session
    BY <1>3, EffectiveIsTask DEF HookEvent
  <2> DEFINE u(fresh) == EnsureTask(EnsureSession(t, e.session, Effective(t, e)),
                                    Effective(t, e), fresh)
  <2>2. \A fresh : u(fresh).assigned = t.assigned /\ u(fresh).fact = t.fact
    BY <1>2, <2>1
  <2>3. a = u(e.fresh /\ Effective(t, e) = e.task)
    BY <1>1, <1>3 DEF Apply, ApplyHook, HookEvent
  <2> HIDE DEF u, a
  <2>4. a.assigned = t.assigned /\ a.fact = t.fact
    BY <2>2, <2>3
  <2>5. e.kind = "hook"
    BY <1>3 DEF HookEvent
  <2> QED
    BY <1>1, <2>4, <2>5 DEF a
<1>4. CASE e \in TaskEvent
  BY <1>1, <1>4 DEF Apply, ApplyTask, TaskEvent, Tables
<1>5. CASE e \in FactEvent
  <2> DEFINE task == Effective(t, e)
             u == EnsureTask(EnsureSession(t, e.session, task), task, FALSE)
             row == [task |-> task, by |-> e.session, lifecycle |-> e.lifecycle]
  <2>1. task \in Task /\ e.session \in Session
    BY <1>5, EffectiveIsTask DEF FactEvent
  <2>2. u \in Tables /\ u.assigned = t.assigned /\ u.fact = t.fact
    <3>1. u \in Tables
      BY <2>1, EnsureTyped
    <3>2. u.assigned = t.assigned /\ u.fact = t.fact
      BY <1>2, <2>1
    <3> QED
      BY <3>1, <3>2
  <2>3. a = [u EXCEPT !.fact[e.fact] = row, !.owned[e.session] = IF e.stated THEN task ELSE @]
    BY <1>1, <1>5 DEF Apply, ApplyFact, FactEvent
  <2> HIDE DEF u, row, task, a
  <2>4. a.assigned = u.assigned /\ a.fact = [u.fact EXCEPT ![e.fact] = row]
    BY <2>2, <2>3 DEF Tables
  <2>5. a.assigned = t.assigned /\ a.fact = [t.fact EXCEPT ![e.fact] = row]
    BY <2>2, <2>4
  <2>6. e.kind = "fact"
    BY <1>5 DEF FactEvent
  <2> QED
    BY <1>1, <2>5, <2>6 DEF a, row, task
<1>6. CASE e \in GroupingEvent
  <2> DEFINE op == e.op
             m == Moved(t, op)
  <2>1. op \in Op /\ a = ApplyGrouping(t, op) /\ e.kind = "grouping"
    BY <1>1, <1>6 DEF GroupingEvent, Apply
  <2>2. m \in Tables /\ m.assigned = Assign(t, op) /\ m.fact = MovedFacts(t, op)
    BY <2>1, MovedIsTyped DEF Moved, Created, Tables
  <2>3. ~Failed(t).ok
    BY DEF Failed, Tables
  <2> HIDE DEF m, a
  <2>4. a \in {m, [m EXCEPT !.task[op.task] = op.after]}
    BY <2>1, <2>3, ApplyGroupingDef DEF a, m
  <2>5. a.assigned = m.assigned /\ a.fact = m.fact
    BY <2>2, <2>4 DEF Tables
  <2> QED
    BY <1>1, <2>1, <2>2, <2>5 DEF a
<1> QED
  BY <1>3, <1>4, <1>5, <1>6 DEF Event

-------------------------------------------------------------------------------
(* Retention.  What a fact is depends on its own events and on grouping,   *)
(* and a compaction keeps both for a fact that is pinned.                  *)

Alike(t, u, f) == t.assigned = u.assigned /\ t.fact[f] = u.fact[f]

LEMMA ApplyAgrees ==
  ASSUME NEW t \in Tables, NEW u \in Tables, NEW f \in Task, Alike(t, u, f),
         NEW e \in Event, Apply(t, e).ok, Apply(u, e).ok
  PROVE  Alike(Apply(t, e), Apply(u, e), f)
<1>1. f \in DOMAIN t.fact /\ f \in DOMAIN u.fact
  BY DEF Tables
<1>2. CASE e.kind \in {"hook", "task"}
  BY <1>2, ApplyFields DEF Alike
<1>3. CASE e.kind = "fact"
  <2>1. Effective(t, e) = Effective(u, e)
    BY DEF Alike, Effective
  <2> DEFINE row == [task |-> Effective(t, e), by |-> e.session, lifecycle |-> e.lifecycle]
  <2>2. /\ Apply(t, e).assigned = t.assigned /\ Apply(t, e).fact = [t.fact EXCEPT ![e.fact] = row]
        /\ Apply(u, e).assigned = u.assigned /\ Apply(u, e).fact = [u.fact EXCEPT ![e.fact] = row]
    BY <1>3, <2>1, ApplyFields
  <2> HIDE DEF row
  <2> QED
    BY <1>1, <2>2 DEF Alike
<1>4. CASE e.kind = "grouping"
  <2>1. /\ Apply(t, e).assigned = Assign(t, e.op) /\ Apply(t, e).fact = MovedFacts(t, e.op)
        /\ Apply(u, e).assigned = Assign(u, e.op) /\ Apply(u, e).fact = MovedFacts(u, e.op)
    BY <1>4, ApplyFields
  <2>2. Assign(t, e.op) = Assign(u, e.op)
    BY DEF Assign, Alike
  <2>3. MovedFacts(t, e.op)[f] = MovedFacts(u, e.op)[f]
    BY DEF MovedFacts, Alike
  <2> QED
    BY <2>1, <2>2, <2>3 DEF Alike
<1>5. e.kind \in {"hook", "task", "fact", "grouping"}
  BY DEF Event, HookEvent, TaskEvent, FactEvent, GroupingEvent
<1> QED
  BY <1>2, <1>3, <1>4, <1>5

LEMMA ApplyLeaves ==
  ASSUME NEW t \in Tables, NEW f \in Task, NEW e \in Event, Apply(t, e).ok,
         e.kind # "grouping", ~(e.kind = "fact" /\ e.fact = f)
  PROVE  Alike(Apply(t, e), t, f)
<1>1. CASE e.kind \in {"hook", "task"}
  BY <1>1, ApplyFields DEF Alike
<1>2. CASE e.kind = "fact"
  <2> DEFINE row == [task |-> Effective(t, e), by |-> e.session, lifecycle |-> e.lifecycle]
  <2>1. /\ Apply(t, e).assigned = t.assigned
        /\ Apply(t, e).fact = [t.fact EXCEPT ![e.fact] = row]
    BY <1>2, ApplyFields
  <2>2. f \in DOMAIN t.fact
    BY DEF Tables
  <2> HIDE DEF row
  <2> QED
    BY <1>2, <2>1, <2>2 DEF Alike
<1>3. e.kind \in {"hook", "task", "fact", "grouping"}
  BY DEF Event, HookEvent, TaskEvent, FactEvent, GroupingEvent
<1> QED
  BY <1>1, <1>2, <1>3

(* Two logs with the same operations and the same events of a fact agree   *)
(* on the fact.                                                            *)
LEMMA FactFollowsItsEvents ==
  ASSUME NEW S \in SUBSET Event, IsFiniteSet(S), Placed(S), NEW T \in SUBSET S, NEW f \in Task,
         \A e \in S : e.kind = "grouping" \/ (e.kind = "fact" /\ e.fact = f) => e \in T,
         Replay(S).ok, Replay(T).ok
  PROVE  Alike(Replay(S), Replay(T), f)
<1> DEFINE Agree(t, u) == t.ok /\ u.ok => Alike(t, u, f)
           R == {p \in Tables \X Tables : Agree(p[1], p[2])}
<1>1. <<EmptyTables, EmptyTables>> \in R
  BY EmptyIsTyped DEF Alike
<1>2. ASSUME NEW e \in T, NEW t \in Tables, NEW u \in Tables, Agree(t, u)
      PROVE  Agree(Apply(t, e), Apply(u, e))
  <2>1. Apply(t, e).ok /\ Apply(u, e).ok => t.ok /\ u.ok
    BY ApplyFields
  <2> QED
    BY <1>2, <2>1, ApplyAgrees
<1>3. ASSUME NEW e \in S \ T, NEW t \in Tables, NEW u \in Tables, Agree(t, u)
      PROVE  Agree(Apply(t, e), u)
  <2>1. Apply(t, e).ok => t.ok
    BY ApplyFields
  <2>2. Apply(t, e).ok => Alike(Apply(t, e), t, f)
    BY <1>3, ApplyLeaves
  <2> QED
    BY <1>3, <2>1, <2>2 DEF Alike
<1> HIDE DEF Agree
<1>4. \A e \in T, t, u \in Tables : <<t, u>> \in R => <<Apply(t, e), Apply(u, e)>> \in R
  BY <1>2, ApplyIsTyped
<1>5. \A e \in S \ T, t, u \in Tables : <<t, u>> \in R => <<Apply(t, e), u>> \in R
  BY <1>3, ApplyIsTyped
<1> HIDE DEF R
<1>6. <<Replay(S), Replay(T)>> \in R
  BY <1>1, <1>4, <1>5, ReplaysRelate
<1> QED
  BY <1>6 DEF R, Agree

LEMMA RetentionKeepsPins ==
  ASSUME IInv, NEW cutoff \in 1..clock, Retention(cutoff), NEW f \in Task, Pinned(f)
  PROVE  tables'.fact[f] = tables.fact[f]
<1>1. CASE UNCHANGED tables
  BY <1>1
<1>2. CASE tables' = Replay(Retained(cutoff)) /\ tables'.ok
  <2>1. /\ log \in SUBSET Event /\ IsFiniteSet(log) /\ Placed(log)
        /\ tables = Replay(log) /\ tables.ok
    BY DEF IInv, Types, ProjectionIsReplay
  <2>2. /\ Retained(cutoff) \in SUBSET log
        /\ \A e \in log : e.kind = "grouping" \/ (e.kind = "fact" /\ e.fact = f) =>
             e \in Retained(cutoff)
    BY DEF Retained
  <2> HIDE DEF Retained
  <2>3. Alike(Replay(log), Replay(Retained(cutoff)), f)
    BY <1>2, <2>1, <2>2, FactFollowsItsEvents
  <2> QED
    BY <1>2, <2>1, <2>3 DEF Alike
<1> QED
  BY <1>1, <1>2 DEF Retention, store

FactsOf(S, f) == {e \in S : e.kind = "fact" /\ e.fact = f}

LEMMA LatestIsUnique ==
  ASSUME NEW S \in SUBSET Event, IsFiniteSet(S), Placed(S), NEW x \in S,
         \A d \in S : ~Before(x, d)
  PROVE  Latest(S) = x
<1>1. Timed(S)
  BY EventsAreTimed
<1>2. Latest(S) \in S /\ \A d \in S : ~Before(Latest(S), d)
  BY <1>1, LatestIsIn
<1>3. Latest(S).at = x.at /\ Latest(S).tie = x.tie
  BY <1>1, <1>2 DEF Before, Timed
<1> QED
  BY <1>2, <1>3 DEF Placed

(* The lifecycle of a fact is that of its latest event.                    *)
LEMMA FactIsItsLatest ==
  ASSUME NEW S \in SUBSET Event, IsFiniteSet(S), Placed(S), NEW f \in Task, Replay(S).ok
  PROVE  IF FactsOf(S, f) = {} THEN Replay(S).fact[f] = None
         ELSE /\ Replay(S).fact[f] \in Fact
              /\ Replay(S).fact[f].lifecycle = Latest(FactsOf(S, f)).lifecycle
<1> DEFINE Holds(T) == IF FactsOf(T, f) = {} THEN Replay(T).fact[f] = None
                       ELSE /\ Replay(T).fact[f] \in Fact
                            /\ Replay(T).fact[f].lifecycle = Latest(FactsOf(T, f)).lifecycle
           B == {T \in SUBSET S : Replay(T).ok /\ ~Holds(T)}
<1>1. SUFFICES ASSUME B # {} PROVE FALSE
  OBVIOUS
<1>2. PICK T \in B : \A U \in B : U \subseteq T => U = T
  <2> HIDE DEF B
  <2>1. B \in SUBSET SUBSET S
    BY DEF B
  <2> QED
    BY <1>1, <2>1, SmallestSet
<1>3. T \in SUBSET Event /\ IsFiniteSet(T) /\ Placed(T) /\ Timed(T) /\ Replay(T).ok /\ ~Holds(T)
  BY <1>2, FS_Subset, EventsAreTimed DEF Placed
<1>4. T # {}
  <2>1. Holds({})
    BY ReplayOfNothing DEF EmptyTables, FactsOf
  <2> QED
    BY <1>3, <2>1
<1> DEFINE l == Latest(T)
           t == Replay(T \ {l})
<1>5. l \in T /\ l \in Event /\ \A d \in T : ~Before(l, d)
  BY <1>3, <1>4, LatestIsIn
<1>6. Replay(T) = Apply(t, l)
  BY <1>3, <1>4, ReplayUnfolds
<1>7. t \in Tables
  <2>1. T \ {l} \in SUBSET Event /\ IsFiniteSet(T \ {l})
    BY <1>3, FS_Subset
  <2> QED
    BY <2>1, ReplayIsGrouped DEF Grouped
<1> HIDE DEF Holds, l, B
<1>8. t.ok /\ Apply(t, l).ok
  BY <1>3, <1>5, <1>6, <1>7, ApplyFields
<1>9. Holds(T \ {l})
  <2>1. T \ {l} \notin B
    BY <1>2, <1>5
  <2> QED
    BY <1>2, <1>8, <2>1 DEF B
<1>10. CASE l \in FactsOf(T, f)
  <2>1. Latest(FactsOf(T, f)) = l
    <3>1. FactsOf(T, f) \in SUBSET T
      BY DEF FactsOf
    <3>2. FactsOf(T, f) \in SUBSET Event /\ IsFiniteSet(FactsOf(T, f)) /\ Placed(FactsOf(T, f))
      BY <1>3, <3>1, FS_Subset DEF Placed
    <3> QED
      BY <1>5, <1>10, <3>1, <3>2, LatestIsUnique
  <2>2. l.kind = "fact" /\ l.fact = f /\ l \in FactEvent
    BY <1>5, <1>10 DEF FactsOf, Event, HookEvent, FactEvent, TaskEvent, GroupingEvent
  <2> HIDE DEF t
  <2> DEFINE row == [task |-> Effective(t, l), by |-> l.session, lifecycle |-> l.lifecycle]
  <2>3. Apply(t, l).fact[f] = row
    <3>1. Apply(t, l).fact = [t.fact EXCEPT ![f] = row]
      BY <1>5, <1>7, <1>8, <2>2, ApplyFields
    <3>2. f \in DOMAIN t.fact
      BY <1>7 DEF Tables
    <3> HIDE DEF row
    <3> QED
      BY <3>1, <3>2
  <2>4. Effective(t, l) \in Task
    BY <1>7, <2>2, EffectiveIsTask
  <2>5. Apply(t, l).fact[f] \in Fact /\ Apply(t, l).fact[f].lifecycle = l.lifecycle
    BY <2>2, <2>3, <2>4 DEF Fact, FactEvent
  <2> QED
    BY <1>3, <1>6, <1>10, <2>1, <2>5 DEF Holds
<1>11. CASE l \notin FactsOf(T, f)
  <2>1. FactsOf(T, f) = FactsOf(T \ {l}, f)
    BY <1>11 DEF FactsOf
  <2>2. CASE Apply(t, l).fact[f] = t.fact[f]
    BY <1>3, <1>6, <1>9, <2>1, <2>2 DEF Holds
  <2>3. CASE l.kind = "grouping"
    <3> HIDE DEF t
    <3>1. Apply(t, l).fact = MovedFacts(t, l.op)
      BY <1>5, <1>7, <1>8, <2>3, ApplyFields
    <3>2. \/ Apply(t, l).fact[f] = t.fact[f]
          \/ t.fact[f] # None /\ Apply(t, l).fact[f] = [t.fact[f] EXCEPT !.task = l.op.to]
      BY <3>1 DEF MovedFacts
    <3>3. l.op.to \in Task /\ t.fact[f] \in {None} \union Fact
      BY <1>5, <1>7, <2>3 DEF Event, HookEvent, FactEvent, TaskEvent, GroupingEvent, Op, OpOf, Tables
    <3>4. t.fact[f] # None => /\ [t.fact[f] EXCEPT !.task = l.op.to] \in Fact
                              /\ [t.fact[f] EXCEPT !.task = l.op.to].lifecycle = t.fact[f].lifecycle
      BY <3>3 DEF Fact
    <3>5. CASE t.fact[f] # None /\ Apply(t, l).fact[f] = [t.fact[f] EXCEPT !.task = l.op.to]
      BY <1>3, <1>6, <1>9, <2>1, <3>4, <3>5 DEF Holds, t
    <3> QED
      BY <2>2, <3>2, <3>5
  <2>4. CASE l.kind # "grouping"
    <3>1. Alike(Apply(t, l), t, f)
      BY <1>3, <1>5, <1>6, <1>7, <1>11, <2>4, ApplyLeaves DEF FactsOf
    <3> QED
      BY <2>2, <3>1 DEF Alike
  <2> QED
    BY <2>3, <2>4
<1> QED
  BY <1>10, <1>11

(* As long as nothing is dropped, a pin ends with a newer event of the     *)
(* fact: a late one has its place before the pin.                          *)
LEMMA PinsOutlastOlderEvents ==
  ASSUME IInv, IInv', log \subseteq log', NEW f \in Task, Pinned(f),
         ~ \E e \in StatedBy(f)' : \A d \in StatedBy(f) : Before(d, e)
  PROVE  Pinned(f)'
<1> DEFINE F == FactsOf(log, f)
           G == FactsOf(log', f)
<1>1. StatedBy(f) = F /\ StatedBy(f)' = G
  BY DEF StatedBy, FactsOf
<1>2. /\ log \in SUBSET Event /\ IsFiniteSet(log) /\ Placed(log)
      /\ tables = Replay(log) /\ tables.ok
  BY DEF IInv, Types, ProjectionIsReplay
<1>3. /\ log' \in SUBSET Event /\ IsFiniteSet(log') /\ Placed(log')
      /\ tables' = Replay(log') /\ tables'.ok
  BY DEF IInv, Types, ProjectionIsReplay
<1>4. F \subseteq G /\ F \in SUBSET log /\ G \in SUBSET log'
  BY DEF FactsOf
<1>5. F # {} /\ tables.fact[f].lifecycle = Latest(F).lifecycle
  BY <1>2, FactIsItsLatest DEF Pinned
<1> HIDE DEF F, G
<1>6. IsFiniteSet(F) /\ IsFiniteSet(G) /\ Placed(F) /\ Timed(G)
  <2>1. IsFiniteSet(F) /\ IsFiniteSet(G)
    BY <1>2, <1>3, <1>4, FS_Subset
  <2>2. Placed(F)
    BY <1>2, <1>4 DEF Placed
  <2>3. Timed(G)
    BY <1>3, <1>4, EventsAreTimed
  <2> QED
    BY <2>1, <2>2, <2>3
<1>7. Latest(G) \in G /\ \A d \in G : ~Before(Latest(G), d)
  BY <1>4, <1>5, <1>6, LatestIsIn
<1>8. PICK d \in F : ~Before(d, Latest(G))
  BY <1>1, <1>7
<1>9. d = Latest(G)
  <2>1. ~Before(Latest(G), d) /\ d \in G
    BY <1>4, <1>7
  <2>2. d.at = Latest(G).at /\ d.tie = Latest(G).tie
    BY <1>6, <1>7, <1>8, <2>1 DEF Before, Timed
  <2> QED
    BY <1>3, <1>4, <1>7, <2>1, <2>2 DEF Placed
<1>10. Latest(F) = d
  <2>1. F \in SUBSET Event /\ \A x \in F : ~Before(d, x)
    BY <1>2, <1>4, <1>7, <1>9
  <2> QED
    BY <1>6, <2>1, LatestIsUnique
<1>11. tables'.fact[f] \in Fact /\ tables'.fact[f].lifecycle = Latest(G).lifecycle
  <2>1. G # {}
    BY <1>7
  <2> QED
    BY <1>3, <2>1, FactIsItsLatest DEF G
<1>12. tables'.fact[f] # None
  BY <1>11, NoneAssumption
<1> QED
  BY <1>5, <1>9, <1>10, <1>11, <1>12 DEF Pinned

LEMMA OnlyRetentionDrops ==
  ASSUME [Next]_vars, ~ \E cutoff \in 1..clock : Retention(cutoff)
  PROVE  log \subseteq log' /\ UNCHANGED compactions
BY DEF Next, vars, bounds, store, Insert, Capture, UpdateSession, Resolve, Persist, AppendFact,
   UpdateTask, UpdateFact, Revalidate, Edit, Write, Preview, Previewed, PrepareUndo, Claim

(* privacy.md:51: a pin ends with a newer event of that fact, and with     *)
(* nothing else: rebuilds after late events, grouping and compactions      *)
(* leave it (store/projection.rs, store/maintenance.rs apply_retention).   *)
THEOREM PinsStay == Spec => PinnedSurvives
<1> DEFINE Stays(f) == \/ \E e \in StatedBy(f)' : \A d \in StatedBy(f) : Before(d, e)
                       \/ Pinned(f)' /\ (compactions' # compactions => tables'.fact[f] = tables.fact[f])
<1>1. ASSUME IInv, [Next]_vars, NEW f \in Task, Pinned(f)
      PROVE  Stays(f)
  <2>1. CASE \E cutoff \in 1..clock : Retention(cutoff)
    <3>1. tables'.fact[f] = tables.fact[f]
      BY <1>1, <2>1, RetentionKeepsPins
    <3> QED
      BY <1>1, <3>1 DEF Pinned
  <2>2. CASE ~ \E cutoff \in 1..clock : Retention(cutoff)
    <3>1. log \subseteq log' /\ UNCHANGED compactions
      BY <1>1, <2>2, OnlyRetentionDrops
    <3>2. IInv'
      BY <1>1, NextKeeps
    <3> QED
      BY <1>1, <3>1, <3>2, PinsOutlastOlderEvents
  <2> QED
    BY <2>1, <2>2
<1>2. IInv /\ [Next]_vars => \A f \in Task : Pinned(f) => Stays(f)
  BY <1>1
<1> QED
  BY <1>2, Invariance, PTL DEF Spec, PinnedSurvives
-------------------------------------------------------------------------------
(* What is refused.  A replay meets an operation whose sessions and tasks  *)
(* are there, unless another operation has come in between.                *)

TasksOf(t) == {x \in Task : t.task[x] # None}

(* t has the sessions and the tasks of u, and the same assignments.        *)
Covers(t, u) ==
  /\ t.assigned = u.assigned
  /\ \A s \in Session : u.session[s] # None => t.session[s] # None
  /\ TasksOf(u) \subseteq TasksOf(t)

(* When an operation can be projected. *)
LEMMA GroupingSucceeds ==
  ASSUME NEW t \in Tables, NEW e \in GroupingEvent
  PROVE  Apply(t, e).ok <=>
           /\ t.ok
           /\ \A s \in e.op.sessions : t.session[s] # None
           /\ e.op.task # None /\ e.op.after # None /\ e.op.action # "split" => t.task[e.op.task] # None
<1> DEFINE op == e.op
<1>1. CASE ~t.ok
  BY <1>1 DEF Apply
<1>2. CASE t.ok
  <2> DEFINE m == Moved(t, op)
             a == ApplyGrouping(t, op)
  <2>1. op \in Op /\ Apply(t, e) = a
    BY <1>2 DEF GroupingEvent, Apply
  <2>2. m \in Tables /\ m.ok /\ m.task = Created(t, op).task
    BY <1>2, <2>1, MovedIsTyped DEF Moved, Created, Tables
  <2>3. ~Failed(t).ok
    BY DEF Failed, Tables
  <2>4. op.task # None /\ op.after # None =>
          (m.task[op.task] = None <=> op.action # "split" /\ t.task[op.task] = None)
    <3>1. CASE op.action = "split"
      <4>1. op.task # None => op.task \in DOMAIN t.task
        BY <2>1 DEF Tables, Op, OpOf
      <4>2. Created(t, op).task = [t.task EXCEPT ![op.task] = op.after]
        BY <3>1 DEF Created, Tables
      <4> QED
        BY <2>2, <3>1, <4>1, <4>2
    <3>2. CASE op.action # "split"
      BY <2>2, <3>2 DEF Created
    <3> QED
      BY <3>1, <3>2
  <2> DEFINE none == \E s \in op.sessions : t.session[s] = None
             gone == op.task # None /\ op.after # None /\ m.task[op.task] = None
  <2>5. a = CASE none -> Failed(t)
              [] gone -> Failed(t)
              [] OTHER -> IF op.task = None THEN m ELSE [m EXCEPT !.task[op.task] = op.after]
    BY <2>1, ApplyGroupingDef
  <2>6. [m EXCEPT !.task[op.task] = op.after].ok
    <3> HIDE DEF m
    <3> QED
      BY <2>2 DEF Tables
  <2> HIDE DEF a, m
  <2>7. a.ok <=> ~none /\ ~gone
    <3> HIDE DEF none, gone
    <3> QED
      BY <2>2, <2>3, <2>5, <2>6
  <2>8. Apply(t, e).ok <=> ~none /\ ~gone
    BY <2>1, <2>7
  <2> QED
    BY <1>2, <2>4, <2>8
<1> QED
  BY <1>1, <1>2

(* What an event does to sessions and tasks. *)
LEMMA ApplyRows ==
  ASSUME NEW t \in Tables, NEW e \in Event, t.ok
  PROVE  /\ e.kind \in {"hook", "fact"} =>
              /\ Apply(t, e).ok
              /\ Apply(t, e).session = [t.session EXCEPT ![e.session] = Effective(t, e)]
              /\ TasksOf(Apply(t, e)) = TasksOf(t) \union {Effective(t, e)}
         /\ e.kind = "task" =>
              /\ Apply(t, e).ok
              /\ Apply(t, e).session = t.session
              /\ TasksOf(Apply(t, e)) = TasksOf(t) \union {e.task}
         /\ e.kind = "grouping" /\ Apply(t, e).ok =>
              /\ Apply(t, e).session = MovedSessions(t, e.op)
              /\ TasksOf(Apply(t, e)) = IF e.op.after = None THEN TasksOf(t) \ {e.op.task}
                                        ELSE TasksOf(t) \union ({e.op.task} \ {None})
<1> DEFINE a == Apply(t, e)
<1>1. None \notin Lifecycle /\ None \notin Task /\ "active" \in Lifecycle
  BY NoneAssumption DEF Lifecycle
<1>2. CASE e \in HookEvent \union FactEvent
  <2> DEFINE task == Effective(t, e)
             u(fresh) == EnsureTask(EnsureSession(t, e.session, task), task, fresh)
  <2>1. task \in Task /\ e.session \in Session
    BY <1>2, EffectiveIsTask DEF HookEvent, FactEvent
  <2> HIDE DEF task
  <2>2. \A fresh : /\ u(fresh).ok
                   /\ u(fresh).session = [t.session EXCEPT ![e.session] = task]
                   /\ \A x \in Task : u(fresh).task[x] # None <=> t.task[x] # None \/ x = task
    BY <1>1, <2>1 DEF EnsureTask, EnsureSession, Tables
  <2>3. \E fresh : a.ok = u(fresh).ok /\ a.session = u(fresh).session /\ a.task = u(fresh).task
    <3>1. CASE e \in HookEvent
      <4>1. a = u(e.fresh /\ task = e.task)
        BY <3>1 DEF Apply, ApplyHook, HookEvent, task
      <4> QED
        BY <4>1
    <3>2. CASE e \in FactEvent
      <4>1. a = [u(FALSE) EXCEPT
               !.fact[e.fact] = [task |-> task, by |-> e.session, lifecycle |-> e.lifecycle],
               !.owned[e.session] = IF e.stated THEN task ELSE @]
        BY <3>2 DEF Apply, ApplyFact, FactEvent, task
      <4>2. u(FALSE) \in Tables
        BY <2>1, EnsureTyped
      <4> HIDE DEF a, u
      <4>3. a.ok = u(FALSE).ok /\ a.session = u(FALSE).session /\ a.task = u(FALSE).task
        BY <4>1, <4>2 DEF Tables
      <4> QED
        BY <4>3
    <3> QED
      BY <1>2, <3>1, <3>2
  <2> HIDE DEF a, u
  <2>4. /\ a.ok
        /\ a.session = [t.session EXCEPT ![e.session] = task]
        /\ \A x \in Task : a.task[x] # None <=> t.task[x] # None \/ x = task
    BY <2>2, <2>3
  <2>5. TasksOf(a) = TasksOf(t) \union {task}
    BY <2>1, <2>4 DEF TasksOf
  <2>6. e.kind \in {"hook", "fact"}
    BY <1>2 DEF HookEvent, FactEvent
  <2> QED
    BY <2>4, <2>5, <2>6 DEF a, task
<1>3. CASE e \in TaskEvent
  <2>1. a = [t EXCEPT !.task[e.task] = e.lifecycle] /\ e.lifecycle # None /\ e.kind = "task"
    BY <1>1, <1>3 DEF Apply, ApplyTask, TaskEvent
  <2> HIDE DEF a
  <2>2. /\ a.ok /\ a.session = t.session
        /\ \A x \in Task : a.task[x] # None <=> t.task[x] # None \/ x = e.task
    BY <2>1 DEF Tables
  <2>3. TasksOf(a) = TasksOf(t) \union {e.task}
    BY <1>3, <2>2 DEF TasksOf, TaskEvent
  <2> QED
    BY <2>1, <2>2, <2>3 DEF a
<1>4. CASE e \in GroupingEvent
  <2> DEFINE op == e.op
             m == Moved(t, op)
  <2>1. op \in Op /\ a = ApplyGrouping(t, op) /\ e.kind = "grouping"
    BY <1>4 DEF GroupingEvent, Apply
  <2>2. m \in Tables /\ m.session = MovedSessions(t, op) /\ m.task = Created(t, op).task
    BY <2>1, MovedIsTyped DEF Moved, Created, Tables
  <2>3. ~Failed(t).ok
    BY DEF Failed, Tables
  <2> HIDE DEF m, a
  <2>4. ASSUME a.ok PROVE a = IF op.task = None THEN m ELSE [m EXCEPT !.task[op.task] = op.after]
    BY <2>1, <2>3, <2>4, ApplyGroupingDef DEF m
  <2>5. ASSUME a.ok PROVE a.session = MovedSessions(t, op)
    BY <2>2, <2>4, <2>5 DEF Tables
  <2>6. ASSUME a.ok, NEW x \in Task
        PROVE  a.task[x] # None <=> IF x = op.task THEN op.after # None ELSE t.task[x] # None
    <3>1. CASE op.task = None
      <4>1. x # op.task
        BY <1>1, <3>1
      <4>2. m.task[x] = t.task[x]
        BY <2>2, <4>1 DEF Created, Tables
      <4> QED
        BY <2>4, <2>6, <3>1, <4>1, <4>2
    <3>2. CASE op.task # None
      <4>1. a.task = [m.task EXCEPT ![op.task] = op.after]
        BY <2>2, <2>4, <2>6, <3>2 DEF Tables
      <4>2. x # op.task => m.task[x] = t.task[x]
        BY <2>2 DEF Created, Tables
      <4>3. x \in DOMAIN m.task
        BY <2>2 DEF Tables
      <4> QED
        BY <4>1, <4>2, <4>3
    <3> QED
      BY <3>1, <3>2
  <2>7. op.task # None => op.task \in Task
    BY <2>1 DEF Op, OpOf
  <2>8. ASSUME a.ok
        PROVE  TasksOf(a) = IF op.after = None THEN TasksOf(t) \ {op.task}
                            ELSE TasksOf(t) \union ({op.task} \ {None})
    BY <1>1, <2>6, <2>7, <2>8 DEF TasksOf
  <2> QED
    BY <2>1, <2>5, <2>8 DEF a
<1> QED
  BY <1>2, <1>3, <1>4 DEF Event

LEMMA ApplyCovers ==
  ASSUME NEW t \in Tables, NEW u \in Tables, t.ok, Covers(t, u), NEW e \in Event, Apply(u, e).ok
  PROVE  Apply(t, e).ok /\ Covers(Apply(t, e), Apply(u, e))
<1> DEFINE a == Apply(t, e)
           b == Apply(u, e)
<1>1. u.ok
  BY ApplyFields
<1>2. t.session \in [Session -> Task \union {None}] /\ u.session \in [Session -> Task \union {None}]
  BY DEF Tables, Sessions
<1>3. None \notin Task
  BY NoneAssumption
<1>4. CASE e \in HookEvent \union FactEvent
  <2>1. Effective(t, e) = Effective(u, e)
    BY DEF Covers, Effective
  <2>2. e.kind \in {"hook", "fact"} /\ Effective(t, e) \in Task
    BY <1>4, EffectiveIsTask DEF HookEvent, FactEvent
  <2>3. /\ a.ok
        /\ a.session = [t.session EXCEPT ![e.session] = Effective(t, e)]
        /\ TasksOf(a) = TasksOf(t) \union {Effective(t, e)}
    BY <2>2, ApplyRows
  <2>4. /\ b.session = [u.session EXCEPT ![e.session] = Effective(t, e)]
        /\ TasksOf(b) = TasksOf(u) \union {Effective(t, e)}
    BY <1>1, <2>1, <2>2, ApplyRows
  <2>5. a.assigned = b.assigned
    BY <2>2, <2>3, ApplyFields DEF Covers
  <2> HIDE DEF a, b
  <2> QED
    BY <1>2, <1>3, <2>2, <2>3, <2>4, <2>5 DEF Covers, a, b
<1>5. CASE e \in TaskEvent
  <2>1. e.kind = "task"
    BY <1>5 DEF TaskEvent
  <2>2. a.ok /\ a.session = t.session /\ TasksOf(a) = TasksOf(t) \union {e.task}
    BY <2>1, ApplyRows
  <2>3. b.session = u.session /\ TasksOf(b) = TasksOf(u) \union {e.task}
    BY <1>1, <2>1, ApplyRows
  <2>4. a.assigned = b.assigned
    BY <2>1, <2>2, ApplyFields DEF Covers
  <2> HIDE DEF a, b
  <2> QED
    BY <2>2, <2>3, <2>4 DEF Covers, a, b
<1>6. CASE e \in GroupingEvent
  <2> DEFINE op == e.op
  <2>1. e.kind = "grouping" /\ op.sessions \subseteq Session /\ op.to \in Task
        /\ (op.task # None => op.task \in Task)
    BY <1>6 DEF GroupingEvent, Op, OpOf
  <2>2. a.ok
    BY <1>6, <2>1, GroupingSucceeds DEF Covers, TasksOf
  <2>3. /\ a.session = MovedSessions(t, op)
        /\ TasksOf(a) = IF op.after = None THEN TasksOf(t) \ {op.task}
                        ELSE TasksOf(t) \union ({op.task} \ {None})
    BY <2>1, <2>2, ApplyRows
  <2>4. /\ b.session = MovedSessions(u, op)
        /\ TasksOf(b) = IF op.after = None THEN TasksOf(u) \ {op.task}
                        ELSE TasksOf(u) \union ({op.task} \ {None})
    BY <1>1, <2>1, ApplyRows
  <2>5. a.assigned = Assign(t, op) /\ b.assigned = Assign(u, op)
    BY <2>1, <2>2, ApplyFields
  <2>6. a.assigned = b.assigned
    BY <2>5 DEF Covers, Assign
  <2>7. \A s \in Session : b.session[s] # None => a.session[s] # None
    BY <2>3, <2>4 DEF Covers, MovedSessions
  <2>8. TasksOf(b) \subseteq TasksOf(a)
    BY <2>3, <2>4 DEF Covers
  <2> HIDE DEF a, b
  <2> QED
    BY <2>2, <2>6, <2>7, <2>8 DEF Covers, a, b
<1> QED
  BY <1>4, <1>5, <1>6 DEF Event

LEMMA ApplyExtends ==
  ASSUME NEW t \in Tables, t.ok, NEW e \in Event, e.kind # "grouping"
  PROVE  Apply(t, e).ok /\ Covers(Apply(t, e), t)
<1> DEFINE a == Apply(t, e)
<1>1. CASE e \in HookEvent \union FactEvent
  <2>1. e.kind \in {"hook", "fact"} /\ Effective(t, e) \in Task /\ None \notin Task
    BY <1>1, EffectiveIsTask, NoneAssumption DEF HookEvent, FactEvent
  <2>2. /\ a.ok /\ a.session = [t.session EXCEPT ![e.session] = Effective(t, e)]
        /\ TasksOf(a) = TasksOf(t) \union {Effective(t, e)}
    BY <2>1, ApplyRows
  <2>3. a.assigned = t.assigned
    BY <2>1, <2>2, ApplyFields
  <2>4. t.session \in [Session -> Task \union {None}]
    BY DEF Tables, Sessions
  <2> HIDE DEF a
  <2> QED
    BY <2>1, <2>2, <2>3, <2>4 DEF Covers, a
<1>2. CASE e \in TaskEvent
  <2>1. e.kind = "task"
    BY <1>2 DEF TaskEvent
  <2>2. /\ a.ok /\ a.session = t.session
        /\ TasksOf(a) = TasksOf(t) \union {e.task}
    BY <2>1, ApplyRows
  <2>3. a.assigned = t.assigned
    BY <2>1, <2>2, ApplyFields
  <2> HIDE DEF a
  <2> QED
    BY <2>2, <2>3 DEF Covers, a
<1> QED
  BY <1>1, <1>2 DEF Event, GroupingEvent

(* With more events than operations, a log has a replay that covers it.    *)
LEMMA MoreIsCovered ==
  ASSUME NEW S \in SUBSET Event, IsFiniteSet(S), Placed(S), NEW T \in SUBSET S,
         \A e \in S \ T : e.kind # "grouping",
         Replay(T).ok
  PROVE  Replay(S).ok /\ Covers(Replay(S), Replay(T))
<1> DEFINE Above(t, u) == u.ok => t.ok /\ Covers(t, u)
           R == {p \in Tables \X Tables : Above(p[1], p[2])}
<1>1. <<EmptyTables, EmptyTables>> \in R
  BY EmptyIsTyped DEF Covers
<1>2. ASSUME NEW e \in T, NEW t \in Tables, NEW u \in Tables, Above(t, u)
      PROVE  Above(Apply(t, e), Apply(u, e))
  <2>1. Apply(u, e).ok => u.ok
    BY ApplyFields
  <2> QED
    BY <1>2, <2>1, ApplyCovers
<1>3. ASSUME NEW e \in S \ T, NEW t \in Tables, NEW u \in Tables, Above(t, u)
      PROVE  Above(Apply(t, e), u)
  <2>1. t.ok => Apply(t, e).ok /\ Covers(Apply(t, e), t)
    BY ApplyExtends
  <2> QED
    BY <1>3, <2>1 DEF Covers
<1> HIDE DEF Above
<1>4. \A e \in T, t, u \in Tables : <<t, u>> \in R => <<Apply(t, e), Apply(u, e)>> \in R
  BY <1>2, ApplyIsTyped
<1>5. \A e \in S \ T, t, u \in Tables : <<t, u>> \in R => <<Apply(t, e), u>> \in R
  BY <1>3, ApplyIsTyped
<1> HIDE DEF R
<1>6. <<Replay(S), Replay(T)>> \in R
  BY <1>1, <1>4, <1>5, ReplaysRelate
<1> QED
  BY <1>6 DEF R, Above

(* What the log has before an operation is what the operation needs.       *)
Prior(op) == {d \in log : d.at < op.at}
Ready(op) ==
  /\ \A d \in log : d.kind = "grouping" => d.at < op.at
  /\ Replay(Prior(op)).ok
  /\ \A s \in op.sessions : Replay(Prior(op)).session[s] # None
  /\ op.action \in {"move", "merge"} /\ op.task # None => op.task \in TasksOf(Replay(Prior(op)))

(* An undo that restores a task finds one that its operation had changed.  *)
Inverted(op) ==
  IF op.action = "undo" THEN op.after # None => op.before # None
  ELSE op.before # None => op.after # None

Preparation ==
  /\ \A op \in previews \ overtaken : Ready(op)
  /\ \A op \in previews \union Operations : Inverted(op)

LEMMA InitiallyPrepared == Init => Preparation
BY DEF Init, Preparation, Operations

LEMMA LogIsPlaced ==
  ASSUME IInv
  PROVE  /\ log \in SUBSET Event /\ IsFiniteSet(log) /\ Placed(log)
         /\ tables = Replay(log) /\ tables.ok /\ tables \in Tables
         /\ \A T \in SUBSET log : T \in SUBSET Event /\ IsFiniteSet(T) /\ Replay(T) \in Tables
<1>1. log \in SUBSET Event /\ IsFiniteSet(log) /\ Placed(log) /\ tables = Replay(log) /\ tables.ok
  BY DEF IInv, Types, ProjectionIsReplay
<1>2. \A T \in SUBSET log : T \in SUBSET Event /\ IsFiniteSet(T)
  BY <1>1, FS_Subset
<1> QED
  BY <1>1, <1>2, ReplayIsGrouped DEF Grouped

(* An operation that is prepared when nothing else is known of it is ready *)
(* as soon as its sessions are in a task, and its own task exists.         *)
LEMMA NewIsReady ==
  ASSUME IInv, NEW op \in Op, op.at = clock,
         \A s \in op.sessions : tables.session[s] # None,
         op.action \in {"move", "merge"} /\ op.task # None => tables.task[op.task] # None
  PROVE  Ready(op)
<1>1. \A d \in log : d.at < op.at
  BY DEF IInv, TakenOnce
<1>2. Prior(op) = log
  BY <1>1 DEF Prior
<1>3. op.task # None => op.task \in Task
  BY DEF Op, OpOf
<1> QED
  BY <1>1, <1>2, <1>3, LogIsPlaced DEF Ready, TasksOf

(* What is stored of hook events, facts and tasks makes it no less ready.  *)
LEMMA StaysReady ==
  ASSUME IInv, IInv', NEW op \in Op, Ready(op), log \subseteq log',
         \A d \in log' \ log : d.kind # "grouping"
  PROVE  Ready(op)'
<1> DEFINE P == {d \in log : d.at < op.at}
           Q == {d \in log' : d.at < op.at}
<1>1. log' \in SUBSET Event /\ IsFiniteSet(log') /\ Placed(log')
  BY DEF IInv, Types
<1>2. Q \in SUBSET Event /\ IsFiniteSet(Q) /\ P \in SUBSET Q /\ Placed(Q)
  BY <1>1, FS_Subset DEF Placed
<1>3. \A e \in Q \ P : e.kind # "grouping"
  OBVIOUS
<1>4. P = Prior(op) /\ Q = Prior(op)'
  BY DEF Prior
<1> HIDE DEF P, Q
<1>5. Replay(Q).ok /\ Covers(Replay(Q), Replay(P))
  BY <1>2, <1>3, <1>4, MoreIsCovered DEF Ready
<1>6. op.sessions \subseteq Session
  BY DEF Op, OpOf
<1>7. \A d \in log' : d.kind = "grouping" => d.at < op.at
  BY DEF Ready
<1>8. \A s \in op.sessions : Replay(Q).session[s] # None
  BY <1>4, <1>5, <1>6 DEF Ready, Covers
<1>9. op.action \in {"move", "merge"} /\ op.task # None => op.task \in TasksOf(Replay(Q))
  BY <1>4, <1>5 DEF Ready, Covers
<1> QED
  BY <1>4, <1>5, <1>7, <1>8, <1>9 DEF Ready

LEMMA PreparationStays ==
  ASSUME IInv, IInv', Preparation, UNCHANGED <<previews, overtaken>>, log \subseteq log',
         \A d \in log' \ log : d.kind # "grouping"
  PROVE  Preparation'
<1>1. previews \subseteq Op
  BY DEF IInv, Types
<1>2. \A op \in previews \ overtaken : Ready(op)'
  BY <1>1, StaysReady DEF Preparation
<1>3. Operations' = Operations
  BY DEF Operations
<1> QED
  BY <1>2, <1>3 DEF Preparation

LEMMA PreviewPrepares ==
  ASSUME IInv, IInv', Preparation, NEW op \in Op, op.at = clock, Previewed(op), Inverted(op),
         \A s \in op.sessions : tables.session[s] # None,
         op.action \in {"move", "merge"} /\ op.task # None => tables.task[op.task] # None
  PROVE  Preparation'
<1>1. /\ previews' = previews \union {op}
      /\ UNCHANGED <<log, overtaken>>
  BY DEF Previewed, store
<1>2. Ready(op)
  BY NewIsReady
<1>3. previews' \subseteq Op
  BY DEF IInv, Types
<1>4. \A o \in previews' \ overtaken' : Ready(o)
  BY <1>1, <1>2 DEF Preparation
<1>5. \A o \in previews' \ overtaken' : Ready(o)'
  BY <1>1, <1>3, <1>4, StaysReady
<1>6. Operations' = Operations
  BY <1>1 DEF Operations
<1> QED
  BY <1>1, <1>5, <1>6 DEF Preparation

LEMMA PreviewsPrepare ==
  ASSUME IInv, IInv', Preparation,
         NEW o \in Request, NEW a \in {"move", "merge", "split"},
         NEW ss \in SUBSET Session, NEW to \in Task, Preview(o, a, ss, to)
  PROVE  Preparation'
<1>1. PICK from \in Task : /\ tables.task[from] # None
                           /\ ss \subseteq SessionsOf(from)
                           /\ Previewed(PreviewOf(o, a, ss, from, to))
  BY DEF Preview
<1> DEFINE op == PreviewOf(o, a, ss, from, to)
<1>2. None \notin Task /\ None # "active" /\ None # "completed"
  BY NoneAssumption DEF Lifecycle
<1>3. op \in Op /\ op.at = clock
  BY PreviewIsTyped
<1>4. \A s \in op.sessions : tables.session[s] # None
  BY <1>1, <1>2 DEF PreviewOf, PreviewAt, SessionsOf
<1>5. op.action \in {"move", "merge"} /\ op.task # None => tables.task[op.task] # None
  BY <1>1 DEF PreviewOf, PreviewAt
<1>6. Inverted(op)
  BY <1>2 DEF PreviewOf, PreviewAt, Inverted
<1> QED
  BY <1>1, <1>3, <1>4, <1>5, <1>6, PreviewPrepares

LEMMA UndoPrepares ==
  ASSUME IInv, IInv', Preparation, NEW op \in Operations, PrepareUndo(op)
  PROVE  Preparation'
<1> DEFINE u == [op EXCEPT !.id = Undo(@), !.action = "undo", !.from = op.to, !.to = op.from,
                           !.before = op.after, !.after = op.before, !.at = clock]
<1>1. op \in Op /\ op.action # "undo" /\ op.to \in Task
  BY DEF Operations, IInv, Types, Event, HookEvent, FactEvent, TaskEvent, GroupingEvent, PrepareUndo,
         Op, OpOf
<1>2. u \in Op /\ u.at = clock
  BY <1>1, UndoIsTyped
<1>3. u.action = "undo" /\ u.sessions = op.sessions /\ u.before = op.after /\ u.after = op.before
  BY <1>1 DEF Op, OpOf
<1>4. \A s \in u.sessions : tables.session[s] # None
  BY <1>1, <1>3, NoneAssumption DEF PrepareUndo
<1>5. Inverted(u)
  BY <1>1, <1>3 DEF Preparation, Inverted
<1>6. Previewed(u)
  BY DEF PrepareUndo
<1> HIDE DEF u
<1> QED
  BY <1>2, <1>3, <1>4, <1>5, <1>6, PreviewPrepares

(* What is claimed overtakes what is prepared. *)
LEMMA ClaimPrepares ==
  ASSUME IInv, IInv', Preparation, NEW op \in previews, Claim(op)
  PROVE  Preparation'
<1> DEFINE e == [kind |-> "grouping", at |-> op.at, tie |-> 0, op |-> op]
<1>1. /\ log' \in {log, log \union {e}}
      /\ previews' = previews \ {op}
      /\ overtaken' = IF log' = log THEN overtaken \ {op} ELSE previews'
  BY DEF Claim, Insert, store
<1>2. Operations' \subseteq Operations \union {op}
  BY <1>1 DEF Operations
<1>3. \A o \in previews' \ overtaken' : Ready(o)'
  <2>1. CASE log' = log
    <3>1. previews' \ overtaken' \subseteq previews \ overtaken /\ previews \subseteq Op
      BY <1>1, <2>1 DEF IInv, Types
    <3> QED
      BY <2>1, <3>1, StaysReady DEF Preparation
  <2>2. CASE log' # log
    BY <1>1, <2>2
  <2> QED
    BY <2>1, <2>2
<1> QED
  BY <1>1, <1>2, <1>3 DEF Preparation

LEMMA RetentionPrepares ==
  ASSUME IInv, Preparation, NEW cutoff \in 1..clock, Retention(cutoff)
  PROVE  Preparation'
<1>1. previews = {} /\ previews' = {}
  BY DEF Retention, prepared
<1>2. Operations' \subseteq Operations
  <2>1. log' \subseteq log
    BY DEF Retention, Retained, store
  <2> QED
    BY <2>1 DEF Operations
<1> QED
  BY <1>1, <1>2 DEF Preparation

LEMMA PreparationKept ==
  ASSUME IInv, IInv', Preparation, [Next]_vars
  PROVE  Preparation'
<1>1. CASE UNCHANGED vars
  BY <1>1, PreparationStays DEF vars
<1>2. CASE \E o \in Request, a \in {"move", "merge", "split"}, ss \in SUBSET Session, to \in Task :
             Preview(o, a, ss, to)
  BY <1>2, PreviewsPrepare
<1>3. CASE \E op \in Operations : PrepareUndo(op)
  BY <1>3, UndoPrepares
<1>4. CASE \E op \in previews : Claim(op)
  BY <1>4, ClaimPrepares
<1>5. CASE \E cutoff \in 1..clock : Retention(cutoff)
  BY <1>5, RetentionPrepares
<1>6. CASE \/ \E s \in Session : Capture(s) \/ UpdateSession(s)
           \/ \E c \in inflight : Resolve(c)
           \/ \E t \in Task, l \in Lifecycle : UpdateTask(t, l)
           \/ \E f \in Task, l \in {"pinned", "invalid"} : UpdateFact(f, l)
           \/ \E f \in Task : Revalidate(f)
  <2>1. UNCHANGED <<log, previews, overtaken>>
    BY <1>6 DEF Capture, UpdateSession, Resolve, UpdateTask, UpdateFact, Revalidate, Edit, store, prepared
  <2> QED
    BY <2>1, PreparationStays
<1>7. CASE \E c \in inflight : Persist(c) \/ AppendFact(c)
  <2>1. log \subseteq log' /\ (\A d \in log' \ log : d.kind # "grouping")
        /\ UNCHANGED <<previews, overtaken>>
    BY <1>7 DEF Persist, AppendFact, Insert, store, prepared
  <2> QED
    BY <2>1, PreparationStays
<1>8. CASE \E e \in held : Write(e)
  <2>1. \A e \in held : e.kind # "grouping"
    BY DEF IInv, Types, HookEvent, FactEvent, TaskEvent
  <2>2. log \subseteq log' /\ (\A d \in log' \ log : d.kind # "grouping")
        /\ UNCHANGED <<previews, overtaken>>
    BY <1>8, <2>1 DEF Write, Insert, store, prepared
  <2> QED
    BY <2>2, PreparationStays
<1> QED
  BY <1>1, <1>2, <1>3, <1>4, <1>5, <1>6, <1>7, <1>8 DEF Next

LEMMA OthersAreProjected ==
  ASSUME IInv, NEW e \in Event, e.kind # "grouping", \A d \in log : d.at # e.at \/ d.tie # e.tie
  PROVE  Project(e).ok
<1> DEFINE S == log \union {e}
<1>1. S \in SUBSET Event /\ IsFiniteSet(S) /\ Placed(S) /\ log \in SUBSET S
  BY LogIsPlaced, FS_AddElement DEF Placed
<1>2. \A d \in S \ log : d.kind # "grouping"
  OBVIOUS
<1> HIDE DEF S
<1>3. Replay(S).ok
  BY <1>1, <1>2, LogIsPlaced, MoreIsCovered
<1> QED
  BY <1>3, ProjectReplays DEF S

LEMMA ReadyIsProjected ==
  ASSUME IInv, NEW op \in Op, Ready(op), ~Restores(op), \A d \in log : d.at # op.at
  PROVE  Project([kind |-> "grouping", at |-> op.at, tie |-> 0, op |-> op]).ok
<1> DEFINE e == [kind |-> "grouping", at |-> op.at, tie |-> 0, op |-> op]
           P == Prior(op)
           T == P \union {e}
           S == log \union {e}
<1>1. e \in GroupingEvent /\ e \in Event /\ e.at = op.at /\ e.tie = 0 /\ e.op = op /\ op.at \in Nat
  <2>1. op.at \in Nat
    BY DEF Op, OpOf
  <2> QED
    BY <2>1 DEF Event, GroupingEvent
<1>2. S \in SUBSET Event /\ IsFiniteSet(S) /\ Placed(S)
  BY <1>1, LogIsPlaced, FS_AddElement DEF Placed
<1>3. P \in SUBSET Event /\ IsFiniteSet(P) /\ Replay(P) \in Tables
  BY LogIsPlaced DEF Prior
<1>4. Apply(Replay(P), e).ok
  <2>1. op.task # None /\ op.after # None /\ op.action # "split" => Replay(P).task[op.task] # None
    BY DEF Ready, TasksOf, Restores, Op, OpOf
  <2> HIDE DEF e, P
  <2> QED
    BY <1>1, <1>3, <2>1, GroupingSucceeds DEF Ready, P
<1>5. Replay(T) = Apply(Replay(P), e)
  <2>1. \A d \in P : Before(d, e)
    BY DEF Prior, Before
  <2>2. e \notin P
    BY <1>1 DEF Prior
  <2>3. Timed(T)
    BY <1>1, <1>3, EventsAreTimed
  <2> HIDE DEF e, P
  <2> QED
    BY <1>3, <2>1, <2>2, <2>3, ReplayAppends
<1>6. T \in SUBSET S
  BY DEF Prior
<1>7. \A d \in S \ T : d.kind # "grouping"
  BY DEF Ready, Prior
<1> HIDE DEF e, P, T, S
<1>8. Replay(S).ok
  BY <1>2, <1>4, <1>5, <1>6, <1>7, MoreIsCovered
<1>9. \A d \in log : d.at # e.at
  BY <1>1
<1>10. Project(e) = Replay(log \union {e})
  BY <1>1, <1>9, ProjectReplays
<1> QED
  BY <1>8, <1>10 DEF e, S

LEMMA NewestIsProjected ==
  ASSUME IInv, NEW op \in Op, Valid(op), Restores(op), Inverted(op),
         ~ \E d \in log : Before([kind |-> "grouping", at |-> op.at, tie |-> 0, op |-> op], d)
  PROVE  Project([kind |-> "grouping", at |-> op.at, tie |-> 0, op |-> op]).ok
<1> DEFINE e == [kind |-> "grouping", at |-> op.at, tie |-> 0, op |-> op]
<1>1. op.at \in Nat /\ op.from \in Task
  BY DEF Op, OpOf
<1>2. e \in GroupingEvent /\ e.op = op
  BY <1>1 DEF GroupingEvent
<1>3. \A s \in op.sessions : tables.session[s] # None
  BY <1>1, NoneAssumption DEF Valid
<1>4. op.task # None => tables.task[op.task] # None
  BY DEF Valid, Restores, Inverted
<1>5. Project(e) = Apply(tables, e)
  BY DEF Project
<1> HIDE DEF e
<1>6. Apply(tables, e).ok
  BY <1>2, <1>3, <1>4, LogIsPlaced, GroupingSucceeds
<1> QED
  BY <1>5, <1>6 DEF e

LEMMA RejectedOnlyIfOvertaken ==
  ASSUME IInv, Preparation, [Next]_vars, NEW e \in rejected' \ rejected
  PROVE  /\ e.kind = "grouping"
         /\ \/ e.op \in overtaken
            \/ Restores(e.op) /\ \E d \in log : Before(e, d)
<1>1. CASE \E c \in inflight : Persist(c)
  <2>1. PICK c \in inflight : Persist(c)
    BY <1>1
  <2> DEFINE h == [kind |-> "hook", at |-> c.at, tie |-> 1, session |-> c.session,
                   task |-> c.task, fresh |-> c.fresh]
  <2>2. c \in Ingested /\ c.pc = "resolved"
    BY <2>1 DEF IInv, Types, Captured, Persist
  <2>3. h \in Event /\ h.kind # "grouping" /\ \A d \in log : d.at # h.at
    BY <2>2 DEF Ingested, Event, HookEvent, IInv, Stored
  <2>4. Insert(h)
    BY <2>1 DEF Persist
  <2> HIDE DEF h
  <2> QED
    BY <2>3, <2>4, OthersAreProjected DEF Insert
<1>2. CASE \E c \in inflight : AppendFact(c)
  <2>1. PICK c \in inflight, tie \in {0, 2} :
          /\ c.pc = "persisted"
          /\ Insert([kind |-> "fact", at |-> c.at, tie |-> tie, session |-> c.session,
                     task |-> c.task, fact |-> c.task, lifecycle |-> "candidate", stated |-> TRUE])
    BY <1>2 DEF AppendFact
  <2> DEFINE h == [kind |-> "fact", at |-> c.at, tie |-> tie, session |-> c.session,
                   task |-> c.task, fact |-> c.task, lifecycle |-> "candidate", stated |-> TRUE]
  <2>2. c \in Ingested
    BY <2>1 DEF IInv, Types, Captured
  <2>3. h \in Event /\ h.kind # "grouping" /\ \A d \in log : d.at # h.at \/ d.tie # h.tie
    BY <2>2 DEF Ingested, Event, FactEvent, FactLifecycle, IInv, Stored
  <2> HIDE DEF h
  <2> QED
    BY <2>1, <2>3, OthersAreProjected DEF Insert, h
<1>3. CASE \E h \in held : Write(h)
  <2>1. PICK h \in held : Insert(h)
    BY <1>3 DEF Write
  <2>2. h \in Event /\ h.kind # "grouping" /\ \A d \in log : d.at # h.at
    BY DEF IInv, Types, Stored, Event, HookEvent, FactEvent, TaskEvent
  <2> QED
    BY <2>1, <2>2, OthersAreProjected DEF Insert
<1>4. CASE \E op \in previews : Claim(op)
  <2>1. PICK op \in previews : Claim(op)
    BY <1>4
  <2> DEFINE g == [kind |-> "grouping", at |-> op.at, tie |-> 0, op |-> op]
  <2>2. Valid(op) /\ Insert(g) /\ ~Project(g).ok /\ e = g
    BY <2>1 DEF Claim, Insert
  <2>3. op \in Op /\ Inverted(op) /\ \A d \in log : d.at # op.at
    BY DEF IInv, Types, Stored, Preparation
  <2>4. op \in overtaken \/ Ready(op)
    BY DEF Preparation
  <2>5. op \in overtaken \/ Restores(op)
    BY <2>2, <2>3, <2>4, ReadyIsProjected
  <2>6. Restores(op) => \E d \in log : Before(g, d)
    BY <2>2, <2>3, NewestIsProjected
  <2> QED
    BY <2>2, <2>5, <2>6
<1>5. CASE UNCHANGED rejected
  BY <1>5
<1> QED
  BY <1>1, <1>2, <1>3, <1>4, <1>5
     DEF Next, vars, Capture, UpdateSession, Resolve, UpdateTask, UpdateFact, Revalidate, Edit,
         Preview, Previewed, PrepareUndo, Retention

(* The store refuses no event of a hook, a fact or a task, in whatever     *)
(* order it is stored, and an operation only in a race with another one    *)
(* (store/projection.rs insert_event_tx, rebuild_projections_tx;           *)
(* store/operations.rs claim_task_grouping_operation). *)
THEOREM RefusalsAreOvertaken == Spec => OnlyOvertakenIsRejected
<1>1. IInv /\ IInv' /\ Preparation /\ [Next]_vars => Preparation'
  BY PreparationKept
<1>2. Spec => []Preparation
  BY <1>1, InitiallyPrepared, Invariance, PTL DEF Spec
<1>3. IInv /\ Preparation /\ [Next]_vars =>
        \A e \in rejected' \ rejected :
          /\ e.kind = "grouping"
          /\ \/ e.op \in overtaken
             \/ Restores(e.op) /\ \E d \in log : Before(e, d)
  BY RejectedOnlyIfOvertaken
<1> QED
  BY <1>2, <1>3, Invariance, PTL DEF Spec, OnlyOvertakenIsRejected
===============================================================================
