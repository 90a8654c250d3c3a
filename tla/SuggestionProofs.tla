---------------------------- MODULE SuggestionProofs ----------------------------
(***************************************************************************)
(* Proofs about Suggestion, for any number of prompts, attempts and        *)
(* failures.                                                               *)
(*                                                                         *)
(* That it is shown once follows from IInv, which holds however often a    *)
(* prompt is ingested.  That it is not lost follows from KInv on top of    *)
(* IInv: the order in which prompts are delivered (Orderly), and, as long  *)
(* as none is ingested again, what each claim still waits for (Kept).      *)
(***************************************************************************)
EXTENDS Suggestion, WellFoundedInduction, TLAPS

Generation == 0..MaxPrompts
HookState == {"idle", "sent", "retry", "fallback", "shown", "plain", "queued"}

Types ==
  /\ events \subseteq Event
  /\ due \in BOOLEAN
  /\ hook \in [Prompt -> HookState]
  /\ sends \in [Prompt -> 0..MaxSends]
  /\ mail \subseteq [prompt : Prompt, number : 1..MaxSends]
  /\ queue \subseteq Prompt /\ file \subseteq Prompt /\ todo \subseteq file
  /\ pc \in [Runner -> {"idle", "claim", "read", "answer"}]
  /\ work \in [Runner -> Work]
  /\ faults \in Nat

(* A generation is there to be claimed from the start, or once a prompt    *)
(* that nobody answered has opened it.                                     *)
Opened(g) == g = Initial \/ RearmOf(g) \in events

Unique == \A c, d \in Claims : c.generation = d.generation => c = d
ClaimsAreOpened == \A c \in Claims : Opened(c.generation)

(* Prompts that are replayed, and those that open a generation, have been  *)
(* queued: nobody waits for their answers.                                 *)
RearmedIsQueued == \A e \in Rearms : e = RearmOf(e.source) /\ hook[e.source] = "queued"
QueuedIsQueued == \A p \in queue \union file : hook[p] = "queued"

(* What is still to be shown: a generation that is unclaimed, or claimed   *)
(* by a prompt that has not been replayed.  There is one at most.          *)
IsTip(g) == Opened(g) /\ \A c \in Claims : c.generation = g => RearmOf(c.source) \notin events
OneTip == \A g, h \in Generation : IsTip(g) /\ IsTip(h) => g = h

HasClaim(p) == \E c \in Claims : c.source = p

Works(r) ==
  /\ r = "replay" /\ pc[r] \in {"claim", "answer"} => hook[work[r].prompt] = "queued"
  /\ pc[r] = "claim" /\ work[r].generation # None => Opened(work[r].generation)
  /\ pc[r] = "answer" /\ work[r].advice => HasClaim(work[r].prompt)

ShownHasClaim == \A p \in Prompt : hook[p] = "shown" => HasClaim(p)

IInv == /\ Types /\ Unique /\ ClaimsAreOpened /\ OneTip /\ RearmedIsQueued /\ QueuedIsQueued
        /\ ShownHasClaim /\ \A r \in Runner : Works(r)
-------------------------------------------------------------------------------
LEMMA Bounds ==
  /\ MaxPrompts \in Nat /\ MaxPrompts >= 1 /\ MaxSends \in Nat /\ MaxFaults \in Nat
  /\ 1 \in Prompt /\ Initial \in Generation /\ Initial \notin Prompt
  /\ None \notin Generation /\ None \in 0..None
  /\ Generation \subseteq 0..None /\ Prompt \subseteq Generation
  BY BoundsAssumption DEF Prompt, Initial, Generation, None

(* Bounded sets of numbers have a minimum and a maximum. *)
LEMMA MinIsIn ==
  ASSUME NEW T \in SUBSET Nat, T # {}
  PROVE Min(T) \in T /\ \A y \in T : Min(T) <= y
<1> DEFINE R == {ss \in Nat \X Nat : ss[1] < ss[2]}
<1>1. IsWellFoundedOn(R, Nat)
  BY NatLessThanWellFounded DEF OpToRel
<1>2. \A a, b \in Nat : a < b => <<a, b>> \in R
  OBVIOUS
<1> HIDE DEF R
<1>3. PICK x \in T : \A y \in T : <<y, x>> \notin R
  BY <1>1, WFMin
<1>4. \A y \in T : x <= y
  <2> SUFFICES ASSUME NEW y \in T, ~(x <= y) PROVE FALSE
    OBVIOUS
  <2>1. x \in Nat /\ y \in Nat
    OBVIOUS
  <2>2. y < x
    BY <2>1
  <2>3. <<y, x>> \in R
    BY <1>2, <2>1, <2>2
  <2> QED BY <1>3, <2>3
<1> QED BY <1>4 DEF Min

LEMMA MaxIsIn ==
  ASSUME NEW n \in Nat, NEW S \in SUBSET (0..n), S # {}
  PROVE Max(S) \in S /\ \A y \in S : Max(S) >= y
<1> DEFINE T == {x \in 0..n : n - x \in S}
<1>1. T \in SUBSET Nat /\ T # {}
  <2>1. PICK y \in S : TRUE
    OBVIOUS
  <2>2. y \in 0..n
    OBVIOUS
  <2>3. n - y \in 0..n /\ n - (n - y) = y
    BY <2>2
  <2>4. n - y \in T
    BY <2>3
  <2>5. T \subseteq Nat
    OBVIOUS
  <2> HIDE DEF T
  <2> QED BY <2>4, <2>5
<1> HIDE DEF T
<1>2. PICK x \in T : \A y \in T : x <= y
  BY <1>1, MinIsIn
<1>3. n - x \in S /\ x \in 0..n
  BY DEF T
<1>4. ASSUME NEW z \in S PROVE n - x >= z
  <2>1. z \in 0..n
    OBVIOUS
  <2>2. n - z \in 0..n /\ n - (n - z) = z
    BY <2>1
  <2>3. n - z \in T
    BY <2>2 DEF T
  <2>4. x <= n - z
    BY <1>2, <2>3
  <2> QED BY <1>3, <2>1, <2>4
<1> QED BY <1>3, <1>4 DEF Max

LEMMA RearmTyped ==
  ASSUME NEW p \in Prompt
  PROVE /\ RearmOf(p) \in Event /\ RearmOf(p).state = "pending_replay"
        /\ RearmOf(p).source = p /\ RearmOf(p).generation = p
        /\ \A g \in Generation : RearmOf(g) = RearmOf(p) => g = p
<1>1. p \in Generation /\ 3 * p + 1 \in Nat
  BY Bounds DEF Prompt
<1> QED BY <1>1 DEF RearmOf, Event, Generation

LEMMA ClaimTyped ==
  ASSUME NEW p \in Prompt, NEW g \in Generation
  PROVE /\ ClaimOf(p, g) \in Event /\ ClaimOf(p, g).state = "claimed"
        /\ ClaimOf(p, g).source = p /\ ClaimOf(p, g).generation = g
<1>1. 3 * p \in Nat /\ 3 * g + 2 \in Nat
  BY Bounds DEF Prompt, Generation
<1> QED BY <1>1 DEF ClaimOf, Event, Generation

(* What is proposed to a prompt is a generation that has been opened.      *)
LEMMA ProposalIsOpened ==
  ASSUME Types, ClaimsAreOpened, RearmedIsQueued, NEW p \in Prompt
  PROVE Proposal(p) \in 0..None /\ (Proposal(p) # None => Opened(Proposal(p)))
<1>1. CASE OwnClaim(p) # {}
  <2>1. PICK c \in Claims : c.generation = LatestGeneration
    BY <1>1 DEF OwnClaim
  <2>2. c.generation \in Generation
    BY DEF Types, Claims, Event, Generation
  <2>3. Proposal(p) = c.generation
    BY <1>1, <2>1 DEF Proposal
  <2> QED BY <2>2, <2>3, Bounds DEF ClaimsAreOpened
<1>2. CASE OwnClaim(p) = {} /\ Open # {}
  <2>1. Open \subseteq 0..MaxPrompts
    BY DEF Types, Open, Rearms, Event
  <2>2. Max(Open) \in Open
    BY <1>2, <2>1, Bounds, MaxIsIn
  <2>3. PICK e \in Rearms : Max(Open) = e.generation
    BY <2>2 DEF Open
  <2>4. e = RearmOf(e.source) /\ e.source \in Prompt
    BY DEF RearmedIsQueued, Types, Rearms, Event
  <2>5. e.generation = e.source
    BY <2>4, RearmTyped
  <2>6. Opened(e.generation) /\ e.generation \in Generation
    BY <2>4, <2>5, Bounds DEF Opened, Rearms
  <2>7. Proposal(p) = Max(Open)
    BY <1>2 DEF Proposal
  <2> QED BY <2>3, <2>6, <2>7, Bounds
<1>3. CASE OwnClaim(p) = {} /\ Open = {}
  <2>1. Proposal(p) \in {Initial, None}
    BY <1>3 DEF Proposal
  <2> QED BY <2>1, Bounds DEF Opened
<1> QED BY <1>1, <1>2, <1>3
-------------------------------------------------------------------------------
(* What a step does to the events.                                         *)

LEMMA NothingHappens ==
  ASSUME events' = events
  PROVE /\ Claims' = Claims /\ Rearms' = Rearms
        /\ \A g : Opened(g)' <=> Opened(g)
        /\ \A p : HasClaim(p)' <=> HasClaim(p)
        /\ Unique => Unique'
        /\ ClaimsAreOpened => ClaimsAreOpened'
        /\ OneTip => OneTip'
<1>1. Claims' = Claims /\ Rearms' = Rearms
  BY DEF Claims, Rearms
<1> QED BY <1>1 DEF Opened, HasClaim, Unique, ClaimsAreOpened, OneTip, IsTip

(* Claiming an open generation takes no other one away.                    *)
LEMMA Claiming ==
  ASSUME IInv, NEW p \in Prompt, NEW g \in Generation, Opened(g), ~IsClaimed(g),
         events' = events \union {ClaimOf(p, g)}
  PROVE /\ events' \subseteq Event
        /\ Rearms' = Rearms /\ Claims \subseteq Claims'
        /\ \A h : Opened(h)' <=> Opened(h)
        /\ Unique' /\ ClaimsAreOpened' /\ OneTip'
        /\ \A q : HasClaim(q) => HasClaim(q)'
        /\ HasClaim(p)'
<1> DEFINE c == ClaimOf(p, g)
<1>1. c \in Event /\ c.state = "claimed" /\ c.source = p /\ c.generation = g
  BY ClaimTyped
<1>2. Claims' = Claims \union {c} /\ Rearms' = Rearms
  BY <1>1 DEF Claims, Rearms
<1>3. \A x : RearmOf(x).state = "pending_replay"
  BY DEF RearmOf
<1>4. \A x : RearmOf(x) # c
  BY <1>1, <1>3
<1>5. \A x : RearmOf(x) \in events' <=> RearmOf(x) \in events
  BY <1>4
<1>6. \A h : Opened(h)' <=> Opened(h)
  BY <1>5 DEF Opened
<1> HIDE DEF c
<1>7. Unique'
  BY <1>1, <1>2 DEF IInv, Unique, IsClaimed
<1>8. ClaimsAreOpened'
  BY <1>1, <1>2, <1>6 DEF IInv, ClaimsAreOpened
<1>9. \A h : IsTip(h)' => IsTip(h)
  BY <1>2, <1>5, <1>6 DEF IsTip
<1>10. OneTip'
  BY <1>9 DEF IInv, OneTip, Generation
<1>11. HasClaim(p)' /\ \A q : HasClaim(q) => HasClaim(q)'
  BY <1>1, <1>2 DEF HasClaim
<1>12. events' \subseteq Event
  BY <1>1 DEF IInv, Types, c
<1> QED BY <1>2, <1>6, <1>7, <1>8, <1>10, <1>11, <1>12

(* A prompt that opens a generation gives up the one it had claimed.       *)
LEMMA Rearming ==
  ASSUME IInv, NEW p \in Prompt, HasClaim(p), Rearm(p)
  PROVE /\ events' \subseteq Event
        /\ Rearms' = Rearms \union {RearmOf(p)} /\ Claims' = Claims
        /\ \A h : Opened(h) => Opened(h)'
        /\ Unique' /\ ClaimsAreOpened' /\ OneTip'
        /\ \A q : HasClaim(q)' <=> HasClaim(q)
<1>1. /\ RearmOf(p) \in Event /\ RearmOf(p).state = "pending_replay"
      /\ RearmOf(p).source = p /\ RearmOf(p).generation = p
      /\ \A g \in Generation : RearmOf(g) = RearmOf(p) => g = p
  BY RearmTyped
<1>2. events' = events \union {RearmOf(p)}
  BY DEF Rearm
<1>3. Claims' = Claims /\ Rearms' = Rearms \union {RearmOf(p)}
  BY <1>1, <1>2 DEF Claims, Rearms
<1>4. \A h : Opened(h) => Opened(h)'
  BY <1>2 DEF Opened
<1>5. Unique' /\ ClaimsAreOpened' /\ \A q : HasClaim(q)' <=> HasClaim(q)
  BY <1>3, <1>4 DEF IInv, Unique, ClaimsAreOpened, HasClaim
<1>6. OneTip'
  <2>1. CASE RearmOf(p) \in events
    <3>1. events' = events
      BY <1>2, <2>1
    <3> QED BY <3>1, NothingHappens DEF IInv
  <2>2. CASE RearmOf(p) \notin events
    <3>1. PICK c \in Claims : c.source = p
      BY DEF HasClaim
    <3>2. c.generation \in Generation
      BY DEF IInv, Types, Claims, Event, Generation
    <3>3. IsTip(c.generation)
      BY <2>2, <3>1 DEF IInv, Unique, ClaimsAreOpened, IsTip
    <3>4. ASSUME NEW g \in Generation, IsTip(g)' PROVE g = p
      <4> SUFFICES ASSUME g # p PROVE FALSE
        OBVIOUS
      <4>1. Opened(g)
        BY <1>1, <1>2, <3>4 DEF IsTip, Opened
      <4>2. IsTip(g)
        BY <1>2, <1>3, <3>4, <4>1 DEF IsTip
      <4>3. g = c.generation
        BY <3>2, <3>3, <4>2 DEF IInv, OneTip
      <4>4. RearmOf(c.source) \notin events'
        BY <1>3, <3>4, <4>3 DEF IsTip
      <4> QED BY <1>2, <3>1, <4>4
    <3> QED BY <3>4 DEF OneTip, Generation
  <2> QED BY <2>1, <2>2
<1> QED BY <1>1, <1>2, <1>3, <1>4, <1>5, <1>6 DEF IInv, Types
-------------------------------------------------------------------------------
(* What a step does to the rest.                                           *)

LEMMA Frame ==
  ASSUME IInv, events' = events, UNCHANGED <<pc, work>>,
         hook' \in [Prompt -> HookState],
         \A p \in Prompt : hook[p] = "queued" => hook'[p] = "queued",
         \A p \in Prompt : hook'[p] = "shown" => hook[p] = "shown",
         \A p \in queue' \union file' : hook'[p] = "queued",
         due' \in BOOLEAN, sends' \in [Prompt -> 0..MaxSends],
         mail' \subseteq [prompt : Prompt, number : 1..MaxSends],
         queue' \subseteq Prompt, file' \subseteq Prompt, todo' \subseteq file', faults' \in Nat
  PROVE IInv'
<1>1. Types'
  BY DEF IInv, Types
<1>2. Unique' /\ ClaimsAreOpened' /\ OneTip'
  BY NothingHappens DEF IInv
<1>3. RearmedIsQueued'
  <2>1. \A e \in Rearms : e.source \in Prompt
    BY DEF IInv, Types, Rearms, Event
  <2> QED BY <2>1 DEF IInv, RearmedIsQueued, Rearms
<1>4. QueuedIsQueued' /\ ShownHasClaim'
  BY DEF IInv, QueuedIsQueued, ShownHasClaim, HasClaim, Claims
<1>5. \A r \in Runner : Works(r)'
  <2>1. \A r \in Runner : work[r].prompt \in Prompt
    BY DEF IInv, Types, Work
  <2> QED BY <2>1 DEF IInv, Works, Opened, HasClaim, Claims
<1> QED BY <1>1, <1>2, <1>3, <1>4, <1>5 DEF IInv

(* A hook keeps to its prompt, and a queued one is done. *)
LEMMA HookSteps ==
  ASSUME IInv, NEW p \in Prompt, Send(p) \/ GiveUp(p) \/ AppendFallback(p)
  PROVE IInv'
<1>1. CASE Send(p)
  <2>1. sends[p] + 1 \in 1..MaxSends /\ sends' \in [Prompt -> 0..MaxSends]
    BY <1>1, Bounds DEF Send, IInv, Types
  <2>2. mail' \subseteq [prompt : Prompt, number : 1..MaxSends]
    BY <1>1, <2>1 DEF Send, IInv, Types
  <2>3. hook[p] \in {"idle", "retry"} /\ hook' = [hook EXCEPT ![p] = "sent"]
    BY <1>1 DEF Send, GotoHook
  <2>4. /\ hook' \in [Prompt -> HookState]
        /\ \A q \in Prompt : hook[q] = "queued" => hook'[q] = "queued"
        /\ \A q \in Prompt : hook'[q] = "shown" => hook[q] = "shown"
    BY <2>3 DEF IInv, Types, HookState
  <2>5. UNCHANGED <<events, due, queue, file, todo, pc, work, faults>>
    BY <1>1 DEF Send, files
  <2>6. \A q \in queue' \union file' : hook'[q] = "queued"
    BY <2>4, <2>5 DEF IInv, QueuedIsQueued, Types
  <2> QED BY <2>1, <2>2, <2>4, <2>5, <2>6, Frame DEF IInv, Types
<1>2. CASE GiveUp(p)
  <2>1. hook[p] = "sent" /\ hook' = [hook EXCEPT ![p] = IF sends[p] < MaxSends THEN "retry"
                                                         ELSE "fallback"]
    BY <1>2 DEF GiveUp, GotoHook
  <2>2. /\ hook' \in [Prompt -> HookState]
        /\ \A q \in Prompt : hook[q] = "queued" => hook'[q] = "queued"
        /\ \A q \in Prompt : hook'[q] = "shown" => hook[q] = "shown"
    BY <2>1 DEF IInv, Types, HookState
  <2>3. UNCHANGED <<events, due, sends, mail, queue, file, todo, pc, work, faults>>
    BY <1>2 DEF GiveUp, files
  <2>4. \A q \in queue' \union file' : hook'[q] = "queued"
    BY <2>2, <2>3 DEF IInv, QueuedIsQueued, Types
  <2> QED BY <2>2, <2>3, <2>4, Frame DEF IInv, Types
<1>3. CASE AppendFallback(p)
  <2>1. /\ hook[p] \in {"retry", "fallback"} /\ hook' = [hook EXCEPT ![p] = "queued"]
        /\ queue' = queue \union {p}
    BY <1>3 DEF AppendFallback, GotoHook
  <2>2. /\ hook' \in [Prompt -> HookState]
        /\ \A q \in Prompt : hook[q] = "queued" => hook'[q] = "queued"
        /\ \A q \in Prompt : hook'[q] = "shown" => hook[q] = "shown"
    BY <2>1 DEF IInv, Types, HookState
  <2>3. UNCHANGED <<events, due, sends, mail, file, todo, pc, work, faults>>
    BY <1>3 DEF AppendFallback
  <2>4. \A q \in queue' \union file' : hook'[q] = "queued"
    BY <2>1, <2>2, <2>3 DEF IInv, QueuedIsQueued, Types
  <2>5. queue' \subseteq Prompt
    BY <2>1 DEF IInv, Types
  <2> QED BY <2>2, <2>3, <2>4, <2>5, Frame DEF IInv, Types
<1> QED BY <1>1, <1>2, <1>3

(* A runner that takes up a prompt, or does not hold one any more. *)
LEMMA RunnerMoves ==
  ASSUME IInv, events' = events, UNCHANGED <<due, hook, sends>>,
         NEW r \in Runner, NEW l \in {"idle", "claim", "read"}, Goto(r, l),
         NEW w \in Work, work' = [work EXCEPT ![r] = w],
         l = "claim" => /\ r = "replay" => hook[w.prompt] = "queued"
                        /\ w.generation # None => Opened(w.generation),
         mail' \subseteq mail, queue' \subseteq queue,
         file' \subseteq queue \union file, todo' \subseteq file', faults' \in Nat
  PROVE IInv'
<1>1. Types'
  BY DEF IInv, Types, Goto
<1>2. Unique' /\ ClaimsAreOpened' /\ OneTip'
  BY NothingHappens DEF IInv
<1>3. RearmedIsQueued' /\ QueuedIsQueued' /\ ShownHasClaim'
  BY DEF IInv, RearmedIsQueued, Rearms, QueuedIsQueued, ShownHasClaim, HasClaim, Claims
<1>4. \A q \in Runner \ {r} : Works(q)'
  BY DEF IInv, Types, Goto, Works, Opened, HasClaim, Claims
<1>5. Works(r)'
  <2>1. pc'[r] = l /\ work'[r] = w
    BY DEF IInv, Types, Goto
  <2> QED BY <2>1 DEF Works, Opened
<1> QED BY <1>1, <1>2, <1>3, <1>4, <1>5 DEF IInv

LEMMA Resolves ==
  ASSUME IInv, NEW r \in Runner, NEW p \in Prompt, NEW n \in 0..MaxSends, Resolve(r, p, n),
         r = "replay" => hook[p] = "queued",
         UNCHANGED <<events, due, hook, sends, queue, file, faults>>,
         mail' \subseteq mail, todo' \subseteq todo
  PROVE IInv'
<1> DEFINE w == [prompt |-> p, number |-> n, generation |-> Proposal(p), advice |-> FALSE]
<1>1. Proposal(p) \in 0..None /\ (Proposal(p) # None => Opened(Proposal(p)))
  BY ProposalIsOpened DEF IInv
<1>2. /\ w \in Work /\ w.prompt = p /\ w.generation = Proposal(p)
      /\ Goto(r, "claim") /\ work' = [work EXCEPT ![r] = w]
  BY <1>1 DEF Resolve, Work
<1>3. file' \subseteq queue \union file /\ todo' \subseteq file' /\ faults' \in Nat
  BY DEF IInv, Types
<1> HIDE DEF w
<1> QED BY <1>1, <1>2, <1>3, RunnerMoves

LEMMA ClaimStep ==
  ASSUME IInv, NEW r \in Runner, ClaimSuggestion(r)
  PROVE IInv'
<1> DEFINE p == work[r].prompt
           g == work[r].generation
           first == g # None /\ ~IsClaimed(g)
<1>1. /\ pc[r] = "claim" /\ pc' = [pc EXCEPT ![r] = "answer"]
      /\ UNCHANGED <<due, hook, sends, mail, queue, file, todo, faults>>
      /\ events' = IF first THEN events \union {ClaimOf(p, g)} ELSE events
      /\ work' = [work EXCEPT ![r].advice = g # None /\ (first \/ OwnClaim(p) # {})]
  BY DEF ClaimSuggestion, Claim, Goto, hookVars, files
<1>2. work[r] \in Work /\ p \in Prompt /\ g \in 0..None
  BY DEF IInv, Types, Work
<1>3. g # None => g \in Generation /\ Opened(g)
  <2>1. g # None => g \in Generation
    BY <1>2, Bounds DEF None, Generation
  <2> QED BY <1>1, <2>1 DEF IInv, Works
<1>4. /\ work'[r].prompt = p
      /\ work'[r].advice <=> (g # None /\ (first \/ OwnClaim(p) # {}))
      /\ \A q \in Runner \ {r} : work'[q] = work[q] /\ pc'[q] = pc[q]
      /\ work' \in [Runner -> Work] /\ pc'[r] = "answer"
  <2>1. work' \in [Runner -> Work]
    BY <1>1, <1>2 DEF IInv, Types, Work
  <2>2. work'[r] = [work[r] EXCEPT !.advice = g # None /\ (first \/ OwnClaim(p) # {})]
    BY <1>1 DEF IInv, Types
  <2>3. work'[r].prompt = p
    BY <1>2, <2>2 DEF Work
  <2>4. work'[r].advice <=> (g # None /\ (first \/ OwnClaim(p) # {}))
    BY <1>2, <2>2 DEF Work
  <2>5. /\ \A q \in Runner \ {r} : work'[q] = work[q] /\ pc'[q] = pc[q]
        /\ pc'[r] = "answer"
    BY <1>1 DEF IInv, Types
  <2> QED BY <2>1, <2>3, <2>4, <2>5
<1>5. /\ events' \subseteq Event /\ Rearms' = Rearms /\ Claims \subseteq Claims'
      /\ Unique' /\ ClaimsAreOpened' /\ OneTip'
      /\ \A h : (h = Initial \/ RearmOf(h) \in events')
                  <=> (h = Initial \/ RearmOf(h) \in events)
      /\ first => \E c \in Claims' : c.source = p
  <2>1. CASE first
    <3>1. events' = events \union {ClaimOf(p, g)}
      BY <1>1, <2>1
    <3> HIDE DEF p, g
    <3> QED BY <1>2, <1>3, <2>1, <3>1, Claiming DEF Opened, HasClaim
  <2>2. CASE ~first
    <3>1. events' = events
      BY <1>1, <2>2
    <3> HIDE DEF first
    <3> QED BY <2>2, <3>1, NothingHappens DEF IInv, Types
  <2> QED BY <2>1, <2>2
<1> HIDE DEF p, g, first
<1>6. work'[r].advice => \E c \in Claims' : c.source = p
  <2>1. OwnClaim(p) # {} => \E c \in Claims : c.source = p
    BY DEF OwnClaim
  <2> QED BY <1>4, <1>5, <2>1
<1>7. Types'
  BY <1>1, <1>4, <1>5 DEF IInv, Types
<1>8. RearmedIsQueued' /\ QueuedIsQueued' /\ ShownHasClaim'
  <2>1. RearmedIsQueued' /\ QueuedIsQueued'
    BY <1>1, <1>5 DEF IInv, RearmedIsQueued, QueuedIsQueued
  <2>2. ShownHasClaim'
    BY <1>1, <1>5 DEF IInv, ShownHasClaim, HasClaim
  <2> QED BY <2>1, <2>2
<1>9. \A q \in Runner \ {r} : Works(q)'
  BY <1>1, <1>4, <1>5 DEF IInv, Works, Opened, HasClaim
<1>10. Works(r)'
  BY <1>1, <1>4, <1>6 DEF IInv, Works, HasClaim, p
<1> QED BY <1>5, <1>7, <1>8, <1>9, <1>10 DEF IInv

(* Only an answer that rests on a claim shows the suggestion. *)
LEMMA AcknowledgeStep ==
  ASSUME IInv, NEW h \in Prompt, Acknowledge(h)
  PROVE IInv'
<1> DEFINE r == "daemon"
<1>1. /\ pc[r] = "answer" /\ work[r].prompt = h /\ pc' = [pc EXCEPT ![r] = "idle"]
      /\ UNCHANGED <<events, due, sends, queue, file, todo, work, faults>>
      /\ mail' \subseteq mail
  BY DEF Acknowledge, Goto, files
<1>2. r \in Runner /\ r # "replay"
  BY DEF Runner
<1>3. \/ hook' = hook
      \/ /\ hook[h] = "sent"
         /\ hook' = [hook EXCEPT ![h] = IF work[r].advice THEN "shown" ELSE "plain"]
  BY DEF Acknowledge, GotoHook
<1>4. /\ hook' \in [Prompt -> HookState]
      /\ \A p \in Prompt : hook[p] = "queued" => hook'[p] = "queued"
      /\ \A p \in Prompt : hook'[p] = "shown" /\ hook[p] # "shown" => p = h /\ work[r].advice
  BY <1>3 DEF IInv, Types, HookState
<1>5. HasClaim(h) \/ ~work[r].advice
  BY <1>1, <1>2 DEF IInv, Works
<1>6. Types'
  BY <1>1, <1>4 DEF IInv, Types
<1>7. Unique' /\ ClaimsAreOpened' /\ OneTip'
  BY <1>1, NothingHappens DEF IInv
<1>8. RearmedIsQueued' /\ QueuedIsQueued'
  <2>1. \A e \in Rearms : e.source \in Prompt
    BY DEF IInv, Types, Rearms, Event
  <2>2. RearmedIsQueued'
    BY <1>1, <1>4, <2>1 DEF IInv, RearmedIsQueued, Rearms
  <2>3. QueuedIsQueued'
    BY <1>1, <1>4 DEF IInv, Types, QueuedIsQueued
  <2> QED BY <2>2, <2>3
<1>9. ShownHasClaim'
  BY <1>1, <1>4, <1>5 DEF IInv, ShownHasClaim, HasClaim, Claims
<1>10. \A q \in Runner : Works(q)'
  <2>1. \A q \in Runner : work[q].prompt \in Prompt
    BY DEF IInv, Types, Work
  <2> QED BY <1>1, <1>2, <1>4, <2>1 DEF IInv, Types, Works, Opened, HasClaim, Claims
<1> QED BY <1>6, <1>7, <1>8, <1>9, <1>10 DEF IInv

LEMMA DiscardStep ==
  ASSUME IInv, DiscardAnswer
  PROVE IInv'
<1> DEFINE p == work["replay"].prompt
<1>1. /\ "replay" \in Runner /\ pc["replay"] = "answer" /\ Goto("replay", "read")
      /\ UNCHANGED <<due, hook, sends, mail, queue, file, todo, work, faults>>
  BY DEF DiscardAnswer, Runner, hookVars, files
<1>2. p \in Prompt /\ work["replay"] \in Work /\ hook[p] = "queued"
  BY <1>1 DEF IInv, Types, Work, Works
<1>3. CASE ~work["replay"].advice
  <2>1. events' = events
    BY <1>3 DEF DiscardAnswer
  <2>2. work' = [work EXCEPT !["replay"] = work["replay"]]
    BY <1>1 DEF IInv, Types
  <2>3. /\ file' \subseteq queue \union file /\ todo' \subseteq file' /\ faults' \in Nat
        /\ mail' \subseteq mail /\ queue' \subseteq queue
    BY <1>1 DEF IInv, Types
  <2> QED BY <1>1, <1>2, <2>1, <2>2, <2>3, RunnerMoves
<1>4. CASE work["replay"].advice
  <2>1. HasClaim(p) /\ Rearm(p)
    BY <1>1, <1>4 DEF IInv, Works, DiscardAnswer
  <2>2. /\ events' \subseteq Event /\ Rearms' = Rearms \union {RearmOf(p)} /\ Claims' = Claims
        /\ \A h : (h = Initial \/ RearmOf(h) \in events)
                    => (h = Initial \/ RearmOf(h) \in events')
        /\ Unique' /\ ClaimsAreOpened' /\ OneTip'
    <3> HIDE DEF p
    <3> QED BY <1>2, <2>1, Rearming DEF Opened
  <2>3. RearmOf(p).source = p
    BY DEF RearmOf
  <2> HIDE DEF p
  <2>4. RearmedIsQueued' /\ QueuedIsQueued' /\ ShownHasClaim'
    <3>1. RearmedIsQueued'
      BY <1>1, <1>2, <2>2, <2>3 DEF IInv, RearmedIsQueued
    <3> QED BY <1>1, <2>2, <3>1 DEF IInv, QueuedIsQueued, ShownHasClaim, HasClaim
  <2>5. pc' \in [Runner -> {"idle", "claim", "read", "answer"}]
        /\ \A q \in Runner : pc'[q] = IF q = "replay" THEN "read" ELSE pc[q]
    BY <1>1 DEF IInv, Types, Goto
  <2>6. Types'
    BY <1>1, <2>2, <2>5 DEF IInv, Types
  <2>7. \A q \in Runner : Works(q)'
    BY <1>1, <2>2, <2>5 DEF IInv, Works, Opened, HasClaim
  <2> QED BY <2>2, <2>4, <2>6, <2>7 DEF IInv
<1> QED BY <1>3, <1>4

LEMMA ReplaySteps ==
  ASSUME IInv, StartReplay \/ RemoveFile \/ (\E r \in Runner : Fail(r))
  PROVE IInv'
<1>1. \A r \in Runner : work[r] \in Work /\ work = [work EXCEPT ![r] = work[r]]
  BY DEF IInv, Types
<1>2. CASE StartReplay
  <2>1. /\ "replay" \in Runner /\ Goto("replay", "read") /\ queue' \subseteq queue
        /\ file' \subseteq queue \union file /\ todo' \subseteq file'
        /\ UNCHANGED <<events, due, hook, sends, mail, work, faults>>
    BY <1>2 DEF StartReplay, Runner, hookVars, history
  <2>2. faults' \in Nat /\ mail' \subseteq mail /\ work' = [work EXCEPT !["replay"] = work["replay"]]
    BY <1>1, <2>1 DEF IInv, Types
  <2> QED BY <1>1, <2>1, <2>2, RunnerMoves
<1>3. CASE RemoveFile
  <2>1. /\ "replay" \in Runner /\ Goto("replay", "idle") /\ queue' \subseteq queue
        /\ file' \subseteq queue \union file /\ todo' \subseteq file'
        /\ UNCHANGED <<events, due, hook, sends, mail, work, faults>>
    BY <1>3 DEF RemoveFile, Runner, hookVars, history
  <2>2. faults' \in Nat /\ mail' \subseteq mail /\ work' = [work EXCEPT !["replay"] = work["replay"]]
    BY <1>1, <2>1 DEF IInv, Types
  <2> QED BY <1>1, <2>1, <2>2, RunnerMoves
<1>4. ASSUME NEW r \in Runner, Fail(r) PROVE IInv'
  <2>1. /\ Goto(r, "idle") /\ queue' = queue /\ file' = file /\ mail' \subseteq mail
        /\ todo' \subseteq todo
        /\ UNCHANGED <<events, due, hook, sends, work>>
    BY <1>4 DEF Fail, history
  <2>2. faults' \in Nat
    BY <1>4, Bounds DEF Fail, Fault, IInv, Types
  <2>3. /\ file' \subseteq queue \union file /\ todo' \subseteq file' /\ queue' \subseteq queue
        /\ work' = [work EXCEPT ![r] = work[r]]
    BY <1>1, <2>1 DEF IInv, Types
  <2> QED BY <1>1, <2>1, <2>2, <2>3, RunnerMoves
<1> QED BY <1>2, <1>3, <1>4
-------------------------------------------------------------------------------
(* The theorems.                                                           *)

LEMMA Initially == Init => IInv
<1> SUFFICES ASSUME Init PROVE IInv
  OBVIOUS
<1>1. Idle \in Work
  BY Bounds DEF Idle, Work
<1>2. Types
  <2>1. work \in [Runner -> Work] /\ pc \in [Runner -> {"idle", "claim", "read", "answer"}]
    BY <1>1 DEF Init
  <2>2. hook \in [Prompt -> HookState] /\ sends \in [Prompt -> 0..MaxSends]
    BY Bounds DEF Init, HookState
  <2>3. /\ events = {} /\ due \in BOOLEAN /\ mail = {} /\ queue = {} /\ file = {} /\ todo = {}
        /\ faults \in Nat
    BY DEF Init
  <2> QED BY <2>1, <2>2, <2>3 DEF Types
<1>3. Claims = {} /\ Rearms = {}
  BY DEF Init, Claims, Rearms
<1>4. Unique /\ ClaimsAreOpened /\ RearmedIsQueued
  BY <1>3 DEF Unique, ClaimsAreOpened, RearmedIsQueued
<1>5. OneTip
  BY DEF Init, OneTip, IsTip, Opened
<1>6. QueuedIsQueued /\ ShownHasClaim /\ \A r \in Runner : Works(r)
  BY DEF Init, QueuedIsQueued, ShownHasClaim, Works
<1> QED BY <1>2, <1>4, <1>5, <1>6 DEF IInv

LEMMA NextStep ==
  ASSUME IInv, [Next]_vars
  PROVE IInv'
<1>0. CASE UNCHANGED vars
  <2>1. UNCHANGED <<events, due, hook, sends, mail, queue, file, todo, pc, work, faults>>
    BY <1>0 DEF vars, hookVars, files
  <2>2. \A p \in queue \union file : hook[p] = "queued"
    BY DEF IInv, QueuedIsQueued
  <2> QED BY <2>1, <2>2, Frame DEF IInv, Types
<1>1. CASE BecomeDue
  <2>1. due' = TRUE
        /\ UNCHANGED <<events, hook, sends, mail, queue, file, todo, pc, work, faults>>
    BY <1>1 DEF BecomeDue, hookVars, files
  <2>2. \A p \in queue \union file : hook[p] = "queued"
    BY DEF IInv, QueuedIsQueued
  <2> QED BY <2>1, <2>2, Frame DEF IInv, Types
<1>2. ASSUME NEW p \in Prompt, Send(p) \/ GiveUp(p) \/ AppendFallback(p) PROVE IInv'
  BY <1>2, HookSteps
<1>3. ASSUME NEW a \in mail, Ingest(a) PROVE IInv'
  <2>1. a.prompt \in Prompt /\ a.number \in 0..MaxSends
    BY Bounds DEF IInv, Types
  <2>2. /\ Resolve("daemon", a.prompt, a.number) /\ "daemon" \in Runner
        /\ UNCHANGED <<events, due, hook, sends, queue, file, todo, faults>>
        /\ mail' \subseteq mail
    BY <1>3 DEF Ingest, Runner, files
  <2> QED BY <2>1, <2>2, Resolves
<1>4. ASSUME NEW r \in Runner, ClaimSuggestion(r) PROVE IInv'
  BY <1>4, ClaimStep
<1>5. ASSUME NEW p \in Prompt, Acknowledge(p) PROVE IInv'
  BY <1>5, AcknowledgeStep
<1>6. ASSUME NEW p \in Prompt, IngestRecord(p) PROVE IInv'
  <2>1. /\ Resolve("replay", p, 0) /\ "replay" \in Runner
        /\ UNCHANGED <<events, due, hook, sends, mail, queue, file, faults>>
        /\ todo' \subseteq todo
    BY <1>6 DEF IngestRecord, Runner, hookVars
  <2>2. hook[p] = "queued"
    <3>1. todo # {} /\ todo \in SUBSET Nat
      BY <1>6 DEF IngestRecord, IInv, Types, Prompt
    <3>2. p \in todo
      BY <1>6, <3>1, MinIsIn DEF IngestRecord
    <3> QED BY <3>2 DEF IInv, Types, QueuedIsQueued
  <2>3. 0 \in 0..MaxSends
    BY Bounds
  <2> QED BY <2>1, <2>2, <2>3, Resolves
<1>7. CASE DiscardAnswer
  BY <1>7, DiscardStep
<1>8. CASE StartReplay \/ RemoveFile \/ (\E r \in Runner : Fail(r))
  BY <1>8, ReplaySteps
<1> QED BY <1>0, <1>1, <1>2, <1>3, <1>4, <1>5, <1>6, <1>7, <1>8 DEF Next

(* What every step of hooks, daemon and replay keeps. *)
THEOREM Invariance == Spec => []IInv
<1>1. IInv /\ [Next]_vars => IInv'
  BY NextStep
<1> QED BY <1>1, Initially, PTL DEF Spec

(* Every variable stays in its range, and a generation is opened before it *)
(* is claimed, once (continuation_policy.rs:93). *)
THEOREM TypeCorrect == Spec => []TypeOK
<1>1. IInv => TypeOK
  BY DEF IInv, Types, HookState, Unique, ClaimsAreOpened, Opened, TypeOK
<1> QED BY <1>1, Invariance, PTL

(* Of any number of prompts, each sent and replayed any number of times,   *)
(* one at most shows the suggestion. *)
THEOREM SuggestedOnce == Spec => []ShownOnce
<1>1. IInv => ShownOnce
  <2> SUFFICES ASSUME IInv PROVE ShownOnce
    OBVIOUS
  <2> SUFFICES ASSUME NEW p \in Shown, NEW q \in Shown PROVE p = q
    BY DEF ShownOnce
  <2>1. ASSUME NEW s \in Shown
        PROVE \E c \in Claims : c.source = s /\ IsTip(c.generation)
    <3>1. s \in Prompt /\ hook[s] = "shown"
      BY DEF Shown
    <3>2. PICK c \in Claims : c.source = s
      BY <3>1 DEF IInv, ShownHasClaim, HasClaim
    <3>3. RearmOf(s) \notin events
      <4>1. RearmOf(s).state = "pending_replay" /\ RearmOf(s).source = s
        BY <3>1, RearmTyped
      <4> QED BY <3>1, <4>1 DEF IInv, RearmedIsQueued, Rearms
    <3>4. Opened(c.generation) /\ \A d \in Claims : d.generation = c.generation => d = c
      BY DEF IInv, ClaimsAreOpened, Unique
    <3> QED BY <3>2, <3>3, <3>4 DEF IsTip
  <2>2. PICK c \in Claims : c.source = p /\ IsTip(c.generation)
    BY <2>1
  <2>3. PICK d \in Claims : d.source = q /\ IsTip(d.generation)
    BY <2>1
  <2>4. c.generation \in Generation /\ d.generation \in Generation
    BY DEF IInv, Types, Claims, Event, Generation
  <2>5. c.generation = d.generation
    BY <2>2, <2>3, <2>4 DEF IInv, OneTip
  <2>6. c = d
    BY <2>5 DEF IInv, Unique
  <2> QED BY <2>2, <2>3, <2>6
<1> QED BY <1>1, Invariance, PTL
-------------------------------------------------------------------------------
(* Where a suggestion is, from its claim until somebody sees it.           *)

Ingesting(r) == pc[r] \in {"claim", "answer"}
Waiting(p) == hook[p] \in {"sent", "retry", "fallback"}
ToBeRead(p) == p \in file /\ (pc["replay"] = "idle" \/ p \in todo)

(* A prompt is sent after the answer to the one before. *)
HooksInOrder ==
  \A p, q \in Prompt : p < q /\ hook[q] # "idle" => hook[p] \in {"shown", "plain", "queued"}

(* What the daemon has not accepted was sent after what it works on. *)
MailInOrder ==
  /\ \A a \in mail : /\ Waiting(a.prompt) \/ hook[a.prompt] = "queued"
                     /\ a.number <= sends[a.prompt]
  /\ Ingesting("daemon") =>
       LET w == work["daemon"] IN
       /\ Waiting(w.prompt) \/ hook[w.prompt] = "queued"
       /\ w.number <= sends[w.prompt]
       /\ \A a \in mail : w.prompt < a.prompt \/ (w.prompt = a.prompt /\ w.number < a.number)

(* Queued prompts are replayed in the order of their time, and none is left out. *)
QueueInOrder ==
  /\ \A q \in file, p \in queue : q < p
  /\ \A p \in Prompt : hook[p] = "queued" => p \in queue \union file \union replayed
  /\ \A p \in file \ replayed : ToBeRead(p)
  /\ \A p \in replayed : p \in Prompt /\ hook[p] = "queued"
  /\ Ingesting("replay") => work["replay"].prompt \in file \intersect replayed
  /\ \A p, q \in Prompt : p < q /\ hook[p] = "queued" /\ q \in replayed => p \in replayed

Orderly == HooksInOrder /\ MailInOrder /\ QueueInOrder

(* A generation is claimed by a later prompt than the one that opened it. *)
ClaimsAreLater ==
  /\ \A e \in Rearms : e.source \in replayed
  /\ \A c \in Claims : c.generation < c.source
  /\ \A r \in Runner : pc[r] = "claim" /\ work[r].generation # None =>
       /\ work[r].generation < work[r].prompt
       /\ work[r].generation = Initial => due \/ IsClaimed(Initial)

(* A claim whose prompt has not opened another generation. *)
Held(c) == RearmOf(c.source) \notin events

WillTell(r) == \/ pc[r] = "claim" /\ work[r].generation # None
               \/ pc[r] = "answer" /\ work[r].advice

(* What the daemon proposes to a prompt that is replayed meanwhile, the    *)
(* replay proposes as well. *)
ProposedAlike ==
  LET w == work["daemon"] IN
  pc["daemon"] = "claim" /\ w.prompt \in replayed /\ w.generation # None =>
    \/ IsClaimed(w.generation) \/ ToBeRead(w.prompt)
    \/ pc["replay"] = "claim" /\ work["replay"].prompt = w.prompt
                              /\ work["replay"].generation = w.generation

(* The daemon advises a prompt that has a claim ... *)
DaemonTells ==
  \A c \in Claims : /\ Held(c) /\ hook[c.source] # "queued"
                    /\ Ingesting("daemon") /\ work["daemon"].prompt = c.source
                    => WillTell("daemon")

(* ... and a claim waits for that, or for a replay, until it is seen. *)
HeldIsKept ==
  \A c \in Claims : Held(c) =>
    \/ hook[c.source] = "shown" \/ Waiting(c.source)
    \/ c.source \in queue \/ ToBeRead(c.source)
    \/ WillTell("replay") /\ work["replay"].prompt = c.source

Kept == ClaimsAreLater /\ ProposedAlike /\ DaemonTells /\ HeldIsKept

KInv == Orderly /\ (~again => Kept)
-------------------------------------------------------------------------------
(* Orderly is kept.                                                        *)

LEMMA RunnersAre == /\ "daemon" \in Runner /\ "replay" \in Runner /\ "daemon" # "replay"
  BY DEF Runner

LEMMA OrderlyHooks ==
  ASSUME IInv, Orderly, NEW p \in Prompt, Send(p) \/ GiveUp(p) \/ AppendFallback(p)
  PROVE Orderly'
<1>1. /\ UNCHANGED <<file, todo, pc, work, replayed>>
      /\ \A x \in Prompt \ {p} : hook'[x] = hook[x]
      /\ hook[p] \in {"idle", "sent", "retry", "fallback"}
      /\ hook'[p] \in {"sent", "retry", "fallback", "queued"}
      /\ \A x \in Prompt : sends[x] <= sends'[x] /\ sends[x] \in Nat /\ sends'[x] \in Nat
  <2>1. sends \in [Prompt -> Nat] /\ hook \in [Prompt -> HookState]
    BY Bounds DEF IInv, Types
  <2>2. CASE Send(p)
    BY <2>1, <2>2 DEF Send, GotoHook, files, history
  <2>3. CASE GiveUp(p)
    BY <2>1, <2>3 DEF GiveUp, GotoHook, files, history
  <2>4. CASE AppendFallback(p)
    BY <2>1, <2>4 DEF AppendFallback, GotoHook, history
  <2> QED BY <2>2, <2>3, <2>4
<1>2. p \in Nat /\ \A x \in Prompt : x \in Nat
  BY DEF Prompt
<1>3. \A x \in Prompt : p < x => hook[x] = "idle"
  BY <1>1 DEF Orderly, HooksInOrder
<1>4. HooksInOrder'
  <2>1. ASSUME NEW x \in Prompt, x < p PROVE hook[x] \in {"shown", "plain", "queued"}
    <3>1. CASE hook[p] = "idle"
      BY <2>1, <3>1 DEF Send, GiveUp, AppendFallback
    <3> QED BY <2>1, <3>1 DEF Orderly, HooksInOrder
  <2>2. ASSUME NEW x \in Prompt, NEW y \in Prompt, x < y, hook'[y] # "idle"
        PROVE hook'[x] \in {"shown", "plain", "queued"}
    <3>1. CASE x = p
      BY <1>1, <1>2, <1>3, <2>2, <3>1
    <3>2. CASE x # p /\ y = p
      BY <1>1, <2>1, <2>2, <3>2
    <3>3. CASE x # p /\ y # p
      BY <1>1, <2>2, <3>3 DEF Orderly, HooksInOrder
    <3> QED BY <3>1, <3>2, <3>3
  <2> QED BY <2>2 DEF HooksInOrder
<1>5. MailInOrder'
  <2>1. \A a \in mail : a.prompt \in Prompt /\ a.number \in Nat
    BY DEF IInv, Types
  <2>2. \A a \in mail' \ mail : a.prompt = p /\ a.number = sends'[p] /\ a.number > sends[p]
    <3>1. CASE Send(p)
      <4>1. sends'[p] = sends[p] + 1 /\ sends[p] \in Nat
        BY <1>1, <3>1 DEF Send, IInv, Types
      <4> QED BY <3>1, <4>1 DEF Send
    <3> QED BY <3>1 DEF GiveUp, AppendFallback
  <2>3. \A x \in Prompt : Waiting(x) \/ hook[x] = "queued" => (Waiting(x) \/ hook[x] = "queued")'
    BY <1>1 DEF Waiting
  <2>4. (Waiting(p) \/ hook[p] = "queued")'
    BY <1>1 DEF Waiting
  <2>5. \A a \in mail' : /\ (Waiting(a.prompt) \/ hook[a.prompt] = "queued")'
                        /\ a.number <= sends'[a.prompt]
    <3>1. \A a \in mail : /\ (Waiting(a.prompt) \/ hook[a.prompt] = "queued")'
                         /\ a.number <= sends'[a.prompt]
      BY <1>1, <2>1, <2>3 DEF Orderly, MailInOrder
    <3>2. \A a \in mail' \ mail : /\ (Waiting(a.prompt) \/ hook[a.prompt] = "queued")'
                                 /\ a.number <= sends'[a.prompt]
      BY <1>1, <2>2, <2>4
    <3> QED BY <3>1, <3>2
  <2>6. ASSUME Ingesting("daemon"), NEW x \in Prompt, NEW n \in Nat,
               x = work["daemon"].prompt, n = work["daemon"].number
        PROVE  /\ (Waiting(x) \/ hook[x] = "queued")'
               /\ n <= sends'[x]
               /\ \A a \in mail' : x < a.prompt \/ (x = a.prompt /\ n < a.number)
    <3>1. /\ Waiting(x) \/ hook[x] = "queued"
          /\ n <= sends[x]
          /\ \A a \in mail : x < a.prompt \/ (x = a.prompt /\ n < a.number)
      BY <2>6 DEF Orderly, MailInOrder
    <3>2. x <= p
      <4>1. hook[x] # "idle"
        BY <3>1 DEF Waiting
      <4> QED BY <1>2, <1>3, <4>1
    <3>3. \A a \in mail' \ mail : x < a.prompt \/ (x = a.prompt /\ n < a.number)
      <4> SUFFICES ASSUME NEW a \in mail' \ mail PROVE x < p \/ (x = p /\ n < a.number)
        BY <2>2
      <4>1. sends[p] \in Nat /\ sends'[p] \in Nat /\ a.number = sends'[p] /\ a.number > sends[p]
        BY <1>1, <2>2
      <4> QED BY <1>2, <3>1, <3>2, <4>1
    <3>4. n <= sends'[x]
      BY <1>1, <3>1
    <3> QED BY <2>3, <3>1, <3>3, <3>4
  <2>7. work["daemon"].prompt \in Prompt /\ work["daemon"].number \in Nat
    BY RunnersAre, Bounds DEF IInv, Types, Work
  <2>8. Ingesting("daemon")' <=> Ingesting("daemon")
    BY <1>1 DEF Ingesting
  <2> QED BY <1>1, <2>5, <2>6, <2>7, <2>8 DEF MailInOrder
<1>6. QueueInOrder'
  <2>1. queue' \subseteq queue \union {p} /\ queue \subseteq queue' /\ (queue' # queue => AppendFallback(p))
        /\ (hook'[p] = "queued" => p \in queue')
    BY <1>1 DEF Send, GiveUp, AppendFallback, files, GotoHook, IInv, Types
  <2>2. \A q \in file \union replayed : q \in Prompt /\ hook[q] = "queued"
    BY DEF IInv, QueuedIsQueued, Types, Orderly, QueueInOrder
  <2>3. \A q \in file \union replayed : q < p
    <3> SUFFICES ASSUME NEW q \in Prompt, hook[q] = "queued" PROVE q < p
      BY <2>2
    <3>1. q # p /\ ~(p < q)
      BY <1>1, <1>3
    <3> QED BY <1>2, <3>1
  <2>4. \A q \in file, x \in queue' : q < x
    BY <2>1, <2>3 DEF Orderly, QueueInOrder
  <2>5. \A x \in Prompt : hook'[x] = "queued" => x \in queue' \union file \union replayed
    BY <1>1, <2>1 DEF Orderly, QueueInOrder
  <2>6. \A q \in replayed : q \in Prompt /\ hook'[q] = "queued"
    BY <1>1, <2>2
  <2>7. \A x, q \in Prompt : x < q /\ hook'[x] = "queued" /\ q \in replayed => x \in replayed
    BY <1>1, <1>2, <2>3 DEF Orderly, QueueInOrder
  <2> QED BY <1>1, <2>4, <2>5, <2>6, <2>7 DEF Orderly, QueueInOrder, ToBeRead, Ingesting
<1> QED BY <1>4, <1>5, <1>6 DEF Orderly

LEMMA OrderlyFrame ==
  ASSUME IInv, Orderly, UNCHANGED <<hook, sends, queue, file, replayed>>, mail' \subseteq mail,
         \A p \in file : ToBeRead(p) => ToBeRead(p)',
         \A r \in Runner : Ingesting(r)' =>
           /\ Ingesting(r)
           /\ work'[r].prompt = work[r].prompt /\ work'[r].number = work[r].number
  PROVE Orderly'
<1>1. HooksInOrder'
  BY DEF Orderly, HooksInOrder
<1>2. MailInOrder'
  BY RunnersAre DEF Orderly, MailInOrder, Waiting
<1>3. QueueInOrder'
  <2>1. \A p \in file \ replayed : ToBeRead(p)'
    BY DEF Orderly, QueueInOrder
  <2> QED BY <2>1, RunnersAre DEF Orderly, QueueInOrder
<1> QED BY <1>1, <1>2, <1>3 DEF Orderly

LEMMA OrderlyClaim ==
  ASSUME IInv, Orderly, NEW r \in Runner, ClaimSuggestion(r)
  PROVE Orderly'
<1>1. /\ UNCHANGED <<hook, sends, mail, queue, file, todo, replayed>>
      /\ pc[r] = "claim" /\ pc' = [pc EXCEPT ![r] = "answer"]
      /\ \E b : work' = [work EXCEPT ![r].advice = b]
  BY DEF ClaimSuggestion, Claim, Goto, hookVars, files, history
<1>2. \A q \in Runner : work[q] \in Work
  BY DEF IInv, Types
<1>3. \A q \in Runner : work'[q].prompt = work[q].prompt /\ work'[q].number = work[q].number
  BY <1>1, <1>2 DEF IInv, Types, Work
<1>4. \A q \in Runner : (pc'[q] = "idle" <=> pc[q] = "idle") /\ (Ingesting(q)' => Ingesting(q))
  BY <1>1 DEF IInv, Types, Ingesting
<1>5. \A p \in file : ToBeRead(p) => ToBeRead(p)'
  BY <1>1, <1>4, RunnersAre DEF ToBeRead
<1> QED BY <1>1, <1>3, <1>4, <1>5, OrderlyFrame

LEMMA OrderlyRest ==
  ASSUME IInv, Orderly,
         UNCHANGED vars \/ BecomeDue \/ DiscardAnswer \/ \E r \in Runner : Fail(r)
  PROVE Orderly'
<1>1. CASE UNCHANGED vars \/ BecomeDue
  <2>1. UNCHANGED <<hook, sends, mail, queue, file, todo, pc, work, replayed>>
    BY <1>1 DEF vars, BecomeDue, hookVars, files, history
  <2> QED BY <2>1, OrderlyFrame DEF ToBeRead, Ingesting
<1>2. CASE DiscardAnswer
  <2>1. /\ UNCHANGED <<hook, sends, mail, queue, file, todo, work, replayed>>
        /\ pc["replay"] = "answer" /\ pc' = [pc EXCEPT !["replay"] = "read"]
    BY <1>2 DEF DiscardAnswer, Goto, hookVars, files, history
  <2>2. \A q \in Runner : (pc'[q] = "idle" <=> pc[q] = "idle") /\ (Ingesting(q)' => Ingesting(q))
    BY <2>1 DEF IInv, Types, Ingesting
  <2>3. \A p \in file : ToBeRead(p) => ToBeRead(p)'
    BY <2>1, <2>2, RunnersAre DEF ToBeRead
  <2> QED BY <2>1, <2>2, <2>3, OrderlyFrame
<1>3. ASSUME NEW r \in Runner, Fail(r) PROVE Orderly'
  <2>1. /\ UNCHANGED <<hook, sends, queue, file, work, replayed>> /\ mail' \subseteq mail
        /\ pc' = [pc EXCEPT ![r] = "idle"]
        /\ r # "replay" => todo' = todo
    BY <1>3 DEF Fail, Goto, history
  <2>2. \A q \in Runner : (pc[q] = "idle" => pc'[q] = "idle") /\ (Ingesting(q)' => Ingesting(q))
    BY <2>1 DEF IInv, Types, Ingesting
  <2>3. r = "replay" => pc'["replay"] = "idle"
    BY <2>1 DEF IInv, Types
  <2>4. \A p \in file : ToBeRead(p) => ToBeRead(p)'
    BY <2>1, <2>2, <2>3, RunnersAre DEF ToBeRead
  <2> QED BY <2>1, <2>2, <2>4, OrderlyFrame
<1> QED BY <1>1, <1>2, <1>3

LEMMA OrderlyIngest ==
  ASSUME IInv, Orderly, NEW a \in mail, Ingest(a)
  PROVE Orderly'
<1>1. /\ UNCHANGED <<hook, sends, queue, file, todo, replayed>> /\ mail' = mail \ {a}
      /\ pc' = [pc EXCEPT !["daemon"] = "claim"]
      /\ \A b \in mail \ {a} :
           a.prompt < b.prompt \/ (a.prompt = b.prompt /\ a.number < b.number)
  BY RunnersAre DEF Ingest, Resolve, Goto, files
<1>2. /\ pc'["replay"] = pc["replay"] /\ work'["replay"] = work["replay"]
      /\ work'["daemon"].prompt = a.prompt /\ work'["daemon"].number = a.number
  BY <1>1, RunnersAre DEF Ingest, Resolve, IInv, Types
<1>3. HooksInOrder'
  BY <1>1 DEF Orderly, HooksInOrder
<1>4. MailInOrder'
  BY <1>1, <1>2 DEF Orderly, MailInOrder, Waiting
<1>5. QueueInOrder'
  <2>1. (Ingesting("replay")' <=> Ingesting("replay")) /\ \A p \in file : ToBeRead(p)' <=> ToBeRead(p)
    BY <1>1, <1>2 DEF Ingesting, ToBeRead
  <2> QED BY <1>1, <1>2, <2>1 DEF Orderly, QueueInOrder
<1> QED BY <1>3, <1>4, <1>5 DEF Orderly

LEMMA OrderlyRecord ==
  ASSUME IInv, Orderly, NEW p \in Prompt, IngestRecord(p)
  PROVE Orderly'
<1>1. /\ UNCHANGED <<hook, sends, mail, queue, file>> /\ todo' = todo \ {p}
      /\ pc["replay"] = "read" /\ pc' = [pc EXCEPT !["replay"] = "claim"]
      /\ replayed' = replayed \union {p}
  BY DEF IngestRecord, Resolve, Goto, hookVars
<1>2. /\ pc'["replay"] = "claim" /\ work'["replay"].prompt = p
      /\ pc'["daemon"] = pc["daemon"] /\ work'["daemon"] = work["daemon"]
  BY <1>1, RunnersAre DEF IngestRecord, Resolve, IInv, Types
<1>3. HooksInOrder'
  BY <1>1 DEF Orderly, HooksInOrder
<1>4. MailInOrder'
  <2>1. Ingesting("daemon")' <=> Ingesting("daemon")
    BY <1>2 DEF Ingesting
  <2> QED BY <1>1, <1>2, <2>1 DEF Orderly, MailInOrder, Waiting
<1>5. p \in file /\ hook[p] = "queued" /\ \A q \in todo : p <= q
  <2>1. todo # {} /\ todo \in SUBSET Nat /\ p = Min(todo)
    BY DEF IngestRecord, IInv, Types, Prompt
  <2>2. p \in todo /\ \A q \in todo : p <= q
    BY <2>1, MinIsIn
  <2> QED BY <2>2 DEF IInv, Types, QueuedIsQueued
<1>6. QueueInOrder'
  <2>1. \A q \in file \ replayed' : ToBeRead(q)'
    BY <1>1 DEF Orderly, QueueInOrder, ToBeRead
  <2>2. ASSUME NEW x \in Prompt, NEW q \in Prompt, x < q, hook[x] = "queued", q \in replayed'
        PROVE x \in replayed'
    <3>1. CASE q \in replayed
      BY <1>1, <2>2, <3>1 DEF Orderly, QueueInOrder
    <3>2. CASE q = p
      <4>1. SUFFICES ASSUME x \notin replayed PROVE FALSE
        BY <1>1
      <4>2. x \in Nat /\ p \in Nat
        BY DEF Prompt
      <4>3. x \notin queue
        <5>1. x \in queue => p < x
          BY <1>5 DEF Orderly, QueueInOrder
        <5> QED BY <2>2, <3>2, <4>2, <5>1
      <4>4. x \in file \ replayed
        BY <2>2, <4>1, <4>3 DEF Orderly, QueueInOrder
      <4>5. x \in todo
        BY <1>1, <4>4 DEF Orderly, QueueInOrder, ToBeRead
      <4>6. p <= x
        BY <1>5, <4>5
      <4> QED BY <2>2, <3>2, <4>2, <4>6
    <3> QED BY <1>1, <2>2, <3>1, <3>2
  <2>3. \A q \in replayed' : q \in Prompt /\ hook[q] = "queued"
    BY <1>1, <1>5 DEF Orderly, QueueInOrder
  <2> QED BY <1>1, <1>2, <1>5, <2>1, <2>2, <2>3 DEF Orderly, QueueInOrder
<1> QED BY <1>3, <1>4, <1>6 DEF Orderly

LEMMA OrderlyAcknowledge ==
  ASSUME IInv, Orderly, NEW h \in Prompt, Acknowledge(h)
  PROVE Orderly'
<1>1. /\ pc["daemon"] = "answer" /\ work["daemon"].prompt = h
      /\ pc' = [pc EXCEPT !["daemon"] = "idle"]
      /\ UNCHANGED <<sends, queue, file, todo, work, replayed>>
  BY DEF Acknowledge, Goto, files, history
<1>2. /\ pc'["daemon"] = "idle" /\ pc'["replay"] = pc["replay"]
  BY <1>1, RunnersAre DEF IInv, Types
<1>3. CASE hook' = hook /\ mail' = {}
  <2>1. \A p \in file : ToBeRead(p) => ToBeRead(p)'
    BY <1>1, <1>2 DEF ToBeRead
  <2>2. \A r \in Runner : Ingesting(r)' => Ingesting(r)
    BY <1>2 DEF Ingesting, Runner
  <2> QED BY <1>1, <1>3, <2>1, <2>2, OrderlyFrame
<1>4. CASE /\ mail' = mail /\ hook[h] = "sent" /\ work["daemon"].number = sends[h]
           /\ GotoHook(h, IF work["daemon"].advice THEN "shown" ELSE "plain")
  <2>1. hook'[h] \in {"shown", "plain"} /\ \A p \in Prompt \ {h} : hook'[p] = hook[p]
    BY <1>4 DEF GotoHook, IInv, Types
  <2>2. \A x \in Prompt : x \in Nat
    BY DEF Prompt
  <2>3. HooksInOrder'
    BY <1>4, <2>1 DEF Orderly, HooksInOrder
  <2>4. \A a \in mail : a.prompt \in Prompt /\ a.prompt # h
    <3> SUFFICES ASSUME NEW a \in mail, a.prompt = h PROVE FALSE
      BY DEF IInv, Types
    <3>1. a.number \in Nat /\ sends[h] \in Nat /\ h \in Nat
      BY <2>2, Bounds DEF IInv, Types
    <3>2. a.number <= sends[h] /\ (h < h \/ sends[h] < a.number)
      BY <1>1, <1>4 DEF Orderly, MailInOrder, Ingesting
    <3> QED BY <3>1, <3>2
  <2>5. MailInOrder'
    <3>1. ~ Ingesting("daemon")'
      BY <1>2 DEF Ingesting
    <3>2. \A a \in mail : /\ (Waiting(a.prompt) \/ hook[a.prompt] = "queued")'
                          /\ a.number <= sends[a.prompt]
      BY <2>1, <2>4 DEF Orderly, MailInOrder, Waiting
    <3> QED BY <1>1, <1>4, <3>1, <3>2 DEF MailInOrder
  <2>6. QueueInOrder'
    <3>1. \A p \in Prompt : hook'[p] = "queued" <=> hook[p] = "queued"
      BY <1>4, <2>1
    <3>2. Ingesting("replay")' <=> Ingesting("replay")
      BY <1>2 DEF Ingesting
    <3>3. \A p \in file : ToBeRead(p) => ToBeRead(p)'
      BY <1>1, <1>2 DEF ToBeRead
    <3> QED BY <1>1, <3>1, <3>2, <3>3 DEF Orderly, QueueInOrder
  <2> QED BY <2>3, <2>5, <2>6 DEF Orderly
<1>5. \/ hook' = hook /\ mail' = {}
      \/ /\ mail' = mail /\ hook[h] = "sent" /\ work["daemon"].number = sends[h]
         /\ GotoHook(h, IF work["daemon"].advice THEN "shown" ELSE "plain")
  BY DEF Acknowledge
<1> QED BY <1>3, <1>4, <1>5

LEMMA OrderlyFiles ==
  ASSUME IInv, Orderly, StartReplay \/ RemoveFile
  PROVE Orderly'
<1>1. /\ UNCHANGED <<hook, sends, mail, work, replayed>> /\ pc'["daemon"] = pc["daemon"]
      /\ pc'["replay"] \in {"read", "idle"}
  <2>1. \E l \in {"read", "idle"} : pc' = [pc EXCEPT !["replay"] = l]
    BY DEF StartReplay, RemoveFile, Goto
  <2> QED BY <2>1, RunnersAre DEF StartReplay, RemoveFile, hookVars, history, IInv, Types
<1>2. HooksInOrder' /\ MailInOrder'
  <2>1. Ingesting("daemon")' <=> Ingesting("daemon")
    BY <1>1 DEF Ingesting
  <2> QED BY <1>1, <2>1 DEF Orderly, HooksInOrder, MailInOrder, Waiting
<1>3. ~ Ingesting("replay")'
  BY <1>1 DEF Ingesting
<1>4. CASE StartReplay
  <2>1. \/ queue' = queue /\ file' = file
        \/ queue' = {} /\ file' = queue /\ file = {}
    BY <1>4 DEF StartReplay
  <2>2. \A p \in file' : ToBeRead(p)'
    BY <1>4 DEF StartReplay, ToBeRead
  <2>3. \A q \in file', p \in queue' : q < p
    BY <2>1 DEF Orderly, QueueInOrder
  <2>4. queue' \union file' = queue \union file
    BY <2>1
  <2> QED BY <1>1, <1>2, <1>3, <2>2, <2>3, <2>4 DEF Orderly, QueueInOrder
<1>5. CASE RemoveFile
  <2>1. file' = {} /\ queue' = queue /\ todo = {} /\ pc["replay"] = "read"
    BY <1>5 DEF RemoveFile
  <2>2. file \subseteq replayed
    BY <2>1 DEF Orderly, QueueInOrder, ToBeRead
  <2> QED BY <1>1, <1>2, <1>3, <2>1, <2>2 DEF Orderly, QueueInOrder
<1> QED BY <1>4, <1>5

LEMMA OrderlyStep ==
  ASSUME IInv, Orderly, [Next]_vars
  PROVE Orderly'
BY OrderlyHooks, OrderlyClaim, OrderlyRest, OrderlyIngest, OrderlyRecord, OrderlyAcknowledge,
   OrderlyFiles DEF Next
-------------------------------------------------------------------------------
(* Which generation a prompt is proposed.                                  *)

LEMMA EventsTyped ==
  ASSUME IInv
  PROVE /\ \A e \in Rearms : /\ e \in events /\ e.source \in Prompt /\ e.generation = e.source
                             /\ e = RearmOf(e.source)
        /\ \A g \in Prompt : RearmOf(g) \in events <=> RearmOf(g) \in Rearms
        /\ \A c \in Claims : c.source \in Prompt /\ c.generation \in Generation
        /\ \A r \in Runner : work[r].prompt \in Prompt /\ work[r].generation \in 0..None
        /\ \A g \in 0..None : g # None => g \in Generation
        /\ \A g \in Generation : g \in Nat /\ (g # Initial => g \in Prompt)
<1>1. \A e \in Rearms : e \in events /\ e.source \in Prompt /\ e = RearmOf(e.source)
  BY DEF IInv, Types, RearmedIsQueued, Rearms, Event
<1>2. \A e \in Rearms : e.generation = e.source
  <2> SUFFICES ASSUME NEW e \in Rearms PROVE e.generation = e.source
    OBVIOUS
  <2>1. e.source \in Prompt /\ e = RearmOf(e.source)
    BY <1>1
  <2> QED BY <2>1, RearmTyped
<1>3. \A g \in Prompt : RearmOf(g) \in events <=> RearmOf(g) \in Rearms
  BY RearmTyped DEF Rearms
<1>4. \A c \in Claims : c.source \in Prompt /\ c.generation \in Generation
  BY DEF IInv, Types, Claims, Event, Generation
<1>5. \A r \in Runner : work[r].prompt \in Prompt /\ work[r].generation \in 0..None
  BY DEF IInv, Types, Work
<1>6. \A g \in 0..None : g # None => g \in Generation
  BY Bounds DEF None, Generation
<1>7. \A g \in Generation : g \in Nat /\ (g # Initial => g \in Prompt)
  BY Bounds DEF Initial, Generation, Prompt
<1> QED BY <1>1, <1>2, <1>3, <1>4, <1>5, <1>6, <1>7

(* The latest generation is the one that is still to be shown.             *)
LEMMA LatestIsTip ==
  ASSUME IInv, ClaimsAreLater
  PROVE /\ LatestGeneration \in Generation /\ IsTip(LatestGeneration)
        /\ LatestGeneration = Initial => Rearms = {}
        /\ LatestGeneration # Initial => RearmOf(LatestGeneration) \in Rearms
<1>1. CASE Rearms = {}
  <2>1. LatestGeneration = Initial
    BY <1>1 DEF LatestGeneration
  <2>2. \A c \in Claims : RearmOf(c.source) \notin events
    BY <1>1, EventsTyped
  <2>3. IsTip(Initial)
    BY <2>2 DEF IsTip, Opened
  <2> QED BY <1>1, <2>1, <2>3, Bounds
<1>2. CASE Rearms # {}
  <2> DEFINE G == {e.generation : e \in Rearms}
             m == Max(G)
  <2>1. LatestGeneration = m
    BY <1>2 DEF LatestGeneration
  <2>2. G \subseteq 0..MaxPrompts /\ G # {}
    <3>1. \A e \in Rearms : e.generation \in 0..MaxPrompts
      BY EventsTyped, Bounds DEF Generation
    <3> QED BY <1>2, <3>1
  <2>3. m \in G /\ \A y \in G : m >= y
    <3> HIDE DEF G
    <3> QED BY <2>2, Bounds, MaxIsIn
  <2> HIDE DEF m
  <2>4. PICK e \in Rearms : m = e.generation
    BY <2>3
  <2>5. m \in Prompt /\ RearmOf(m) \in Rearms /\ m \in Generation
    BY <2>4, EventsTyped, Bounds
  <2>6. ASSUME NEW c \in Claims, c.generation = m PROVE RearmOf(c.source) \notin events
    <3> SUFFICES ASSUME RearmOf(c.source) \in Rearms PROVE FALSE
      BY EventsTyped
    <3>1. c.source \in Prompt /\ RearmOf(c.source).generation = c.source
      BY EventsTyped, RearmTyped
    <3>2. c.source \in G
      BY <3>1
    <3>3. m < c.source /\ m >= c.source
      BY <2>3, <2>6, <3>2 DEF ClaimsAreLater
    <3> QED BY <2>5, <3>1, <3>3 DEF Prompt
  <2>7. IsTip(m)
    BY <2>5, <2>6, EventsTyped DEF IsTip, Opened
  <2>8. m # Initial
    BY <2>5, Bounds
  <2> QED BY <2>1, <2>5, <2>7, <2>8
<1> QED BY <1>1, <1>2

LEMMA UnclaimedIsLatest ==
  ASSUME IInv, ClaimsAreLater, NEW g \in Generation, Opened(g), ~IsClaimed(g)
  PROVE g = LatestGeneration
<1>1. IsTip(g)
  BY DEF IsTip, IsClaimed
<1> QED BY <1>1, LatestIsTip DEF IInv, OneTip

LEMMA OpenIsLatest ==
  ASSUME IInv, ClaimsAreLater
  PROVE /\ Open = IF LatestGeneration # Initial /\ ~IsClaimed(LatestGeneration)
                  THEN {LatestGeneration} ELSE {}
        /\ Open # {} => Max(Open) = LatestGeneration
<1>1. ASSUME NEW g \in Open
      PROVE g = LatestGeneration /\ g # Initial /\ ~IsClaimed(g)
  <2>1. PICK e \in Rearms : g = e.generation /\ ~IsClaimed(g)
    BY <1>1 DEF Open
  <2>2. g \in Prompt /\ g \in Generation /\ Opened(g)
    BY <2>1, EventsTyped, Bounds DEF Opened
  <2> QED BY <2>1, <2>2, UnclaimedIsLatest, Bounds
<1>2. ASSUME LatestGeneration # Initial, ~IsClaimed(LatestGeneration)
      PROVE LatestGeneration \in Open
  <2>1. RearmOf(LatestGeneration) \in Rearms
    BY <1>2, LatestIsTip
  <2>2. RearmOf(LatestGeneration).generation = LatestGeneration
    BY DEF RearmOf
  <2> QED BY <1>2, <2>1, <2>2 DEF Open
<1>3. Open = IF LatestGeneration # Initial /\ ~IsClaimed(LatestGeneration)
             THEN {LatestGeneration} ELSE {}
  BY <1>1, <1>2
<1>4. ASSUME Open # {} PROVE Max(Open) = LatestGeneration
  <2>1. Open \subseteq 0..MaxPrompts
    BY <1>1, LatestIsTip DEF Generation
  <2>2. Max(Open) \in Open
    BY <1>4, <2>1, Bounds, MaxIsIn
  <2> QED BY <1>1, <2>2
<1> QED BY <1>3, <1>4

(* A claim that is held is of the latest generation, and its prompt finds it. *)
LEMMA HeldIsOwn ==
  ASSUME IInv, ClaimsAreLater, NEW c \in Claims, Held(c)
  PROVE c \in OwnClaim(c.source) /\ Proposal(c.source) # None
<1>1. c.generation \in Generation /\ IsTip(c.generation)
  BY EventsTyped DEF IInv, Unique, ClaimsAreOpened, IsTip, Held
<1>2. c.generation = LatestGeneration
  BY <1>1, LatestIsTip DEF IInv, OneTip
<1>3. c \in OwnClaim(c.source)
  BY <1>2 DEF OwnClaim
<1>4. Proposal(c.source) = c.generation
  BY <1>2, <1>3 DEF Proposal
<1> QED BY <1>1, <1>3, <1>4, Bounds

(* What nobody has claimed is proposed to whoever asks. *)
LEMMA UnclaimedIsProposed ==
  ASSUME IInv, ClaimsAreLater, NEW p \in Prompt,
         NEW g \in Generation, Opened(g), ~IsClaimed(g), g = Initial => due
  PROVE Proposal(p) = g
<1>1. g = LatestGeneration
  BY UnclaimedIsLatest
<1>2. OwnClaim(p) = {}
  BY <1>1 DEF OwnClaim, IsClaimed
<1>3. CASE g # Initial
  BY <1>1, <1>2, <1>3, OpenIsLatest DEF Proposal
<1>4. CASE g = Initial
  <2>1. Rearms = {} /\ Open = {}
    BY <1>1, <1>4, LatestIsTip, OpenIsLatest
  <2>2. Claims = {}
    <3> SUFFICES ASSUME NEW c \in Claims PROVE FALSE
      OBVIOUS
    <3>1. c.generation # Initial
      BY <1>4 DEF IsClaimed
    <3>2. RearmOf(c.generation) \in Rearms
      BY <3>1, EventsTyped DEF IInv, ClaimsAreOpened, Opened
    <3> QED BY <2>1, <3>2
  <2>3. ~Suggested
    BY <2>2 DEF Suggested
  <2> QED BY <1>2, <1>4, <2>1, <2>3 DEF Proposal
<1> QED BY <1>3, <1>4

(* What is proposed was opened by an earlier prompt. *)
LEMMA ProposalIsEarlier ==
  ASSUME IInv, Orderly, ClaimsAreLater, NEW p \in Prompt, p \notin replayed,
         Waiting(p) \/ hook[p] = "queued", Proposal(p) # None
  PROVE /\ Proposal(p) < p
        /\ Proposal(p) = Initial => due \/ IsClaimed(Initial)
<1>1. CASE OwnClaim(p) # {}
  <2>1. PICK c \in Claims : c.source = p /\ c.generation = LatestGeneration
    BY <1>1 DEF OwnClaim
  <2>2. Proposal(p) = c.generation
    BY <1>1, <2>1 DEF Proposal
  <2> QED BY <2>1, <2>2 DEF ClaimsAreLater, IsClaimed
<1>2. CASE OwnClaim(p) = {} /\ Open # {}
  <2> DEFINE g == LatestGeneration
  <2>1. Proposal(p) = g /\ g # Initial
    BY <1>2, OpenIsLatest DEF Proposal
  <2>2. RearmOf(g) \in Rearms /\ g \in Generation
    BY <2>1, LatestIsTip
  <2>3. g \in Prompt /\ g \in replayed
    <3>1. RearmOf(g).source = g
      BY DEF RearmOf
    <3> QED BY <2>1, <2>2, <3>1, EventsTyped DEF ClaimsAreLater
  <2> HIDE DEF g
  <2>4. hook[g] = "queued" /\ g # p
    BY <2>3 DEF Orderly, QueueInOrder
  <2>5. ~(p < g)
    <3>1. CASE hook[p] = "queued"
      BY <2>3, <3>1 DEF Orderly, QueueInOrder
    <3>2. CASE Waiting(p)
      BY <2>3, <2>4, <3>2 DEF Orderly, HooksInOrder, Waiting
    <3> QED BY <3>1, <3>2
  <2>6. p \in Nat /\ g \in Nat
    BY <2>3 DEF Prompt
  <2> QED BY <2>1, <2>4, <2>5, <2>6
<1>3. CASE OwnClaim(p) = {} /\ Open = {}
  <2>1. Proposal(p) = Initial /\ due
    BY <1>3 DEF Proposal
  <2>2. Initial < p
    BY DEF Initial, Prompt
  <2> QED BY <2>1, <2>2
<1> QED BY <1>1, <1>2, <1>3
-------------------------------------------------------------------------------
(* Kept is kept, as long as no prompt is ingested again.                   *)

LEMMA EventsStay ==
  ASSUME events' = events
  PROVE /\ Claims' = Claims /\ Rearms' = Rearms
        /\ \A c : Held(c)' <=> Held(c)
        /\ \A g : IsClaimed(g)' <=> IsClaimed(g)
<1>1. Claims' = Claims /\ Rearms' = Rearms
  BY DEF Claims, Rearms
<1> QED BY <1>1 DEF Held, IsClaimed

LEMMA KeptHooks ==
  ASSUME IInv, Kept, UNCHANGED <<events, pc, work, file, todo, replayed>>, due => due',
         \A p \in Prompt : hook[p] = "queued" => hook'[p] = "queued",
         \A p \in Prompt : hook[p] = "shown" \/ Waiting(p) \/ p \in queue
                           => hook'[p] = "shown" \/ Waiting(p)' \/ p \in queue'
  PROVE Kept'
<1>1. ClaimsAreLater'
  <2>1. ClaimsAreLater
    BY DEF Kept
  <2> QED BY <2>1, EventsStay DEF ClaimsAreLater, IsClaimed
<1>2. ProposedAlike'
  <2>1. ProposedAlike
    BY DEF Kept
  <2> QED BY <2>1, EventsStay DEF ProposedAlike, IsClaimed, ToBeRead
<1>3. DaemonTells'
  BY EventsStay, EventsTyped DEF Kept, DaemonTells, Held, WillTell, Ingesting
<1>4. HeldIsKept'
  <2> SUFFICES ASSUME NEW c \in Claims, Held(c)
               PROVE \/ hook'[c.source] = "shown" \/ Waiting(c.source)'
                     \/ c.source \in queue' \/ ToBeRead(c.source)'
                     \/ WillTell("replay")' /\ work'["replay"].prompt = c.source
    BY EventsStay DEF HeldIsKept, Held, Waiting, ToBeRead
  <2>1. c.source \in Prompt
    BY EventsTyped
  <2>2. /\ ToBeRead(c.source)' <=> ToBeRead(c.source)
        /\ WillTell("replay")' <=> WillTell("replay")
    BY DEF ToBeRead, WillTell
  <2> QED BY <2>1, <2>2 DEF Kept, HeldIsKept
<1> QED BY <1>1, <1>2, <1>3, <1>4 DEF Kept

LEMMA KeptEdges ==
  ASSUME IInv, Orderly, Kept,
         \/ UNCHANGED vars \/ BecomeDue
         \/ \E p \in Prompt : Send(p) \/ GiveUp(p) \/ AppendFallback(p)
  PROVE Kept'
<1>1. CASE UNCHANGED vars \/ BecomeDue
  <2>1. UNCHANGED <<events, hook, pc, work, queue, file, todo, replayed>> /\ (due => due')
    BY <1>1 DEF vars, BecomeDue, hookVars, files, history
  <2> QED BY <2>1, KeptHooks DEF Waiting
<1>2. ASSUME NEW p \in Prompt, Send(p) \/ GiveUp(p) \/ AppendFallback(p) PROVE Kept'
  <2>1. /\ UNCHANGED <<events, due, file, todo, pc, work, replayed>> /\ queue \subseteq queue'
        /\ \A x \in Prompt \ {p} : hook'[x] = hook[x]
        /\ hook[p] \in {"idle", "sent", "retry", "fallback"}
        /\ hook'[p] \in {"sent", "retry", "fallback"} \/ p \in queue'
    <3>1. CASE Send(p)
      BY <3>1 DEF Send, GotoHook, files, history, IInv, Types
    <3>2. CASE GiveUp(p)
      BY <3>2 DEF GiveUp, GotoHook, files, history, IInv, Types
    <3>3. CASE AppendFallback(p)
      BY <3>3 DEF AppendFallback, GotoHook, history, IInv, Types
    <3> QED BY <1>2, <3>1, <3>2, <3>3
  <2> QED BY <2>1, KeptHooks DEF Waiting
<1> QED BY <1>1, <1>2

LEMMA KeptIngest ==
  ASSUME IInv, Orderly, Kept, NEW a \in mail, Ingest(a), ~again'
  PROVE Kept'
<1> DEFINE p == a.prompt
<1>1. p \in Prompt /\ p \notin replayed
  BY DEF Ingest, Resolve, IInv, Types
<1>2. /\ UNCHANGED <<events, due, hook, queue, file, todo, replayed>>
      /\ pc'["daemon"] = "claim" /\ pc'["replay"] = pc["replay"]
      /\ work'["daemon"].prompt = p /\ work'["daemon"].generation = Proposal(p)
      /\ work'["replay"] = work["replay"]
  BY RunnersAre DEF Ingest, Resolve, Goto, files, IInv, Types
<1>3. Waiting(p) \/ hook[p] = "queued"
  BY DEF Orderly, MailInOrder
<1>4. ClaimsAreLater /\ ProposedAlike /\ DaemonTells /\ HeldIsKept
  BY DEF Kept
<1> HIDE DEF p
<1>5. ClaimsAreLater'
  <2>1. Proposal(p) # None => Proposal(p) < p /\ (Proposal(p) = Initial => due \/ IsClaimed(Initial))
    BY <1>1, <1>3, <1>4, ProposalIsEarlier
  <2> QED BY <1>2, <1>4, <2>1, EventsStay DEF ClaimsAreLater, IsClaimed, Runner
<1>6. ProposedAlike'
  BY <1>1, <1>2 DEF ProposedAlike
<1>7. DaemonTells'
  <2> SUFFICES ASSUME NEW c \in Claims, Held(c), c.source = p PROVE WillTell("daemon")'
    BY <1>2, EventsStay DEF DaemonTells, Held
  <2>1. Proposal(p) # None
    BY <1>4, HeldIsOwn
  <2> QED BY <1>2, <2>1 DEF WillTell
<1>8. HeldIsKept'
  BY <1>2, <1>4, EventsStay DEF HeldIsKept, Held, Waiting, ToBeRead, WillTell
<1> QED BY <1>5, <1>6, <1>7, <1>8 DEF Kept

LEMMA KeptRecord ==
  ASSUME IInv, Orderly, Kept, NEW p \in Prompt, IngestRecord(p), ~again'
  PROVE Kept'
<1>1. /\ UNCHANGED <<events, due, hook, queue, file>> /\ todo' = todo \ {p}
      /\ p \notin replayed /\ replayed' = replayed \union {p}
      /\ pc["replay"] = "read" /\ pc'["replay"] = "claim" /\ pc'["daemon"] = pc["daemon"]
      /\ work'["replay"].prompt = p /\ work'["replay"].generation = Proposal(p)
      /\ work'["daemon"] = work["daemon"]
  BY RunnersAre DEF IngestRecord, Resolve, Goto, hookVars, IInv, Types
<1>2. hook[p] = "queued"
  <2>1. todo # {} /\ todo \in SUBSET Nat /\ p = Min(todo)
    BY DEF IngestRecord, IInv, Types, Prompt
  <2>2. p \in todo
    BY <2>1, MinIsIn
  <2> QED BY <2>2 DEF IInv, Types, QueuedIsQueued
<1>3. ClaimsAreLater /\ ProposedAlike /\ DaemonTells /\ HeldIsKept
  BY DEF Kept
<1>4. \A x : x # p /\ ToBeRead(x) => ToBeRead(x)'
  BY <1>1 DEF ToBeRead
<1>5. ClaimsAreLater'
  <2>1. Proposal(p) # None => Proposal(p) < p /\ (Proposal(p) = Initial => due \/ IsClaimed(Initial))
    BY <1>1, <1>2, <1>3, ProposalIsEarlier
  <2> QED BY <1>1, <1>3, <2>1, EventsStay DEF ClaimsAreLater, IsClaimed, Runner
<1>6. ProposedAlike'
  <2> DEFINE x == work["daemon"].prompt
             g == work["daemon"].generation
  <2> SUFFICES ASSUME pc["daemon"] = "claim", x \in replayed', g # None, ~IsClaimed(g)
               PROVE ToBeRead(x)' \/ (x = p /\ g = Proposal(p))
    BY <1>1, EventsStay DEF ProposedAlike
  <2>1. CASE x = p
    <3>1. g \in Generation /\ Opened(g)
      BY RunnersAre, EventsTyped DEF IInv, Works
    <3>2. g = Initial => due
      BY <1>3, RunnersAre DEF ClaimsAreLater
    <3> HIDE DEF g
    <3>3. Proposal(p) = g
      BY <1>3, <3>1, <3>2, UnclaimedIsProposed
    <3> QED BY <2>1, <3>3
  <2>2. CASE x # p
    BY <1>1, <1>3, <1>4, <2>2 DEF ProposedAlike
  <2> QED BY <2>1, <2>2
<1>7. DaemonTells'
  BY <1>1, <1>3, EventsStay DEF DaemonTells, Held, Ingesting, WillTell
<1>8. HeldIsKept'
  <2> SUFFICES ASSUME NEW c \in Claims, Held(c)
               PROVE \/ hook[c.source] = "shown" \/ Waiting(c.source)
                     \/ c.source \in queue \/ ToBeRead(c.source)'
                     \/ WillTell("replay")' /\ p = c.source
    BY <1>1, EventsStay DEF HeldIsKept, Held, Waiting
  <2>1. CASE c.source = p
    <3>1. Proposal(p) # None
      BY <1>3, <2>1, HeldIsOwn
    <3> QED BY <1>1, <2>1, <3>1 DEF WillTell
  <2>2. CASE c.source # p
    BY <1>1, <1>3, <1>4, <2>2 DEF HeldIsKept, WillTell
  <2> QED BY <2>1, <2>2
<1> QED BY <1>5, <1>6, <1>7, <1>8 DEF Kept

LEMMA KeptClaim ==
  ASSUME IInv, Orderly, Kept, NEW r \in Runner, ClaimSuggestion(r)
  PROVE Kept'
<1> DEFINE p == work[r].prompt
           g == work[r].generation
           first == g # None /\ ~IsClaimed(g)
<1>1. /\ UNCHANGED <<due, hook, queue, file, todo, replayed>>
      /\ pc[r] = "claim" /\ pc'[r] = "answer"
      /\ \A q \in Runner \ {r} : pc'[q] = pc[q] /\ work'[q] = work[q]
      /\ \A q \in Runner : work'[q].prompt = work[q].prompt
      /\ work'[r].advice <=> (g # None /\ (first \/ OwnClaim(p) # {}))
      /\ events' = IF first THEN events \union {ClaimOf(p, g)} ELSE events
  <2>1. work[r] \in Work /\ work \in [Runner -> Work] /\ pc \in [Runner -> {"idle", "claim", "read", "answer"}]
    BY DEF IInv, Types
  <2>2. work' = [work EXCEPT ![r].advice = g # None /\ (first \/ OwnClaim(p) # {})]
    BY DEF ClaimSuggestion, Claim
  <2>3. work'[r] = [work[r] EXCEPT !.advice = g # None /\ (first \/ OwnClaim(p) # {})]
    BY <2>1, <2>2
  <2>4. work'[r].prompt = work[r].prompt
        /\ work'[r].advice = (g # None /\ (first \/ OwnClaim(p) # {}))
    BY <2>1, <2>3 DEF Work
  <2>5. \A q \in Runner \ {r} : work'[q] = work[q]
    BY <2>1, <2>2
  <2>6. pc' = [pc EXCEPT ![r] = "answer"] /\ pc[r] = "claim"
        /\ UNCHANGED <<due, hook, queue, file, todo, replayed>>
        /\ events' = IF first THEN events \union {ClaimOf(p, g)} ELSE events
    BY DEF ClaimSuggestion, Claim, Goto, hookVars, files, history
  <2>7. pc'[r] = "answer" /\ \A q \in Runner \ {r} : pc'[q] = pc[q]
    BY <2>1, <2>6
  <2> HIDE DEF p, g, first
  <2> QED BY <2>4, <2>5, <2>6, <2>7
<1>2. p \in Prompt /\ (g # None => g \in Generation)
  BY EventsTyped
<1>3. ClaimsAreLater /\ ProposedAlike /\ DaemonTells /\ HeldIsKept
  BY DEF Kept
<1>4. g # None => g < p /\ (g = Initial => due \/ IsClaimed(Initial))
  BY <1>1, <1>3 DEF ClaimsAreLater
<1>5. /\ Rearms' = Rearms /\ Claims \subseteq Claims'
      /\ first => Claims' = Claims \union {ClaimOf(p, g)} /\ ClaimOf(p, g).generation = g
                                                         /\ ClaimOf(p, g).source = p
      /\ ~first => Claims' = Claims
      /\ \A c : Held(c)' <=> Held(c)
  <2>1. CASE first
    <3>1. /\ ClaimOf(p, g).state = "claimed" /\ ClaimOf(p, g).generation = g
          /\ ClaimOf(p, g).source = p
      BY DEF ClaimOf
    <3>2. \A x : RearmOf(x).state = "pending_replay"
      BY DEF RearmOf
    <3>3. events' = events \union {ClaimOf(p, g)}
      BY <1>1, <2>1
    <3> HIDE DEF first, p, g
    <3>4. Claims' = Claims \union {ClaimOf(p, g)} /\ Rearms' = Rearms
      BY <3>1, <3>3 DEF Claims, Rearms
    <3>5. \A x : RearmOf(x) \in events' <=> RearmOf(x) \in events
      BY <3>1, <3>2, <3>3
    <3> QED BY <2>1, <3>1, <3>4, <3>5 DEF Held
  <2>2. CASE ~first
    <3>1. events' = events
      BY <1>1, <2>2
    <3> HIDE DEF first
    <3> QED BY <2>2, <3>1, EventsStay
  <2> QED BY <2>1, <2>2
<1>6. /\ \A x : IsClaimed(x)' <=> \E c \in Claims' : c.generation = x
      /\ \A x : IsClaimed(x) => IsClaimed(x)'
      /\ g # None => \E c \in Claims' : c.generation = g
  <2>1. \A x : IsClaimed(x)' <=> \E c \in Claims' : c.generation = x
    BY DEF IsClaimed
  <2>2. \A x : IsClaimed(x) => \E c \in Claims' : c.generation = x
    BY <1>5 DEF IsClaimed
  <2>3. CASE first
    BY <1>5, <2>1, <2>2, <2>3
  <2>4. CASE ~first
    BY <2>1, <2>2, <2>4
  <2> QED BY <2>3, <2>4
<1>7. ClaimsAreLater'
  <2>1. \A c \in Claims' : c.generation < c.source
    BY <1>3, <1>4, <1>5 DEF ClaimsAreLater
  <2> QED BY <1>1, <1>3, <1>5, <1>6, <2>1 DEF ClaimsAreLater
(* An own claim that is held answers with advice. *)
<1>8. ASSUME NEW c \in Claims', Held(c), c.source = p, g # None PROVE work'[r].advice
  <2>1. CASE first
    BY <1>1, <2>1
  <2>2. CASE ~first
    <3>1. c \in OwnClaim(p)
      BY <1>3, <1>5, <1>8, <2>2, HeldIsOwn
    <3> QED BY <1>1, <1>8, <3>1
  <2> QED BY <2>1, <2>2
<1>9. \A x : ToBeRead(x) => ToBeRead(x)'
  <2>1. pc'["replay"] = "idle" <=> pc["replay"] = "idle"
    BY <1>1, RunnersAre
  <2> QED BY <1>1, <2>1 DEF ToBeRead
<1>10. ProposedAlike'
  <2>1. CASE r = "daemon"
    BY <1>1, <2>1 DEF ProposedAlike
  <2>2. CASE r = "replay"
    <3> DEFINE w == work["daemon"]
    <3>1. pc'["daemon"] = pc["daemon"] /\ work'["daemon"] = w
      BY <1>1, <2>2, RunnersAre
    <3> SUFFICES ASSUME pc["daemon"] = "claim", w.prompt \in replayed, w.generation # None
                 PROVE (\E c \in Claims' : c.generation = w.generation) \/ ToBeRead(w.prompt)'
      BY <1>1, <1>6, <3>1 DEF ProposedAlike, ToBeRead
    <3>2. \/ IsClaimed(w.generation) \/ ToBeRead(w.prompt) \/ g = w.generation
      BY <1>3, <2>2 DEF ProposedAlike
    <3> HIDE DEF g
    <3>3. CASE IsClaimed(w.generation) \/ g = w.generation
      BY <1>6, <3>3
    <3>4. CASE ToBeRead(w.prompt)
      BY <1>1, <1>9, <3>1, <3>4 DEF ToBeRead
    <3> QED BY <3>2, <3>3, <3>4
  <2> QED BY <2>1, <2>2 DEF Runner
<1>11. DaemonTells'
  <2> SUFFICES ASSUME NEW c \in Claims', Held(c), hook[c.source] # "queued", Ingesting("daemon")',
                      work["daemon"].prompt = c.source
               PROVE WillTell("daemon")'
    BY <1>1, <1>5, RunnersAre DEF DaemonTells
  <2>1. CASE r = "daemon"
    <3>1. g # None
      <4>1. CASE c \in Claims
        BY <1>1, <1>3, <2>1, <4>1 DEF DaemonTells, Ingesting, WillTell
      <4>2. CASE c \notin Claims
        BY <1>5, <4>2
      <4> QED BY <4>1, <4>2
    <3>2. work'[r].advice
      BY <1>8, <2>1, <3>1
    <3> QED BY <1>1, <2>1, <3>2 DEF WillTell
  <2>2. CASE r = "replay"
    <3>1. pc'["daemon"] = pc["daemon"] /\ work'["daemon"] = work["daemon"]
      BY <1>1, <2>2, RunnersAre
    <3>2. hook[p] = "queued"
      BY <1>1, <2>2 DEF IInv, Works
    <3>3. c \in Claims
      <4> HIDE DEF p
      <4> QED BY <1>5, <3>2
    <3> QED BY <1>3, <3>1, <3>3 DEF DaemonTells, Ingesting, WillTell
  <2> QED BY <2>1, <2>2 DEF Runner
<1>12. HeldIsKept'
  <2> SUFFICES ASSUME NEW c \in Claims', Held(c)
               PROVE \/ hook[c.source] = "shown" \/ Waiting(c.source)
                     \/ c.source \in queue \/ ToBeRead(c.source)
                     \/ WillTell("replay")' /\ work["replay"].prompt = c.source
    <3>1. \A x : Waiting(x)' <=> Waiting(x)
      BY <1>1 DEF Waiting
    <3> QED BY <1>1, <1>5, <1>9, <3>1, RunnersAre DEF HeldIsKept
  <2>1. CASE r = "replay" /\ c.source = p /\ g # None
    BY <1>1, <1>8, <2>1 DEF WillTell
  <2>2. CASE r = "replay" /\ ~(c.source = p /\ g # None)
    <3>1. c \in Claims
      <4> HIDE DEF p, g
      <4> QED BY <1>5, <2>2 DEF first
    <3>2. ~(WillTell("replay") /\ work["replay"].prompt = c.source)
      BY <1>1, <2>2 DEF WillTell
    <3> QED BY <1>3, <3>1, <3>2 DEF HeldIsKept
  <2>3. CASE r = "daemon" /\ c \in Claims
    <3>1. WillTell("replay")' <=> WillTell("replay")
      BY <1>1, <2>3, RunnersAre DEF WillTell
    <3> QED BY <1>3, <2>3, <3>1 DEF HeldIsKept
  <2>4. CASE r = "daemon" /\ c \notin Claims
    <3>1. first /\ c.source = p
      BY <1>5, <2>4
    <3>2. Waiting(p) \/ hook[p] = "queued"
      BY <1>1, <2>4 DEF Orderly, MailInOrder, Ingesting
    <3>3. ASSUME hook[p] = "queued", p \notin queue
          PROVE ToBeRead(p) \/ (WillTell("replay")' /\ work["replay"].prompt = p)
      <4>1. CASE p \notin replayed
        BY <1>2, <3>3, <4>1 DEF Orderly, QueueInOrder
      <4>2. CASE p \in replayed
        <5>1. ToBeRead(p) \/ (pc["replay"] = "claim" /\ work["replay"].prompt = p
                                                    /\ work["replay"].generation = g)
          BY <1>1, <1>3, <2>4, <3>1, <4>2 DEF ProposedAlike
        <5>2. pc'["replay"] = pc["replay"] /\ work'["replay"] = work["replay"]
          BY <1>1, <2>4, RunnersAre
        <5> QED BY <3>1, <5>1, <5>2 DEF WillTell
      <4> QED BY <4>1, <4>2
    <3> QED BY <3>1, <3>2, <3>3
  <2> QED BY <2>1, <2>2, <2>3, <2>4 DEF Runner
<1> QED BY <1>7, <1>10, <1>11, <1>12 DEF Kept

LEMMA KeptAcknowledge ==
  ASSUME IInv, Orderly, Kept, NEW h \in Prompt, Acknowledge(h)
  PROVE Kept'
<1>1. /\ pc["daemon"] = "answer" /\ work["daemon"].prompt = h
      /\ pc' = [pc EXCEPT !["daemon"] = "idle"]
      /\ UNCHANGED <<events, due, queue, file, todo, work, replayed>>
  BY DEF Acknowledge, Goto, files, history
<1>2. pc'["daemon"] = "idle" /\ pc'["replay"] = pc["replay"]
  BY <1>1, RunnersAre DEF IInv, Types
<1>3. ClaimsAreLater /\ ProposedAlike /\ DaemonTells /\ HeldIsKept
  BY DEF Kept
<1>4. ClaimsAreLater'
  BY <1>1, <1>2, <1>3, EventsStay DEF ClaimsAreLater, IsClaimed, Runner
<1>5. ProposedAlike' /\ DaemonTells'
  BY <1>2 DEF ProposedAlike, DaemonTells, Ingesting
<1>6. HeldIsKept'
  <2>1. /\ \A x : ToBeRead(x)' <=> ToBeRead(x)
        /\ WillTell("replay")' <=> WillTell("replay")
    BY <1>1, <1>2 DEF ToBeRead, WillTell
  <2> SUFFICES ASSUME NEW c \in Claims, Held(c)
               PROVE \/ hook'[c.source] = "shown" \/ Waiting(c.source)'
                     \/ c.source \in queue \/ ToBeRead(c.source)
                     \/ WillTell("replay") /\ work["replay"].prompt = c.source
    BY <1>1, <2>1, EventsStay DEF HeldIsKept, Held, Waiting
  <2>2. \/ hook' = hook
        \/ hook[h] = "sent" /\ GotoHook(h, IF work["daemon"].advice THEN "shown" ELSE "plain")
    BY DEF Acknowledge
  <2>3. CASE hook' = hook
    BY <1>3, <2>3 DEF HeldIsKept, Waiting
  <2>4. CASE /\ hook[h] = "sent"
             /\ GotoHook(h, IF work["daemon"].advice THEN "shown" ELSE "plain")
    <3>1. /\ hook'[h] = IF work["daemon"].advice THEN "shown" ELSE "plain"
          /\ \A x \in Prompt \ {h} : hook'[x] = hook[x]
      BY <2>4 DEF GotoHook, IInv, Types
    <3>2. CASE c.source = h
      <4>1. work["daemon"].advice
        BY <1>1, <1>3, <2>4, <3>2 DEF DaemonTells, Ingesting, WillTell
      <4> QED BY <3>1, <3>2, <4>1
    <3>3. CASE c.source # h
      <4>1. c.source \in Prompt
        BY EventsTyped
      <4> QED BY <1>3, <3>1, <3>3, <4>1 DEF HeldIsKept, Waiting
    <3> QED BY <3>2, <3>3
  <2> QED BY <2>2, <2>3, <2>4
<1> QED BY <1>4, <1>5, <1>6 DEF Kept

LEMMA KeptDiscard ==
  ASSUME IInv, Orderly, Kept, DiscardAnswer
  PROVE Kept'
<1> DEFINE p == work["replay"].prompt
<1>1. /\ pc["replay"] = "answer" /\ pc' = [pc EXCEPT !["replay"] = "read"]
      /\ UNCHANGED <<due, hook, queue, file, todo, work, replayed>>
  BY DEF DiscardAnswer, Goto, hookVars, files, history
<1>2. pc'["replay"] = "read" /\ pc'["daemon"] = pc["daemon"]
  BY <1>1, RunnersAre DEF IInv, Types
<1>3. p \in replayed
  BY <1>1 DEF Orderly, QueueInOrder, Ingesting
<1>4. ClaimsAreLater /\ ProposedAlike /\ DaemonTells /\ HeldIsKept
  BY DEF Kept
<1>5. /\ Claims' = Claims /\ \A e \in Rearms' \ Rearms : e.source \in replayed
      /\ \A c : Held(c)' => Held(c) /\ (work["replay"].advice => c.source # p)
  <2>1. RearmOf(p).state = "pending_replay" /\ RearmOf(p).source = p
    BY DEF RearmOf
  <2>2. CASE work["replay"].advice
    <3>1. events' = events \union {RearmOf(p)}
      BY <2>2 DEF DiscardAnswer, Rearm
    <3>2. \A c : RearmOf(c.source) \notin events'
                   => RearmOf(c.source) \notin events /\ c.source # p
      BY <3>1
    <3>3. \A c : Held(c)' <=> RearmOf(c.source) \notin events'
      BY DEF Held
    <3>4. Claims' = Claims /\ Rearms' \subseteq Rearms \union {RearmOf(p)}
      <4> HIDE DEF p
      <4> QED BY <2>1, <3>1 DEF Claims, Rearms
    <3> HIDE DEF p
    <3> QED BY <1>3, <2>1, <3>2, <3>3, <3>4 DEF Held
  <2>3. CASE ~work["replay"].advice
    <3>1. events' = events
      BY <2>3 DEF DiscardAnswer
    <3> QED BY <2>3, <3>1, EventsStay
  <2> QED BY <2>2, <2>3
<1>6. \A g : IsClaimed(g)' <=> IsClaimed(g)
  BY <1>5 DEF IsClaimed
<1>7. \A x : ToBeRead(x)' <=> ToBeRead(x)
  BY <1>1, <1>2 DEF ToBeRead
<1>8. ClaimsAreLater'
  BY <1>1, <1>2, <1>4, <1>5, <1>6 DEF ClaimsAreLater, Runner
<1>9. ProposedAlike'
  BY <1>1, <1>2, <1>4, <1>6, <1>7 DEF ProposedAlike
<1>10. DaemonTells'
  BY <1>1, <1>2, <1>4, <1>5 DEF DaemonTells, Ingesting, WillTell
<1>11. HeldIsKept'
  <2> SUFFICES ASSUME NEW c \in Claims, Held(c)'
               PROVE hook[c.source] = "shown" \/ Waiting(c.source)
                     \/ c.source \in queue \/ ToBeRead(c.source)
    BY <1>1, <1>5, <1>7 DEF HeldIsKept, Waiting
  <2>1. Held(c) /\ (work["replay"].advice => c.source # p)
    BY <1>5
  <2>2. ~(WillTell("replay") /\ p = c.source)
    BY <1>1, <2>1 DEF WillTell
  <2> QED BY <1>4, <2>1, <2>2 DEF HeldIsKept
<1> QED BY <1>8, <1>9, <1>10, <1>11 DEF Kept

LEMMA KeptFiles ==
  ASSUME IInv, Orderly, Kept, StartReplay \/ RemoveFile
  PROVE Kept'
<1>1. /\ UNCHANGED <<events, due, hook, work, replayed>> /\ pc'["daemon"] = pc["daemon"]
      /\ pc'["replay"] \in {"read", "idle"} /\ pc["replay"] \in {"read", "idle"}
  <2>1. /\ \E l \in {"read", "idle"} : pc' = [pc EXCEPT !["replay"] = l]
        /\ pc["replay"] \in {"read", "idle"}
    BY DEF StartReplay, RemoveFile, Goto
  <2> QED BY <2>1, RunnersAre DEF StartReplay, RemoveFile, hookVars, history, IInv, Types
<1>2. \A x : x \in queue \/ ToBeRead(x) => x \in queue' \/ ToBeRead(x)'
  BY DEF StartReplay, RemoveFile, ToBeRead
<1>3. \A x : ToBeRead(x) => ToBeRead(x)'
  BY DEF StartReplay, RemoveFile, ToBeRead
<1>4. ClaimsAreLater /\ ProposedAlike /\ DaemonTells /\ HeldIsKept
  BY DEF Kept
<1>5. ClaimsAreLater'
  BY <1>1, <1>4, EventsStay DEF ClaimsAreLater, IsClaimed, Runner
<1>6. ProposedAlike' /\ DaemonTells'
  <2>1. ProposedAlike'
    BY <1>1, <1>3, <1>4, EventsStay DEF ProposedAlike
  <2>2. DaemonTells'
    BY <1>1, <1>4, EventsStay DEF DaemonTells, Held, Ingesting, WillTell
  <2> QED BY <2>1, <2>2
<1>7. HeldIsKept'
  <2>1. ~WillTell("replay")
    BY <1>1 DEF WillTell
  <2> QED BY <1>1, <1>2, <1>4, <2>1, EventsStay DEF HeldIsKept, Held, Waiting
<1> QED BY <1>5, <1>6, <1>7 DEF Kept

LEMMA KeptFail ==
  ASSUME IInv, Orderly, Kept, NEW r \in Runner, Fail(r)
  PROVE Kept'
<1>1. /\ UNCHANGED <<events, due, hook, queue, file, work, replayed>>
      /\ pc' = [pc EXCEPT ![r] = "idle"] /\ (r # "replay" => todo' = todo)
  BY DEF Fail, Goto, history
<1>2. pc'[r] = "idle" /\ \A q \in Runner \ {r} : pc'[q] = pc[q]
  BY <1>1 DEF IInv, Types
<1>3. \A x : ToBeRead(x) => ToBeRead(x)'
  BY <1>1, <1>2, RunnersAre DEF ToBeRead
<1>4. r = "replay" /\ Ingesting("replay") => ToBeRead(work["replay"].prompt)'
  BY <1>1, <1>2 DEF Orderly, QueueInOrder, ToBeRead
<1>5. ClaimsAreLater /\ ProposedAlike /\ DaemonTells /\ HeldIsKept
  BY DEF Kept
<1>6. ClaimsAreLater'
  BY <1>1, <1>2, <1>5, EventsStay DEF ClaimsAreLater, IsClaimed
<1>7. ProposedAlike' /\ DaemonTells'
  <2>1. CASE r = "daemon"
    BY <1>2, <2>1 DEF ProposedAlike, DaemonTells, Ingesting
  <2>2. CASE r = "replay"
    <3>1. pc'["daemon"] = pc["daemon"]
      BY <1>2, <2>2, RunnersAre
    <3>2. DaemonTells'
      BY <1>1, <1>5, <3>1, EventsStay DEF DaemonTells, Held, Ingesting, WillTell
    <3>3. pc["replay"] = "claim" => ToBeRead(work["replay"].prompt)'
      BY <1>4, <2>2 DEF Ingesting
    <3>4. work["daemon"].prompt = work["replay"].prompt /\ pc["replay"] = "claim"
            => ToBeRead(work["daemon"].prompt)'
      BY <1>1, <3>3 DEF ToBeRead
    <3>5. ToBeRead(work["daemon"].prompt) => ToBeRead(work["daemon"].prompt)'
      BY <1>1, <1>3 DEF ToBeRead
    <3>6. ProposedAlike'
      BY <1>1, <1>5, <3>1, <3>4, <3>5, EventsStay DEF ProposedAlike, IsClaimed
    <3> QED BY <3>2, <3>6
  <2> QED BY <2>1, <2>2 DEF Runner
<1>8. HeldIsKept'
  <2>1. WillTell("replay") => WillTell("replay")' \/ ToBeRead(work["replay"].prompt)'
    <3>1. CASE r = "replay"
      BY <1>4, <3>1 DEF WillTell, Ingesting
    <3>2. CASE r # "replay"
      BY <1>1, <1>2, <3>2, RunnersAre DEF WillTell
    <3> QED BY <3>1, <3>2
  <2> SUFFICES ASSUME NEW c \in Claims, Held(c)
               PROVE \/ hook[c.source] = "shown" \/ Waiting(c.source)
                     \/ c.source \in queue \/ ToBeRead(c.source)'
                     \/ WillTell("replay")' /\ work["replay"].prompt = c.source
    BY <1>1, EventsStay DEF HeldIsKept, Held, Waiting
  <2>2. work["replay"].prompt = c.source /\ ToBeRead(work["replay"].prompt)' => ToBeRead(c.source)'
    BY <1>1 DEF ToBeRead
  <2>3. ToBeRead(c.source) => ToBeRead(c.source)'
    BY <1>3
  <2> QED BY <1>5, <2>1, <2>2, <2>3 DEF HeldIsKept
<1> QED BY <1>6, <1>7, <1>8 DEF Kept

(* Only an ingestion notes that a prompt is ingested again, and for good.  *)
LEMMA AgainStays ==
  ASSUME [Next]_vars
  PROVE ~again' => ~again
BY DEF Next, vars, history, BecomeDue, Send, GiveUp, AppendFallback, Ingest, Resolve,
  ClaimSuggestion, Fail, Acknowledge, IngestRecord, StartReplay, DiscardAnswer, RemoveFile

LEMMA KeptStep ==
  ASSUME IInv, Orderly, Kept, [Next]_vars, ~again'
  PROVE Kept'
BY KeptEdges, KeptIngest, KeptRecord, KeptClaim, KeptAcknowledge, KeptDiscard, KeptFiles, KeptFail
   DEF Next

LEMMA InitiallyKept == Init => KInv
<1> SUFFICES ASSUME Init PROVE KInv
  OBVIOUS
<1>1. Claims = {} /\ Rearms = {}
  BY DEF Init, Claims, Rearms
<1>2. \A r \in Runner : pc[r] = "idle"
  BY DEF Init
<1>3. Orderly
  BY <1>2, RunnersAre DEF Init, Orderly, HooksInOrder, MailInOrder, QueueInOrder, Ingesting
<1>4. Kept
  BY <1>1, <1>2, RunnersAre DEF Kept, ClaimsAreLater, ProposedAlike, DaemonTells, HeldIsKept
<1> QED BY <1>3, <1>4 DEF KInv

LEMMA Keeping == Spec => []KInv
<1>1. IInv /\ KInv /\ [Next]_vars => KInv'
  <2> SUFFICES ASSUME IInv, KInv, [Next]_vars PROVE KInv'
    OBVIOUS
  <2>1. Orderly'
    BY OrderlyStep DEF KInv
  <2>2. ~again' => Kept'
    BY AgainStays, KeptStep DEF KInv
  <2> QED BY <2>1, <2>2 DEF KInv
<1> QED BY <1>1, InitiallyKept, Invariance, PTL DEF Spec

(* A suggestion that was claimed is shown, or open once everything is      *)
(* ingested, unless a prompt was ingested again after its replay           *)
(* (hook.rs:866): what was claimed for an answer nobody received is        *)
(* neither lost to a prompt that gave up nor to a replay that failed.      *)
THEOREM NotLost == Spec => []NotLostIngestedOnce
<1>1. IInv /\ KInv => NotLostIngestedOnce
  <2> SUFFICES ASSUME IInv, Kept, Quiet, Claims # {} PROVE Shown # {} \/ Open # {}
    BY DEF KInv, NotLostIngestedOnce, SuggestionIsNotLost
  <2> DEFINE g == LatestGeneration
  <2>1. ClaimsAreLater /\ HeldIsKept
    BY DEF Kept
  <2>2. g \in Generation /\ IsTip(g) /\ (g = Initial => Rearms = {})
    BY <2>1, LatestIsTip
  <2>3. CASE ~IsClaimed(g)
    <3>1. g # Initial
      <4> SUFFICES ASSUME g = Initial PROVE FALSE
        OBVIOUS
      <4>1. PICK c \in Claims : TRUE
        OBVIOUS
      <4>2. c.generation = Initial
        BY <2>2, EventsTyped DEF IInv, ClaimsAreOpened, Opened
      <4> QED BY <2>3, <4>2 DEF IsClaimed
    <3> QED BY <2>1, <2>3, <3>1, OpenIsLatest
  <2>4. CASE IsClaimed(g)
    <3>1. PICK c \in Claims : c.generation = g
      BY <2>4 DEF IsClaimed
    <3>2. Held(c)
      BY <2>2, <3>1 DEF IsTip, Held
    <3>3. c.source \in Prompt
      BY EventsTyped
    <3>4. ~Waiting(c.source) /\ c.source \notin queue /\ ~ToBeRead(c.source) /\ ~WillTell("replay")
      BY <3>3, RunnersAre DEF Quiet, Waiting, ToBeRead, WillTell
    <3>5. hook[c.source] = "shown"
      BY <2>1, <3>2, <3>4 DEF HeldIsKept
    <3> QED BY <3>3, <3>5 DEF Shown
  <2> QED BY <2>3, <2>4
<1> QED BY <1>1, Invariance, Keeping, PTL
================================================================================
