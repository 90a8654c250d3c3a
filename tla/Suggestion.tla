------------------------------- MODULE Suggestion -------------------------------
(***************************************************************************)
(* The suggestion to continue in a new thread                              *)
(* (src/src/hook/continuation_policy.rs) and how it reaches a prompt: the  *)
(* hook sends the prompt to the daemon and waits for its answer, or leaves *)
(* the prompt in a queue that a later run ingests                          *)
(* (src/src/hook.rs, src/src/hook/ingest.rs).                              *)
(*                                                                         *)
(* One session, with a task.  A suggestion is claimed by one prompt, for a *)
(* generation: the initial one, or the one that a replayed prompt opened   *)
(* because nobody saw its answer.  Only what decides about the suggestion  *)
(* is kept of an event; the reasons for it are one fact.                   *)
(***************************************************************************)
EXTENDS Naturals, FiniteSetsExt

CONSTANTS
  MaxPrompts,    \* bound on prompts; they are numbered in the order of their time
  MaxSends,      \* number of times a hook tries the daemon
  MaxFaults      \* bound on failures

ASSUME BoundsAssumption == MaxPrompts \in Nat \ {0} /\ MaxSends \in Nat /\ MaxFaults \in Nat

Prompt == 1..MaxPrompts
Initial == 0                       \* the generations: initial, and one per rearming prompt
None == MaxPrompts + 1

Event == [state : {"claimed", "pending_replay"}, generation : 0..MaxPrompts,
          source : Prompt, at : Nat]
Work == [prompt : Prompt, number : 0..MaxSends, generation : 0..None, advice : BOOLEAN]

VARIABLES
  events,        \* ContinuationSuggested events of the session
  due,           \* the session reached a threshold, or is old and its code changed
  hook,          \* state of the hook of each prompt
  sends,
  mail,          \* connections the daemon has not served
  queue,         \* events.jsonl
  file,          \* events.replay.jsonl
  todo,          \* records of it that the running replay has not ingested
  pc,            \* "daemon" and "replay" may ingest at the same time
  work,          \* what each of them is ingesting
  replayed,      \* history: prompts the replay has ingested, and ...
  again,         \* ... history: one of them was ingested once more
  faults

Runner == {"daemon", "replay"}
hookVars == <<hook, sends, mail>>
files == <<queue, file, todo>>
history == <<replayed, again>>
vars == <<events, due, hookVars, files, pc, work, history, faults>>
-------------------------------------------------------------------------------
(* The policy.                                                             *)

Claims == {e \in events : e.state = "claimed"}
Rearms == {e \in events : e.state = "pending_replay"}
IsClaimed(g) == \E c \in Claims : c.generation = g

LatestGeneration == IF Rearms = {} THEN Initial ELSE Max({e.generation : e \in Rearms})

(* continuation_advice_for_source: the claim this prompt already has.      *)
OwnClaim(p) == {c \in Claims : c.source = p /\ c.generation = LatestGeneration}

(* pending_continuation_advice *)
Open == {e.generation : e \in {d \in Rearms : ~IsClaimed(d.generation)}}

(* The session takes its state from the latest event.                      *)
Suggested == \E c \in Claims : \A e \in events : e.at <= c.at

(* rollover_advice: the generation under which a prompt is advised.        *)
Proposal(p) ==
  CASE OwnClaim(p) # {} -> LatestGeneration
    [] OwnClaim(p) = {} /\ Open # {} -> Max(Open)
    [] OwnClaim(p) = {} /\ Open = {} /\ ~Suggested /\ due -> Initial
    [] OTHER -> None

(* A rearmed generation is a microsecond later than its prompt, the claim  *)
(* of it another one.                                                      *)
ClaimOf(p, g) == [state |-> "claimed", generation |-> g, source |-> p,
                  at |-> IF g = Initial THEN 3 * p ELSE 3 * g + 2]
RearmOf(p) == [state |-> "pending_replay", generation |-> p, source |-> p, at |-> 3 * p + 1]
-------------------------------------------------------------------------------
Idle == [prompt |-> 1, number |-> 0, generation |-> None, advice |-> FALSE]

Goto(r, l) == pc' = [pc EXCEPT ![r] = l]
GotoHook(p, l) == hook' = [hook EXCEPT ![p] = l]
Fault == faults < MaxFaults /\ faults' = faults + 1

Init ==
  /\ events = {} /\ due = FALSE
  /\ hook = [p \in Prompt |-> "idle"] /\ sends = [p \in Prompt |-> 0]
  /\ mail = {} /\ queue = {} /\ file = {} /\ todo = {}
  /\ pc = [r \in Runner |-> "idle"] /\ work = [r \in Runner |-> Idle]
  /\ replayed = {} /\ again = FALSE /\ faults = 0

(* A compaction or a usage report reaches the threshold.                   *)
BecomeDue ==
  /\ ~due /\ due' = TRUE
  /\ UNCHANGED <<events, hookVars, files, pc, work, history, faults>>
-------------------------------------------------------------------------------
(* The hook of a prompt.  A prompt follows the answer to the one before.   *)

Send(p) ==
  /\ hook[p] \in {"idle", "retry"} /\ sends[p] < MaxSends
  /\ \A q \in Prompt : q < p => hook[q] \in {"shown", "plain", "queued"}
  /\ sends' = [sends EXCEPT ![p] = @ + 1]
  /\ mail' = mail \union {[prompt |-> p, number |-> sends[p] + 1]}
  /\ GotoHook(p, "sent")
  /\ UNCHANGED <<events, due, files, pc, work, history, faults>>

(* No answer in time, or no daemon.  The daemon still finds the envelope.  *)
GiveUp(p) ==
  /\ hook[p] = "sent"
  /\ GotoHook(p, IF sends[p] < MaxSends THEN "retry" ELSE "fallback")
  /\ UNCHANGED <<events, due, sends, mail, files, pc, work, history, faults>>

AppendFallback(p) ==
  /\ hook[p] \in {"retry", "fallback"}
  /\ queue' = queue \union {p}
  /\ GotoHook(p, "queued")
  /\ UNCHANGED <<events, due, sends, mail, file, todo, pc, work, history, faults>>
-------------------------------------------------------------------------------
(* Ingestion.  The prompt itself is stored between the two steps, which    *)
(* changes nothing for the suggestion.                                     *)

Resolve(r, p, n) ==
  /\ work' = [work EXCEPT ![r] = [prompt |-> p, number |-> n,
                                  generation |-> Proposal(p), advice |-> FALSE]]
  /\ again' = (again \/ p \in replayed)
  /\ replayed' = replayed \union (IF r = "replay" THEN {p} ELSE {})
  /\ Goto(r, "claim")

(* Faulty: the id of a claim also names its prompt. *)
ClaimPerPrompt(r) ==
  LET w == work[r] IN
  /\ events' = IF w.generation # None
               THEN events \union {ClaimOf(w.prompt, w.generation)} ELSE events
  /\ work' = [work EXCEPT ![r].advice = w.generation # None]

(* Faulty: whoever proposes it, has it. *)
ClaimAnyway(r) ==
  LET w == work[r] IN
  /\ events' = IF w.generation # None /\ ~IsClaimed(w.generation)
               THEN events \union {ClaimOf(w.prompt, w.generation)} ELSE events
  /\ work' = [work EXCEPT ![r].advice = w.generation # None]

(* claim_continuation_suggestion: the claim of a generation has one id.    *)
Claim(r) ==
  LET w == work[r]
      first == w.generation # None /\ ~IsClaimed(w.generation)
  IN
  /\ events' = IF first THEN events \union {ClaimOf(w.prompt, w.generation)} ELSE events
  /\ work' = [work EXCEPT ![r].advice =
                w.generation # None /\ (first \/ OwnClaim(w.prompt) # {})]

(* Connections are accepted in the order in which they were made.          *)
Ingest(a) ==
  /\ pc["daemon"] = "idle" /\ a \in mail
  /\ \A b \in mail \ {a} : a.prompt < b.prompt \/ (a.prompt = b.prompt /\ a.number < b.number)
  /\ mail' = mail \ {a}
  /\ Resolve("daemon", a.prompt, a.number)
  /\ UNCHANGED <<events, due, hook, sends, files, faults>>

ClaimSuggestion(r) ==
  /\ pc[r] = "claim"
  /\ Claim(r)
  /\ Goto(r, "answer")
  /\ UNCHANGED <<due, hookVars, files, history, faults>>

(* The answer reaches the hook if it still waits; otherwise the daemon     *)
(* ends with the error, and the connections it has not served close.       *)
Acknowledge(h) ==
  /\ pc["daemon"] = "answer" /\ work["daemon"].prompt = h
  /\ \/ /\ hook[h] = "sent" /\ work["daemon"].number = sends[h]
        /\ GotoHook(h, IF work["daemon"].advice THEN "shown" ELSE "plain")
        /\ UNCHANGED mail
     \/ /\ hook[h] # "sent" \/ work["daemon"].number # sends[h]
        /\ mail' = {}
        /\ UNCHANGED hook
  /\ Goto("daemon", "idle")
  /\ UNCHANGED <<events, due, sends, files, work, history, faults>>
-------------------------------------------------------------------------------
(* The replay of the queue.                                                *)

(* A file left by an earlier run is read first, the queue is renamed next. *)
StartReplay ==
  /\ pc["replay"] = "idle"
  /\ file # {} \/ queue # {}
  /\ IF file # {} THEN UNCHANGED <<queue, file>> ELSE file' = queue /\ queue' = {}
  /\ todo' = file'
  /\ Goto("replay", "read")
  /\ UNCHANGED <<events, due, hookVars, work, history, faults>>

(* The records are in the order of their prompts. *)
IngestRecord(p) ==
  /\ pc["replay"] = "read" /\ todo # {} /\ p = Min(todo)
  /\ todo' = todo \ {p}
  /\ Resolve("replay", p, 0)
  /\ UNCHANGED <<events, due, hookVars, queue, file, faults>>

(* Faulty: nobody is told, and nothing is kept. *)
RearmNothing(p) == UNCHANGED events

(* rearm_continuation_after_discarded_ack: one event per prompt.           *)
Rearm(p) == events' = events \union {RearmOf(p)}

DiscardAnswer ==
  /\ pc["replay"] = "answer"
  /\ IF work["replay"].advice THEN Rearm(work["replay"].prompt) ELSE UNCHANGED events
  /\ Goto("replay", "read")
  /\ UNCHANGED <<due, hookVars, files, work, history, faults>>

RemoveFile ==
  /\ pc["replay"] = "read" /\ todo = {}
  /\ file' = {}
  /\ Goto("replay", "idle")
  /\ UNCHANGED <<events, due, hookVars, queue, todo, work, history, faults>>
-------------------------------------------------------------------------------
(* A step fails, or the process is killed.                                 *)

Fail(r) ==
  /\ pc[r] # "idle" /\ Fault
  /\ Goto(r, "idle")
  /\ mail' = IF r = "daemon" THEN {} ELSE mail
  /\ todo' = IF r = "replay" THEN {} ELSE todo
  /\ UNCHANGED <<events, due, hook, sends, queue, file, work, history>>

Next ==
  \/ BecomeDue
  \/ \E p \in Prompt : Send(p) \/ GiveUp(p) \/ AppendFallback(p)
  \/ \E a \in mail : Ingest(a)
  \/ \E r \in Runner : ClaimSuggestion(r) \/ Fail(r)
  \/ \E p \in Prompt : Acknowledge(p) \/ IngestRecord(p)
  \/ StartReplay \/ DiscardAnswer \/ RemoveFile

Spec == Init /\ [][Next]_vars
-------------------------------------------------------------------------------
(* Properties.                                                             *)

(* Every variable stays in its range; a generation is claimed at most once *)
(* and was opened before it was claimed. *)
TypeOK ==
  /\ events \subseteq Event
  /\ \A c, d \in Claims : c.generation = d.generation => c = d
  /\ \A c \in Claims : c.generation # Initial => RearmOf(c.generation) \in events
  /\ due \in BOOLEAN
  /\ hook \in [Prompt -> {"idle", "sent", "retry", "fallback", "shown", "plain", "queued"}]
  /\ sends \in [Prompt -> 0..MaxSends]
  /\ mail \subseteq [prompt : Prompt, number : 1..MaxSends]
  /\ queue \subseteq Prompt /\ file \subseteq Prompt /\ todo \subseteq file
  /\ pc \in [Runner -> {"idle", "claim", "read", "answer"}]
  /\ work \in [Runner -> Work]
  /\ faults \in Nat

Shown == {p \in Prompt : hook[p] = "shown"}
Quiet == /\ mail = {} /\ queue = {} /\ file = {}
         /\ \A r \in Runner : pc[r] = "idle"
         /\ \A p \in Prompt : hook[p] \in {"idle", "shown", "plain", "queued"}

(* However often prompts are sent again and replayed, one of them shows    *)
(* the suggestion (continuation_policy.rs:93). *)
ShownOnce == \A p, q \in Shown : p = q

(* hook.rs:866 "persist a new pending generation so the next live prompt   *)
(* can receive it instead of silently consuming it here": a suggestion     *)
(* that was claimed is shown, or open once everything is ingested. *)
SuggestionIsNotLost == Quiet /\ Claims # {} => Shown # {} \/ Open # {}

(* It holds as long as no prompt is ingested again after its replay. *)
NotLostIngestedOnce == ~again => SuggestionIsNotLost
===============================================================================
