------------------------------- MODULE Readiness -------------------------------
(***************************************************************************)
(* Whether the work is ready (src/src/hook/contract_policy.rs): the tests  *)
(* that the Regression Contracts require, what is known of them for the    *)
(* content of the files concerned, and the Stop hook that blocks once.     *)
(*                                                                         *)
(* One task in one checkout.  Its contracts are one document, valid or     *)
(* not; the content of the files they select is one value, and its         *)
(* fingerprint is that value.  A test command runs while somebody else may *)
(* edit; its hook records the content it finds when the command is over.   *)
(* Hooks follow each other; an envelope whose answer is lost is sent again *)
(* or waits in the queue (Delivery.tla), and is ingested as often.         *)
(***************************************************************************)
EXTENDS Naturals, FiniteSets

CONSTANTS
  Test,          \* required tests
  Content,       \* what the selected files may contain
  Clean,         \* their committed content: no contract is relevant
  Unknown,       \* no snapshot, no fingerprint
  MaxHooks,      \* bound on tool and stop hooks
  MaxRepeats,    \* bound on the times an envelope is ingested again, taken together
  MaxEdits       \* bound on edits of files and contracts

ASSUME CleanAssumption == Clean \in Content /\ Unknown \notin Content
ASSUME BoundsAssumption == {MaxHooks, MaxRepeats, MaxEdits} \subseteq Nat
ASSUME ContentAssumption == Content \intersect {"none", "invalid"} = {}

Hook == 1..MaxHooks              \* numbered in the order of their time
Nobody == [t \in Test |-> "missing"]
None == "none"

VARIABLES
  content,       \* of the selected files, in the working tree
  touched,       \* the task has changed them
  valid,         \* the contract documents can be read
  hook,          \* what each hook does
  envelope,      \* what it has captured
  sends,         \* number of times it was ingested
  evaluations,   \* contract_evaluations
  work,          \* what "daemon" and "replay" are ingesting
  continued,     \* Codex goes on because the last stop was blocked
  passed,        \* history: <<test, content>> of test runs that passed, ...
  disturbed,     \* ... history: a run passed during which the files were edited
  blocks,        \* history: <<hook, content>> of stops that were told to go on
  forgotten,     \* history: a block lost its row to another evaluation of the stop
  edits,
  repeats

Runner == {"daemon", "replay"}
world == <<content, touched, valid>>
hooks == <<hook, envelope, sends, continued>>
history == <<passed, disturbed, blocks, forgotten>>
bounds == <<edits, repeats>>
vars == <<world, hooks, evaluations, work, history, bounds>>

Fingerprint == Content \union {None, "invalid"}
State == {"missing", "passed", "failed", "stale"}
Evaluation ==
  [source : Hook, tie : 0..1 + MaxRepeats, fingerprint : Fingerprint, tests : [Test -> State],
   relevant : BOOLEAN, ready : BOOLEAN, issued : BOOLEAN]
-------------------------------------------------------------------------------
(* The policy.                                                             *)

(* list_contract_evaluations: the latest source first.                     *)
Newer(e, d) == e.source > d.source \/ (e.source = d.source /\ e.tie > d.tie)

Known(prior, t) ==
  {e \in prior : e.relevant /\ e.tests[t] \in {"passed", "failed"}}

(* What the newest evaluation with this fingerprint knows of it.           *)
Carried(f, t) ==
  LET same == Known({e \in evaluations : e.fingerprint = f}, t)
      newest == {e \in same : \A d \in same \ {e} : Newer(e, d)}
  IN CASE newest # {} -> IF \E e \in newest : e.tests[t] = "passed" THEN "passed" ELSE "failed"
       [] newest = {} -> IF \E e \in evaluations : e.relevant /\ e.tests[t] = "passed"
                         THEN "stale" ELSE "missing"

(* Faulty: a passing command passes for what is there now. *)
ObservedNow(m, f) == IF m.status = "failed" THEN "failed" ELSE "passed"

(* The result at hand counts for the content it was observed on.           *)
Observed(m, f) ==
  CASE m.status = "failed" -> "failed"
    [] m.status = "passed" /\ m.content = f -> "passed"
    [] m.status = "passed" /\ m.content = Unknown -> "missing"
    [] OTHER -> "stale"

(* apply_observed_test_freshness *)
Freshness(m, f) ==
  [t \in Test |-> IF m.kind = "test" /\ m.test = t THEN Observed(m, f) ELSE Carried(f, t)]

(* Faulty: every stop that is not ready blocks. *)
NeverIssued(f, relevant) == FALSE

AlreadyIssued(f, relevant) ==
  \E e \in evaluations : e.issued /\ e.fingerprint = f /\ e.relevant = relevant

(* Faulty: a tool hook blocks, too. *)
IssuesForTools(m, f, relevant) ==
  (m.kind = "stop" => ~m.active) /\ ~AlreadyIssued(f, relevant)

Issues(m, f, relevant) ==
  m.kind = "stop" /\ ~m.active /\ ~AlreadyIssued(f, relevant)

(* match_contracts: the task has changed what a contract selects.          *)
Relevant == valid /\ touched

(* Documents that cannot be read have one fingerprint, whatever they say.  *)
FingerprintNow ==
  IF Relevant THEN content ELSE IF valid THEN None ELSE "invalid"

(* Without a relevant contract nothing is required.                        *)
Ready(tests) == valid /\ (Relevant => \A t \in Test : tests[t] = "passed")

(* evaluate_contracts_for_source.  A document that cannot be read blocks a *)
(* stop like a missing test (invalid_contract_evaluation).                 *)
Evaluate(h) ==
  LET m == envelope[h]
      tests == IF Relevant THEN Freshness(m, FingerprintNow) ELSE Nobody
  IN [source |-> h, tie |-> sends[h], fingerprint |-> FingerprintNow, tests |-> tests,
      relevant |-> Relevant, ready |-> Ready(tests),
      issued |-> ~Ready(tests) /\ Issues(m, FingerprintNow, Relevant)]
-------------------------------------------------------------------------------
Idle == [hook |-> 0]

Init ==
  /\ content = Clean /\ touched = FALSE /\ valid = TRUE
  /\ hook = [h \in Hook |-> "idle"] /\ envelope = [h \in Hook |-> Idle]
  /\ sends = [h \in Hook |-> 0] /\ continued = FALSE
  /\ evaluations = {} /\ work = [r \in Runner |-> Idle]
  /\ passed = {} /\ disturbed = FALSE /\ blocks = {} /\ forgotten = FALSE
  /\ edits = 0 /\ repeats = 0
-------------------------------------------------------------------------------
(* The working tree.                                                       *)

Edit(c) ==
  /\ edits < MaxEdits /\ edits' = edits + 1
  /\ c # content
  /\ content' = c /\ touched' = TRUE
  /\ UNCHANGED <<valid, hooks, evaluations, work, history, repeats>>

EditContracts ==
  /\ edits < MaxEdits /\ edits' = edits + 1
  /\ valid' = ~valid
  /\ UNCHANGED <<content, touched, hooks, evaluations, work, history, repeats>>
-------------------------------------------------------------------------------
(* Codex and its hooks.                                                    *)

Settled == {"answered", "queued", "ingested"}
IsNext(h) == hook[h] = "idle" /\ \A g \in Hook : g < h => hook[g] \in Settled

Capture(h, m) ==
  /\ IsNext(h)
  /\ hook' = [hook EXCEPT ![h] = "sent"]
  /\ envelope' = [envelope EXCEPT ![h] = m]
  /\ UNCHANGED <<sends, continued>>

(* capture_event: the snapshot of a test command is taken when it is over, *)
(* whether or not the files were edited while it ran.                      *)
FinishTest(h, t, status, seen, edited) ==
  /\ seen \in IF status = "passed" THEN {content, Unknown} ELSE {Unknown}
  /\ edited => status = "passed" /\ edits > 0
  /\ Capture(h, [kind |-> "test", test |-> t, status |-> status, content |-> seen])
  /\ passed' = IF status = "passed" /\ ~edited THEN passed \union {<<t, content>>} ELSE passed
  /\ disturbed' = (disturbed \/ edited)
  /\ UNCHANGED <<world, evaluations, work, blocks, forgotten, bounds>>

Stop(h) ==
  /\ Capture(h, [kind |-> "stop", active |-> continued])
  /\ UNCHANGED <<world, evaluations, work, history, bounds>>

(* No answer in time: the envelope is queued, and Codex does what it does  *)
(* without an answer.                                                      *)
GiveUp(h) ==
  /\ hook[h] = "sent"
  /\ hook' = [hook EXCEPT ![h] = "queued"]
  /\ continued' = (continued /\ envelope[h].kind = "test")
  /\ UNCHANGED <<world, envelope, sends, evaluations, work, history, bounds>>
-------------------------------------------------------------------------------
(* Ingestion.                                                              *)

(* The daemon serves connections in their order, also those of hooks that  *)
(* gave up; the queue is in the order of the hooks.                        *)
Available(r, h) ==
  IF r = "daemon"
  THEN /\ hook[h] \in {"sent", "queued", "ingested"}
       /\ \A g \in Hook : g > h => hook[g] # "answered"
  ELSE /\ hook[h] = "queued"
       /\ \A g \in Hook : g < h => hook[g] # "queued"

Ingest(r, h) ==
  /\ work[r] = Idle /\ Available(r, h)
  /\ sends[h] > 0 => repeats < MaxRepeats
  /\ envelope[h].kind = "test" => valid
  /\ sends' = [sends EXCEPT ![h] = @ + 1]
  /\ repeats' = IF sends[h] > 0 THEN repeats + 1 ELSE repeats
  /\ work' = [work EXCEPT ![r] = [hook |-> h, evaluation |-> Evaluate(h)]]
  /\ UNCHANGED <<world, hook, envelope, continued, evaluations, history, edits>>

(* A test result cannot be ingested while the contracts are invalid: the   *)
(* hook is told to queue it.                                               *)
IngestFails(h) ==
  /\ work["daemon"] = Idle /\ hook[h] = "sent"
  /\ envelope[h].kind = "test" /\ ~valid
  /\ hook' = [hook EXCEPT ![h] = "queued"]
  /\ UNCHANGED <<world, envelope, sends, continued, evaluations, work, history, bounds>>

(* The id of an evaluation of documents that cannot be read is made of its *)
(* source: there is one row for a stop, however often it is ingested.      *)
SameRow(e) ==
  {d \in evaluations : d.source = e.source /\ d.fingerprint = "invalid" /\ e.fingerprint = "invalid"}

(* Its events have one time, and the order of their keys is any: what was  *)
(* there is overwritten, or it stays (an event that is there already, or a *)
(* rebuild in the order of the keys).                                      *)
Store(e) ==
  \E d \in SameRow(e) \union {e} :
    /\ evaluations' = (evaluations \ SameRow(e)) \union {d}
    /\ forgotten' = (forgotten \/ (~d.issued /\ \E o \in SameRow(e) \union {e} : o.issued))

(* append_contract_evaluation_event, and the answer if the hook waits.     *)
Append(r) ==
  /\ work[r] # Idle
  /\ LET h == work[r].hook
         e == work[r].evaluation
         told == r = "daemon" /\ hook[h] = "sent"
         stop == envelope[h].kind = "stop"
     IN
     /\ Store(e)
     /\ \/ /\ told
           /\ hook' = [hook EXCEPT ![h] = "answered"]
           /\ blocks' = IF stop /\ e.issued THEN blocks \union {<<h, e.fingerprint>>} ELSE blocks
           /\ continued' = IF stop THEN e.issued ELSE continued
        \/ /\ hook' = IF r = "replay" THEN [hook EXCEPT ![h] = "ingested"] ELSE hook
           /\ UNCHANGED <<blocks, continued>>
  /\ work' = [work EXCEPT ![r] = Idle]
  /\ UNCHANGED <<world, envelope, sends, passed, disturbed, bounds>>

Next ==
  \/ \E c \in Content : Edit(c)
  \/ EditContracts
  \/ \E h \in Hook : Stop(h) \/ GiveUp(h) \/ IngestFails(h)
  \/ \E h \in Hook, t \in Test, s \in {"passed", "failed"}, c \in Content \union {Unknown},
        d \in BOOLEAN : FinishTest(h, t, s, c, d)
  \/ \E r \in Runner, h \in Hook : Ingest(r, h)
  \/ \E r \in Runner : Append(r)

Spec == Init /\ [][Next]_vars
-------------------------------------------------------------------------------
(* Properties.                                                             *)

(* Every variable stays in its range. *)
TypeOK ==
  /\ content \in Content /\ touched \in BOOLEAN /\ valid \in BOOLEAN
  /\ hook \in [Hook -> {"idle", "sent"} \union Settled]
  /\ sends \in [Hook -> 0..1 + MaxRepeats]
  /\ evaluations \subseteq Evaluation
  /\ \A e \in evaluations : e.issued => ~e.ready /\ envelope[e.source].kind = "stop"
  /\ passed \subseteq Test \X Content
  /\ blocks \subseteq Hook \X Fingerprint /\ forgotten \in BOOLEAN
  /\ edits \in 0..MaxEdits

(* architecture.md:75 "Test freshness binds a successful argv execution to *)
(* the content fingerprint of the relevant files at that time": whatever   *)
(* is late, repeated or reverted, work is ready only if every required     *)
(* test passed on the content it is ready for.  It takes that no file was  *)
(* edited while a test ran: the snapshot is of its end. *)
ReadyIsEarned ==
  ~disturbed =>
    \A e \in evaluations : e.ready /\ e.relevant =>
      \A t \in Test : <<t, e.fingerprint>> \in passed

(* architecture.md:83 "prevent an automatic loop": Codex is told to go on  *)
(* at most once for the same content, although hooks are sent again and    *)
(* replayed beside the daemon.  Documents that cannot be read count as one *)
(* content as long as no block has lost its row.                           *)
BlockedOncePerContent ==
  \A b, c \in blocks : b[2] = c[2] /\ ~(b[2] = "invalid" /\ forgotten) => b = c

(* Without that exception: a stop that is sent three times can be told to  *)
(* go on while its row says that it was not, and another stop is, too.     *)
BlockedOnceWhatever ==
  \A b, c \in blocks : b[2] = c[2] => b = c

(* README.md:247 "The Stop hook blocks completion once when a relevant     *)
(* required test is missing or failed": a stop for which a block was       *)
(* recorded is not answered without one. *)
BlockIsTold ==
  \A e \in evaluations :
    e.issued /\ hook[e.source] = "answered" => \E b \in blocks : b[2] = e.fingerprint
===============================================================================
