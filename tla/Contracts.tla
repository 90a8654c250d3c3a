------------------------------- MODULE Contracts -------------------------------
(***************************************************************************)
(* Regression Contracts under review (src/src/server.rs): candidates, kept *)
(* as events, become contract documents of the checkout                    *)
(* (src/src/contracts.rs), and documents are superseded.  Every request    *)
(* reads, checks and writes without a lock, and requests of several        *)
(* windows overlap; a step may fail, or the server be killed.              *)
(***************************************************************************)
EXTENDS Naturals, FiniteSets

CONSTANTS
  Contract,      \* ids; a candidate and its document share one
  NoContract,
  MaxRequests,   \* bound on requests
  MaxFaults      \* bound on failures and kills

ASSUME NoContractAssumption == NoContract \notin Contract
ASSUME RequestsAssumption == {MaxRequests, MaxFaults} \subseteq Nat

VARIABLES
  document,      \* .previously-on/contracts: the contract that supersedes it, or itself
                 \* if it is active, or NoContract if there is no file
  candidate,     \* regression_candidates: "absent", "pending" or "approved"
  requests,      \* requests the server is working on
  count,         \* number of requests so far
  overlapped,    \* history: two requests were under way at the same time
  faults

contractsVars == <<document, candidate, requests, count, overlapped, faults>>

Step == {"approve", "write document", "persist approval", "roll back", "edit", "supersede"}
Request == [pc : Step, id : Contract, by : Contract, number : 1..MaxRequests]

IsActive(c) == document[c] = c
IsSuperseded(c) == document[c] \notin {NoContract, c}
-------------------------------------------------------------------------------
ContractsInit ==
  /\ document = [c \in Contract |-> NoContract]
  /\ candidate = [c \in Contract |-> "absent"]
  /\ requests = {} /\ count = 0 /\ overlapped = FALSE /\ faults = 0

(* create_contract_candidate *)
CreateCandidate(c) ==
  /\ candidate[c] = "absent"
  /\ candidate' = [candidate EXCEPT ![c] = "pending"]
  /\ UNCHANGED <<document, requests, count, overlapped, faults>>

(* A hook derives one from a passing test that failed before the source was *)
(* edited.  Its id, and the id of its event, are those of this evidence and *)
(* of HEAD: an envelope that is ingested again derives nothing new, as long *)
(* as HEAD has not moved.                                                   *)
DeriveCandidate(c) ==
  /\ candidate' = [candidate EXCEPT ![c] = IF @ = "absent" THEN "pending" ELSE @]
  /\ UNCHANGED <<document, requests, count, overlapped, faults>>

Begin(step, c, b) ==
  /\ count < MaxRequests
  /\ count' = count + 1
  /\ requests' = requests \union {[pc |-> step, id |-> c, by |-> b, number |-> count + 1]}
  /\ overlapped' = (overlapped \/ requests # {})

Becomes(r, step) == requests' = (requests \ {r}) \union {[r EXCEPT !.pc = step]}
Ends(r) == requests' = requests \ {r}
Fault == faults < MaxFaults /\ faults' = faults + 1
-------------------------------------------------------------------------------
(* update_contract_candidate: only a pending candidate, as it was read.    *)
EditCandidate(c) ==
  /\ candidate[c] = "pending"
  /\ Begin("edit", c, c)
  /\ UNCHANGED <<document, candidate, faults>>

PersistEdit(r) ==
  /\ r.pc = "edit"
  /\ candidate' = [candidate EXCEPT ![r.id] = "pending"]
  /\ Ends(r)
  /\ UNCHANGED <<document, count, overlapped, faults>>
-------------------------------------------------------------------------------
(* approve_contract_candidate                                              *)

Approve(c) ==
  /\ candidate[c] = "pending"
  /\ Begin("approve", c, c)
  /\ UNCHANGED <<document, candidate, faults>>

(* No document may have this id.                                           *)
CheckDocuments(r) ==
  /\ r.pc = "approve"
  /\ IF document[r.id] = NoContract THEN Becomes(r, "write document") ELSE Ends(r)
  /\ UNCHANGED <<document, candidate, count, overlapped, faults>>

(* Faulty: the approval is recorded first. *)
WriteAfterApproval(r) ==
  /\ r.pc = "write document"
  /\ candidate' = [candidate EXCEPT ![r.id] = "approved"]
  /\ Becomes(r, "persist approval")
  /\ UNCHANGED <<document, count, overlapped, faults>>

(* write_contract replaces the file, whatever is there by now, or fails and *)
(* leaves it.                                                              *)
WriteDocument(r) ==
  /\ r.pc = "write document"
  /\ \/ /\ document' = [document EXCEPT ![r.id] = r.id]
        /\ Becomes(r, "persist approval")
        /\ UNCHANGED faults
     \/ /\ Fault
        /\ Ends(r)
        /\ UNCHANGED document
  /\ UNCHANGED <<candidate, count, overlapped>>

PersistApproval(r) ==
  /\ r.pc = "persist approval"
  /\ \/ /\ candidate' = [candidate EXCEPT ![r.id] = "approved"]
        /\ Ends(r)
        /\ UNCHANGED faults
     \/ /\ Fault
        /\ Becomes(r, "roll back")
        /\ UNCHANGED candidate
  /\ UNCHANGED <<document, count, overlapped>>

(* The file is removed by its name.                                        *)
RollBack(r) ==
  /\ r.pc = "roll back"
  /\ document' = [document EXCEPT ![r.id] = NoContract]
  /\ Ends(r)
  /\ UNCHANGED <<candidate, count, overlapped, faults>>
-------------------------------------------------------------------------------
(* supersede_contract                                                      *)

(* Faulty: it may replace itself. *)
MayReplaceItself(c, b) == IsActive(b) /\ IsActive(c)

MaySupersede(c, b) == c # b /\ IsActive(b) /\ IsActive(c)

Supersede(c, b) ==
  /\ MaySupersede(c, b)
  /\ Begin("supersede", c, b)
  /\ UNCHANGED <<document, candidate, faults>>

(* update_contract: the file must be there; the replacement is not looked  *)
(* at again.                                                               *)
WriteSuperseded(r) ==
  /\ r.pc = "supersede"
  /\ document' = IF document[r.id] = NoContract THEN document ELSE [document EXCEPT ![r.id] = r.by]
  /\ Ends(r)
  /\ UNCHANGED <<candidate, count, overlapped, faults>>

(* The server is killed.                                                   *)
Die ==
  /\ requests # {} /\ Fault
  /\ requests' = {}
  /\ UNCHANGED <<document, candidate, count, overlapped>>

ContractsNext ==
  \/ \E c \in Contract : CreateCandidate(c) \/ DeriveCandidate(c) \/ EditCandidate(c) \/ Approve(c)
  \/ \E c, b \in Contract : Supersede(c, b)
  \/ \E r \in requests :
       \/ PersistEdit(r) \/ CheckDocuments(r) \/ WriteDocument(r)
       \/ PersistApproval(r) \/ RollBack(r) \/ WriteSuperseded(r)
  \/ Die

ContractsSpec == ContractsInit /\ [][ContractsNext]_contractsVars
-------------------------------------------------------------------------------
(* Properties.                                                             *)

(* Every variable stays in its range, a document belongs to a candidate,   *)
(* and no contract is about to supersede itself. *)
ContractsTypeOK ==
  /\ document \in [Contract -> Contract \union {NoContract}]
  /\ candidate \in [Contract -> {"absent", "pending", "approved"}]
  /\ \A c \in Contract : document[c] # NoContract => candidate[c] # "absent"
  /\ requests \subseteq Request
  /\ \A r \in requests : r.pc = "supersede" => r.by # r.id
  /\ count \in 0..MaxRequests
  /\ overlapped \in BOOLEAN
  /\ faults \in 0..MaxFaults

(* server.rs:823 "replacement Contract must be active": what a superseded  *)
(* contract protected is protected by an active one, directly or through   *)
(* contracts that were superseded later, so no set of superseded contracts *)
(* replaces itself. *)
SupersededIsReplaced ==
  /\ \A c \in Contract : IsSuperseded(c) => document[document[c]] # NoContract
  /\ \A S \in SUBSET {c \in Contract : IsSuperseded(c)} :
       S # {} => \E c \in S : document[c] \notin S

(* A candidate is approved only once its document is in the checkout.      *)
ApprovedIsInForce ==
  \A c \in Contract : candidate[c] = "approved" => document[c] # NoContract

(* Both hold, through failures and kills, as long as requests do not       *)
(* overlap. *)
ContractsAreSound == ~overlapped => SupersededIsReplaced /\ ApprovedIsInForce
===============================================================================
