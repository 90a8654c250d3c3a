----------------------- MODULE RegressionContractProofs -----------------------
(***************************************************************************)
(* Proofs about Regression Contracts: about Contracts, for any set of      *)
(* contracts and any number of requests, failures and kills, and about     *)
(* Readiness, for any set of tests, any contents of the files and any      *)
(* number of hooks, repetitions and edits.  The two share no variable: the *)
(* documents that are reviewed in one are one document in the other.       *)
(***************************************************************************)
EXTENDS Contracts, Readiness, TLAPS

-------------------------------------------------------------------------------
(* Contracts under review.                                                 *)

Approving == {"approve", "write document", "persist approval", "roll back"}

ContractsTypes ==
  /\ document \in [Contract -> Contract \union {NoContract}]
  /\ candidate \in [Contract -> {"absent", "pending", "approved"}]
  /\ requests \subseteq Request
  /\ count \in 0..MaxRequests
  /\ overlapped \in BOOLEAN
  /\ faults \in 0..MaxFaults

(* A document comes from a candidate, and so does a request to approve it. *)
Documented ==
  /\ \A c \in Contract : document[c] # NoContract => candidate[c] # "absent"
  /\ \A r \in requests : r.pc \in Approving => candidate[r.id] # "absent"

NotByItself == \A r \in requests : r.pc = "supersede" => r.by # r.id

(* What a request that runs alone has checked is still so.                 *)
Alone == \A r, q \in requests : r = q

Checked(r) ==
  /\ r.pc \in Approving => candidate[r.id] = "pending"
  /\ r.pc = "write document" => document[r.id] = NoContract
  /\ r.pc \in {"persist approval", "roll back"} =>
       IsActive(r.id) /\ \A c \in Contract : document[c] = r.id => c = r.id
  /\ r.pc = "supersede" => IsActive(r.id) /\ IsActive(r.by)

Consistent ==
  /\ Alone
  /\ \A r \in requests : Checked(r)
  /\ SupersededIsReplaced
  /\ ApprovedIsInForce

ContractsInv == ContractsTypes /\ Documented /\ NotByItself /\ (~overlapped => Consistent)
-------------------------------------------------------------------------------
LEMMA Bounds == MaxRequests \in Nat /\ MaxFaults \in Nat
  BY RequestsAssumption

LEMMA ContractsInitially == ContractsInit => ContractsInv
<1> SUFFICES ASSUME ContractsInit PROVE ContractsInv
  OBVIOUS
<1>1. ContractsTypes
  <2>1. overlapped \in BOOLEAN
    BY DEF ContractsInit
  <2>2. count \in 0..MaxRequests /\ faults \in 0..MaxFaults
    BY Bounds DEF ContractsInit
  <2>3. requests \subseteq Request
    BY DEF ContractsInit
  <2>4. document \in [Contract -> Contract \union {NoContract}]
    BY DEF ContractsInit
  <2>5. candidate \in [Contract -> {"absent", "pending", "approved"}]
    BY DEF ContractsInit
  <2> QED BY <2>1, <2>2, <2>3, <2>4, <2>5 DEF ContractsTypes
<1>2. Documented /\ NotByItself
  BY DEF ContractsInit, Documented, NotByItself
<1>3. Consistent
  BY DEF ContractsInit, Consistent, Alone, SupersededIsReplaced, ApprovedIsInForce, IsSuperseded
<1> QED BY <1>1, <1>2, <1>3 DEF ContractsInv

(* A request for which nothing has been checked but what Begin was given.  *)
LEMMA Begins ==
  ASSUME ContractsInv, NEW c \in Contract, NEW b \in Contract,
         NEW step \in {"approve", "edit", "supersede"},
         step # "supersede" => candidate[c] = "pending",
         step = "supersede" => MaySupersede(c, b),
         Begin(step, c, b), UNCHANGED <<document, candidate, faults>>
  PROVE ContractsInv'
<1> DEFINE new == [pc |-> step, id |-> c, by |-> b, number |-> count + 1]
<1>0. count \in Nat /\ count < MaxRequests /\ count' = count + 1
  BY Bounds DEF Begin, ContractsInv, ContractsTypes
<1>1. requests' = requests \union {new} /\ new \in Request /\ count' \in 0..MaxRequests
  <2>1. count + 1 \in 1..MaxRequests
    BY <1>0, Bounds
  <2>2. requests' = requests \union {new}
    BY DEF Begin
  <2>3. new \in Request
    BY <2>1 DEF Request, Step
  <2> QED BY <1>0, <2>1, <2>2, <2>3, Bounds
<1>2. ContractsTypes'
  <2>1. overlapped' \in BOOLEAN
    BY DEF Begin
  <2>2. requests' \subseteq Request
    BY <1>1 DEF ContractsInv, ContractsTypes
  <2> QED BY <1>1, <2>1, <2>2 DEF ContractsInv, ContractsTypes
<1>3. /\ new.pc = step /\ new.id = c /\ new.by = b
      /\ document' = document /\ candidate' = candidate /\ faults' = faults
  OBVIOUS
<1>a. Documented'
  BY <1>1, <1>3 DEF ContractsInv, Documented, Approving
<1>b. NotByItself'
  BY <1>1, <1>3 DEF ContractsInv, NotByItself, MaySupersede
<1>4. ASSUME ~overlapped' PROVE Consistent'
  <2>1. ~overlapped /\ requests' = {new}
    <3>1. ~overlapped /\ requests = {}
      BY <1>4 DEF Begin
    <3> QED BY <1>1, <3>1
  <2>2. \A r \in requests' : Checked(r)'
    BY <1>3, <2>1 DEF Checked, Approving, MaySupersede, IsActive
  <2> QED
    BY <2>1, <2>2 DEF ContractsInv, Consistent, Alone, SupersededIsReplaced, ApprovedIsInForce, IsSuperseded
<1> QED BY <1>2, <1>a, <1>b, <1>4 DEF ContractsInv

(* Without a document nothing is superseded by it. *)
LEMMA Unreferenced ==
  ASSUME ContractsTypes, SupersededIsReplaced, NEW d \in Contract, document[d] = NoContract,
         NEW c \in Contract
  PROVE document[c] # d
  BY NoContractAssumption DEF ContractsTypes, SupersededIsReplaced, IsSuperseded

LEMMA Candidates ==
  ASSUME ContractsInv, NEW c \in Contract, CreateCandidate(c) \/ DeriveCandidate(c)
  PROVE ContractsInv'
<1>1. /\ candidate' \in [Contract -> {"absent", "pending", "approved"}]
      /\ \A d \in Contract : candidate[d] # "absent" => candidate'[d] = candidate[d]
      /\ \A d \in Contract : candidate'[d] = "approved" => candidate[d] = "approved"
      /\ UNCHANGED <<document, requests, count, overlapped, faults>>
  BY DEF CreateCandidate, DeriveCandidate, ContractsInv, ContractsTypes
<1>2. ContractsTypes' /\ Documented' /\ NotByItself'
  BY <1>1 DEF ContractsInv, ContractsTypes, Documented, NotByItself, Request
<1>3. ASSUME ~overlapped PROVE Consistent'
  <2>1. \A r \in requests : Checked(r)'
    BY <1>1, <1>3 DEF ContractsInv, ContractsTypes, Consistent, Checked, IsActive, Request
  <2> QED
    BY <1>1, <1>3, <2>1 DEF ContractsInv, Consistent, Alone, SupersededIsReplaced, ApprovedIsInForce, IsSuperseded
<1> QED BY <1>1, <1>2, <1>3 DEF ContractsInv

(* A request that goes on to another step of an approval, or ends.         *)
LEMMA GoesOn ==
  ASSUME ContractsInv, NEW r \in requests, r.pc \in Approving, NEW step \in Approving, Becomes(r, step)
  PROVE /\ r \in Request /\ requests' \subseteq Request
        /\ \A q \in requests' : q \in requests \/ (q.pc = step /\ q.id = r.id)
        /\ ~overlapped => Alone' /\ \A q \in requests' : q.pc = step /\ q.id = r.id
<1>1. r \in Request
  BY DEF ContractsInv, ContractsTypes
<1>2. ASSUME NEW q \in requests', q \notin requests
      PROVE q \in Request /\ q.pc = step /\ q.id = r.id
  BY <1>1, <1>2 DEF Becomes, Request, Approving, Step
<1>3. ~overlapped => Alone' /\ \A q \in requests' : q.pc = step /\ q.id = r.id
  BY <1>1 DEF Becomes, Request, ContractsInv, Consistent, Alone
<1> QED BY <1>1, <1>2, <1>3 DEF ContractsInv, ContractsTypes

LEMMA FaultsAreCounted ==
  ASSUME ContractsInv, Fault \/ faults' = faults
  PROVE faults' \in 0..MaxFaults
  BY Bounds DEF ContractsInv, ContractsTypes, Fault

LEMMA IsOver ==
  ASSUME ContractsInv, NEW r \in requests, Ends(r)
  PROVE /\ r \in Request /\ requests' \subseteq requests /\ requests' \subseteq Request
        /\ ~overlapped => requests' = {}
  BY DEF Ends, ContractsInv, ContractsTypes, Consistent, Alone

(* A step that changes neither documents nor candidates needs only what is *)
(* checked by it. *)
LEMMA NothingWritten ==
  ASSUME ContractsInv, UNCHANGED <<document, candidate, count, overlapped>>, faults' \in 0..MaxFaults,
         requests' \subseteq Request,
         \A q \in requests' : q \in requests \/ (q.pc \in Approving /\ candidate[q.id] # "absent"),
         ~overlapped => Alone' /\ \A q \in requests' : Checked(q)'
  PROVE ContractsInv'
<1>1. ContractsTypes'
  BY DEF ContractsInv, ContractsTypes
<1>a. Documented'
  BY DEF ContractsInv, Documented, Approving
<1>b. NotByItself'
  BY DEF ContractsInv, NotByItself, Approving
<1>2. ~overlapped => Consistent'
  BY DEF ContractsInv, Consistent, SupersededIsReplaced, ApprovedIsInForce, IsSuperseded
<1> QED BY <1>1, <1>a, <1>b, <1>2 DEF ContractsInv

LEMMA CheckingDocuments ==
  ASSUME ContractsInv, NEW r \in requests, CheckDocuments(r)
  PROVE ContractsInv'
<1>1. CASE Ends(r)
  <2>1. UNCHANGED <<document, candidate, count, overlapped>> /\ faults' \in 0..MaxFaults
    BY FaultsAreCounted DEF CheckDocuments
  <2> QED BY <1>1, <2>1, IsOver, NothingWritten DEF Alone
<1>2. CASE Becomes(r, "write document") /\ document[r.id] = NoContract
  <2>1. /\ r \in Request /\ requests' \subseteq Request
        /\ \A q \in requests' : q \in requests \/ (q.pc = "write document" /\ q.id = r.id)
        /\ ~overlapped => Alone' /\ \A q \in requests' : q.pc = "write document" /\ q.id = r.id
    BY <1>2, GoesOn DEF CheckDocuments, Approving
  <2>2. candidate[r.id] # "absent" /\ (~overlapped => candidate[r.id] = "pending")
    BY DEF CheckDocuments, ContractsInv, Documented, Consistent, Checked, Approving
  <2>3. ~overlapped => \A q \in requests' : Checked(q)'
    BY <1>2, <2>1, <2>2 DEF CheckDocuments, Checked
  <2> QED BY <2>1, <2>2, <2>3, NothingWritten DEF CheckDocuments, ContractsInv, ContractsTypes, Approving
<1> QED BY <1>1, <1>2 DEF CheckDocuments

LEMMA Writing ==
  ASSUME ContractsInv, NEW r \in requests, WriteDocument(r)
  PROVE ContractsInv'
<1>1. r \in Request /\ r.id \in Contract /\ candidate[r.id] # "absent"
  BY DEF ContractsInv, ContractsTypes, Request, WriteDocument, Documented, Approving
<1>2. CASE Ends(r) /\ Fault /\ document' = document
  <2>1. UNCHANGED <<document, candidate, count, overlapped>> /\ faults' \in 0..MaxFaults
    BY <1>2, FaultsAreCounted DEF WriteDocument
  <2> QED BY <1>2, <2>1, IsOver, NothingWritten DEF Alone
<1>3. CASE document' = [document EXCEPT ![r.id] = r.id] /\ Becomes(r, "persist approval")
           /\ faults' = faults
  <2>1. /\ requests' \subseteq Request
        /\ \A q \in requests' : q \in requests \/ (q.pc = "persist approval" /\ q.id = r.id)
        /\ ~overlapped => Alone' /\ \A q \in requests' : q.pc = "persist approval" /\ q.id = r.id
    BY <1>3, GoesOn DEF WriteDocument, Approving
  <2>2. ContractsTypes'
    BY <1>1, <1>3, <2>1 DEF WriteDocument, ContractsInv, ContractsTypes
  <2>3. Documented' /\ NotByItself'
    BY <1>1, <1>3, <2>1 DEF WriteDocument, ContractsInv, ContractsTypes, Documented, NotByItself, Approving
  <2>4. ASSUME ~overlapped PROVE Consistent'
    <3>1. document[r.id] = NoContract /\ candidate[r.id] = "pending" /\ r.id # NoContract
      BY <1>1, <2>4, NoContractAssumption DEF WriteDocument, ContractsInv, Consistent, Checked, Approving
    <3>2. \A c \in Contract : document[c] # r.id
      BY <1>1, <2>4, <3>1, Unreferenced DEF ContractsInv, Consistent
    <3>3. \A c \in Contract : c # r.id => document'[c] = document[c]
      BY <1>1, <1>3 DEF ContractsInv, ContractsTypes
    <3>4. document'[r.id] = r.id
      BY <1>1, <1>3 DEF ContractsInv, ContractsTypes
    <3>5. \A q \in requests' : Checked(q)'
      BY <1>1, <2>1, <2>4, <3>1, <3>2, <3>3, <3>4 DEF WriteDocument, Checked, IsActive
    <3>6. {c \in Contract : IsSuperseded(c)}' = {c \in Contract : IsSuperseded(c)}
      BY <3>1, <3>3, <3>4 DEF IsSuperseded
    <3>7. SupersededIsReplaced'
      <4>1. \A c \in Contract : IsSuperseded(c)' => IsSuperseded(c) /\ document'[c] = document[c]
        BY <3>3, <3>4 DEF IsSuperseded
      <4>2. \A c \in Contract : IsSuperseded(c)' => document'[document'[c]] # NoContract
        BY <1>1, <2>4, <3>1, <3>3, <3>4, <4>1 DEF ContractsInv, Consistent, SupersededIsReplaced, ContractsTypes, IsSuperseded
      <4>3. \A S \in SUBSET {c \in Contract : IsSuperseded(c)}' :
              S # {} => \E c \in S : document'[c] \notin S
        BY <2>4, <3>6, <4>1 DEF ContractsInv, Consistent, SupersededIsReplaced
      <4> QED BY <4>2, <4>3 DEF SupersededIsReplaced
    <3>8. ApprovedIsInForce'
      BY <1>1, <2>4, <3>1, <3>3, <3>4 DEF WriteDocument, ContractsInv, Consistent, ApprovedIsInForce
    <3> QED BY <2>1, <2>4, <3>5, <3>7, <3>8 DEF Consistent
  <2> QED BY <2>2, <2>3, <2>4 DEF WriteDocument, ContractsInv
<1> QED BY <1>2, <1>3 DEF WriteDocument

LEMMA Persisting ==
  ASSUME ContractsInv, NEW r \in requests, PersistApproval(r)
  PROVE ContractsInv'
<1>1. r \in Request /\ r.id \in Contract /\ candidate[r.id] # "absent"
  BY DEF ContractsInv, ContractsTypes, Request, PersistApproval, Documented, Approving
<1>2. CASE candidate' = [candidate EXCEPT ![r.id] = "approved"] /\ Ends(r) /\ faults' = faults
  <2>1. requests' \subseteq requests /\ requests' \subseteq Request /\ (~overlapped => requests' = {})
    BY <1>2, IsOver
  <2>2. ContractsTypes'
    BY <1>1, <1>2, <2>1 DEF PersistApproval, ContractsInv, ContractsTypes
  <2>3. Documented' /\ NotByItself'
    BY <1>1, <1>2, <2>1 DEF PersistApproval, ContractsInv, ContractsTypes, Documented, NotByItself, Request
  <2>4. ASSUME ~overlapped PROVE Consistent'
    <3>1. document[r.id] # NoContract
      BY <1>1, <2>4, NoContractAssumption DEF PersistApproval, ContractsInv, Consistent, Checked, IsActive
    <3>2. ApprovedIsInForce'
      BY <1>1, <1>2, <2>4, <3>1 DEF PersistApproval, ContractsInv, ContractsTypes, Consistent, ApprovedIsInForce
    <3>3. SupersededIsReplaced'
      BY <2>4 DEF PersistApproval, ContractsInv, Consistent, SupersededIsReplaced, IsSuperseded
    <3> QED BY <2>1, <2>4, <3>2, <3>3 DEF Consistent, Alone
  <2> QED BY <2>2, <2>3, <2>4 DEF PersistApproval, ContractsInv
<1>3. CASE Fault /\ Becomes(r, "roll back") /\ candidate' = candidate
  <2>1. UNCHANGED <<document, candidate, count, overlapped>> /\ faults' \in 0..MaxFaults
    BY <1>3, FaultsAreCounted DEF PersistApproval
  <2>2. /\ requests' \subseteq Request
        /\ \A q \in requests' : q \in requests \/ (q.pc = "roll back" /\ q.id = r.id)
        /\ ~overlapped => Alone' /\ \A q \in requests' : q.pc = "roll back" /\ q.id = r.id
    BY <1>3, GoesOn DEF PersistApproval, Approving
  <2>3. ~overlapped => Checked(r)
    BY DEF ContractsInv, Consistent
  <2>4. ~overlapped => \A q \in requests' : Checked(q)'
    BY <2>1, <2>2, <2>3 DEF PersistApproval, Checked, IsActive, Approving
  <2> QED BY <1>1, <2>1, <2>2, <2>4, NothingWritten DEF Approving
<1> QED BY <1>2, <1>3 DEF PersistApproval

LEMMA RollingBack ==
  ASSUME ContractsInv, NEW r \in requests, RollBack(r)
  PROVE ContractsInv'
<1>1. r \in Request /\ r.id \in Contract /\ document' = [document EXCEPT ![r.id] = NoContract]
  BY DEF ContractsInv, ContractsTypes, Request, RollBack
<1>2. requests' \subseteq requests /\ requests' \subseteq Request /\ (~overlapped => requests' = {})
  BY IsOver DEF RollBack
<1>3. ContractsTypes'
  BY <1>1, <1>2 DEF RollBack, ContractsInv, ContractsTypes
<1>4. Documented' /\ NotByItself'
  BY <1>1, <1>2 DEF RollBack, ContractsInv, ContractsTypes, Documented, NotByItself
<1>5. ASSUME ~overlapped PROVE Consistent'
  <2>1. /\ candidate[r.id] = "pending" /\ document[r.id] = r.id
        /\ \A c \in Contract : document[c] = r.id => c = r.id
    BY <1>5 DEF RollBack, ContractsInv, Consistent, Checked, IsActive, Approving
  <2>2. document'[r.id] = NoContract /\ \A c \in Contract : c # r.id => document'[c] = document[c]
    BY <1>1 DEF ContractsInv, ContractsTypes
  <2>3. \A c \in Contract : IsSuperseded(c)' => IsSuperseded(c) /\ c # r.id /\ document'[c] = document[c]
    BY <2>2 DEF IsSuperseded
  <2>4. \A c \in Contract : IsSuperseded(c)' => document'[document'[c]] # NoContract
    BY <1>5, <2>1, <2>2, <2>3 DEF ContractsInv, Consistent, SupersededIsReplaced, ContractsTypes, IsSuperseded
  <2>5. \A S \in SUBSET {c \in Contract : IsSuperseded(c)'} :
          S # {} => \E c \in S : document'[c] \notin S
    BY <1>5, <2>3 DEF ContractsInv, Consistent, SupersededIsReplaced
  <2>6. SupersededIsReplaced'
    BY <2>4, <2>5 DEF SupersededIsReplaced
  <2>7. ApprovedIsInForce'
    BY <1>5, <2>1, <2>2 DEF RollBack, ContractsInv, Consistent, ApprovedIsInForce
  <2> QED BY <1>2, <1>5, <2>6, <2>7 DEF Consistent, Alone
<1> QED BY <1>3, <1>4, <1>5 DEF RollBack, ContractsInv

LEMMA Superseding ==
  ASSUME ContractsInv, NEW r \in requests, WriteSuperseded(r)
  PROVE ContractsInv'
<1>1. r \in Request /\ r.id \in Contract /\ r.by \in Contract /\ r.by # r.id
  BY DEF ContractsInv, ContractsTypes, Request, WriteSuperseded, NotByItself
<1>2. requests' \subseteq requests /\ requests' \subseteq Request /\ (~overlapped => requests' = {})
  BY IsOver DEF WriteSuperseded
<1>3. CASE document[r.id] = NoContract
  <2>1. UNCHANGED <<document, candidate, count, overlapped>> /\ faults' \in 0..MaxFaults
    BY <1>3, FaultsAreCounted DEF WriteSuperseded
  <2> QED BY <1>2, <2>1, NothingWritten DEF Alone
<1>4. CASE document[r.id] # NoContract
  <2>1. document' = [document EXCEPT ![r.id] = r.by]
    BY <1>4 DEF WriteSuperseded
  <2>2. ContractsTypes'
    BY <1>1, <1>2, <2>1 DEF WriteSuperseded, ContractsInv, ContractsTypes
  <2>3. Documented' /\ NotByItself'
    BY <1>1, <1>2, <1>4, <2>1 DEF WriteSuperseded, ContractsInv, ContractsTypes, Documented, NotByItself
  <2>4. ASSUME ~overlapped PROVE Consistent'
    <3>1. document[r.id] = r.id /\ document[r.by] = r.by
      BY <2>4 DEF WriteSuperseded, ContractsInv, Consistent, Checked, IsActive
    <3>2. document'[r.id] = r.by /\ \A c \in Contract : c # r.id => document'[c] = document[c]
      BY <1>1, <2>1 DEF ContractsInv, ContractsTypes
    <3>3. \A c \in Contract : IsSuperseded(c)' => c # r.by /\ (c # r.id => IsSuperseded(c))
      BY <1>1, <3>1, <3>2 DEF IsSuperseded
    <3>4. \A c \in Contract : IsSuperseded(c)' => document'[document'[c]] # NoContract
      BY <1>1, <2>4, <3>1, <3>2, <3>3, NoContractAssumption
      DEF ContractsInv, Consistent, SupersededIsReplaced, ContractsTypes, IsSuperseded
    <3>5. ASSUME NEW S \in SUBSET {c \in Contract : IsSuperseded(c)'}, S # {}
          PROVE \E c \in S : document'[c] \notin S
      <4>1. CASE r.id \in S
        BY <3>2, <3>3, <3>5, <4>1
      <4>2. CASE r.id \notin S
        BY <2>4, <3>2, <3>3, <3>5, <4>2 DEF ContractsInv, Consistent, SupersededIsReplaced
      <4> QED BY <4>1, <4>2
    <3>6. SupersededIsReplaced'
      BY <3>4, <3>5 DEF SupersededIsReplaced
    <3>7. ApprovedIsInForce'
      BY <1>1, <2>4, <3>2, NoContractAssumption DEF WriteSuperseded, ContractsInv, Consistent, ApprovedIsInForce
    <3> QED BY <1>2, <2>4, <3>6, <3>7 DEF Consistent, Alone
  <2> QED BY <2>2, <2>3, <2>4 DEF WriteSuperseded, ContractsInv
<1> QED BY <1>3, <1>4

LEMMA PersistingEdit ==
  ASSUME ContractsInv, NEW r \in requests, PersistEdit(r)
  PROVE ContractsInv'
<1>1. r \in Request /\ r.id \in Contract
  BY DEF ContractsInv, ContractsTypes, Request
<1>2. requests' \subseteq requests /\ requests' \subseteq Request /\ (~overlapped => requests' = {})
  BY IsOver DEF PersistEdit
<1>3. ContractsTypes'
  BY <1>1, <1>2 DEF PersistEdit, ContractsInv, ContractsTypes
<1>4. Documented' /\ NotByItself'
  BY <1>1, <1>2 DEF PersistEdit, ContractsInv, ContractsTypes, Documented, NotByItself, Request
<1>5. ASSUME ~overlapped PROVE Consistent'
  BY <1>1, <1>2, <1>5 DEF PersistEdit, ContractsInv, ContractsTypes, Consistent, Alone, SupersededIsReplaced,
    ApprovedIsInForce, IsSuperseded
<1> QED BY <1>3, <1>4, <1>5 DEF PersistEdit, ContractsInv

LEMMA Dying == ASSUME ContractsInv, Die PROVE ContractsInv'
<1>1. UNCHANGED <<document, candidate, count, overlapped>> /\ requests' = {} /\ faults' \in 0..MaxFaults
  BY FaultsAreCounted DEF Die
<1> QED BY <1>1, NothingWritten DEF Alone
-------------------------------------------------------------------------------
LEMMA Inductive == ContractsInv /\ [ContractsNext]_contractsVars => ContractsInv'
<1> SUFFICES ASSUME ContractsInv, [ContractsNext]_contractsVars PROVE ContractsInv'
  OBVIOUS
<1>1. ASSUME NEW c \in Contract, CreateCandidate(c) \/ DeriveCandidate(c) PROVE ContractsInv'
  BY <1>1, Candidates
<1>2. ASSUME NEW c \in Contract, EditCandidate(c) PROVE ContractsInv'
  BY <1>2, Begins DEF EditCandidate
<1>3. ASSUME NEW c \in Contract, Approve(c) PROVE ContractsInv'
  BY <1>3, Begins DEF Approve
<1>4. ASSUME NEW c \in Contract, NEW b \in Contract, Supersede(c, b) PROVE ContractsInv'
  BY <1>4, Begins DEF Supersede
<1>5. ASSUME NEW r \in requests,
             \/ PersistEdit(r) \/ CheckDocuments(r) \/ WriteDocument(r)
             \/ PersistApproval(r) \/ RollBack(r) \/ WriteSuperseded(r)
      PROVE ContractsInv'
  BY <1>5, PersistingEdit, CheckingDocuments, Writing, Persisting, RollingBack, Superseding
<1>6. CASE Die
  BY <1>6, Dying
<1>7. CASE UNCHANGED contractsVars
  <2>1. UNCHANGED <<document, candidate, count, overlapped>> /\ requests' = requests /\ faults' = faults
    BY <1>7 DEF contractsVars
  <2>2. ~overlapped => Alone' /\ \A q \in requests' : Checked(q)'
    BY <2>1 DEF ContractsInv, Consistent, Alone, Checked, IsActive
  <2> QED BY <2>1, <2>2, NothingWritten, FaultsAreCounted DEF ContractsInv, ContractsTypes
<1> QED BY <1>1, <1>2, <1>3, <1>4, <1>5, <1>6, <1>7 DEF ContractsNext

(* ContractsInv holds in every reachable state. *)
THEOREM ContractsInvariance == ContractsSpec => []ContractsInv
BY ContractsInitially, Inductive, PTL DEF ContractsSpec

(* Type correctness. *)
THEOREM ContractsTypeCorrect == ContractsSpec => []ContractsTypeOK
<1>1. ContractsInv => ContractsTypeOK
  BY DEF ContractsInv, ContractsTypes, Documented, NotByItself, ContractsTypeOK
<1> QED BY <1>1, ContractsInvariance, PTL

(* As long as requests do not overlap, failures and kills included, an     *)
(* approved candidate has its document, and superseded contracts lead to   *)
(* an active one (server.rs:746-839). *)
THEOREM DocumentsAreSound == ContractsSpec => []ContractsAreSound
<1>1. ContractsInv => ContractsAreSound
  BY DEF ContractsInv, Consistent, ContractsAreSound
<1> QED BY <1>1, ContractsInvariance, PTL
-------------------------------------------------------------------------------
(* Readiness.                                                              *)

Envelope ==
  [kind : {"test"}, test : Test, status : {"passed", "failed"}, content : Content \union {Unknown}]
  \union [kind : {"stop"}, active : BOOLEAN]

Sound(e) ==
  /\ e \in Evaluation
  /\ hook[e.source] # "idle"
  /\ e.issued => ~e.ready /\ envelope[e.source].kind = "stop"
  /\ e.relevant <=> e.fingerprint \in Content
  /\ e.ready /\ e.relevant => \A t \in Test : e.tests[t] = "passed"

Types ==
  /\ content \in Content /\ touched \in BOOLEAN /\ valid \in BOOLEAN /\ continued \in BOOLEAN
  /\ hook \in [Hook -> {"idle", "sent"} \union Settled]
  /\ DOMAIN envelope = Hook
  /\ sends \in [Hook -> Nat]
  /\ work \in [Runner -> {Idle} \union [hook : Hook, evaluation : Evaluation]]
  /\ disturbed \in BOOLEAN
  /\ passed \subseteq Test \X Content
  /\ blocks \subseteq Hook \X Fingerprint /\ forgotten \in BOOLEAN
  /\ edits \in 0..MaxEdits /\ repeats \in 0..MaxRepeats

(* A hook that has captured something has captured an event.               *)
Envelopes == \A h \in Hook : hook[h] # "idle" => envelope[h] \in Envelope

(* Whoever ingests again uses up a repetition.                             *)
Repeats == \A h \in Hook : sends[h] <= 1 + repeats

Stored == \A e \in evaluations : Sound(e)

InWork ==
  \A r \in Runner : work[r] # Idle =>
    /\ Sound(work[r].evaluation)
    /\ work[r].evaluation.source = work[r].hook

(* What counts as passed has passed.                                       *)
Earned(e) ==
  e.relevant => \A t \in Test : e.tests[t] = "passed" => <<t, e.fingerprint>> \in passed

EarnedEverywhere ==
  ~disturbed =>
    /\ \A h \in Hook : hook[h] # "idle" /\ envelope[h].kind = "test"
         /\ envelope[h].status = "passed" /\ envelope[h].content # Unknown =>
           <<envelope[h].test, envelope[h].content>> \in passed
    /\ \A e \in evaluations : Earned(e)
    /\ \A r \in Runner : work[r] # Idle => Earned(work[r].evaluation)

(* A block is on record before it is told, and what the daemon is about to *)
(* tell was never told; unless its row was overwritten.                    *)
Forgotten(f) == f = "invalid" /\ forgotten

BlocksAreRecorded ==
  \A b \in blocks : ~Forgotten(b[2]) => \E e \in evaluations :
    e.issued /\ e.fingerprint = b[2] /\ (e.relevant <=> b[2] \in Content)

Untold ==
  work["daemon"] # Idle /\ work["daemon"].evaluation.issued =>
    \A b \in blocks : b[2] = work["daemon"].evaluation.fingerprint => Forgotten(b[2])

ToldOnce == \A b, c \in blocks : b[2] = c[2] /\ ~Forgotten(b[2]) => b = c

IInv ==
  /\ Types /\ Envelopes /\ Repeats /\ Stored /\ InWork
  /\ EarnedEverywhere /\ BlocksAreRecorded /\ Untold /\ ToldOnce
-------------------------------------------------------------------------------
(* What is carried over is known of an evaluation with this fingerprint.   *)
LEMMA CarriedIsKnown ==
  ASSUME NEW f, NEW t \in Test, Stored
  PROVE /\ Carried(f, t) \in State
        /\ Carried(f, t) = "passed" =>
             \E e \in evaluations : e.fingerprint = f /\ e.relevant /\ e.tests[t] = "passed"
<1> DEFINE same == Known({e \in evaluations : e.fingerprint = f}, t)
           newest == {e \in same : \A d \in same \ {e} : Newer(e, d)}
<1>1. \A e \in newest : /\ e \in evaluations /\ e.fingerprint = f /\ e.relevant
                        /\ e.tests[t] \in {"passed", "failed"}
  BY DEF Known
<1> HIDE DEF same, newest
<1>2. Carried(f, t) =
       CASE newest # {} -> IF \E e \in newest : e.tests[t] = "passed" THEN "passed" ELSE "failed"
         [] newest = {} -> IF \E e \in evaluations : e.relevant /\ e.tests[t] = "passed"
                           THEN "stale" ELSE "missing"
  BY DEF Carried, same, newest
<1>3. CASE newest # {}
  BY <1>1, <1>2, <1>3 DEF State
<1>4. CASE newest = {}
  BY <1>2, <1>4 DEF State
<1> QED BY <1>3, <1>4
-------------------------------------------------------------------------------
(* An evaluation of a captured event is sound, is blocking only if its     *)
(* content was not blocked before, and believes in no test that did not    *)
(* pass.                                                                   *)
LEMMA FreshnessIsKnown ==
  ASSUME IInv, NEW h \in Hook, hook[h] # "idle", NEW t \in Test,
         NEW f \in Content
  PROVE /\ Freshness(envelope[h], f)[t] \in State
        /\ ~disturbed /\ Freshness(envelope[h], f)[t] = "passed" => <<t, f>> \in passed
<1> DEFINE m == envelope[h]
<1>0. m \in Envelope /\ f # Unknown
  BY CleanAssumption DEF IInv, Envelopes
<1>1. CASE m.kind = "test" /\ m.test = t
  <2>1. Freshness(m, f)[t] = Observed(m, f)
    BY <1>1 DEF Freshness
  <2>2. Observed(m, f) \in State /\ (Observed(m, f) = "passed" => m.status = "passed" /\ m.content = f)
    BY <1>0, <1>1 DEF Observed, State, Envelope
  <2> QED BY <1>0, <1>1, <2>1, <2>2 DEF IInv, EarnedEverywhere
<1>2. CASE ~(m.kind = "test" /\ m.test = t)
  <2>1. Freshness(m, f)[t] = Carried(f, t)
    BY <1>2 DEF Freshness
  <2> QED BY <2>1, CarriedIsKnown DEF IInv, EarnedEverywhere, Earned
<1> QED BY <1>1, <1>2

LEMMA EvaluationIsSound ==
  ASSUME IInv, NEW h \in Hook, hook[h] # "idle"
  PROVE /\ Sound(Evaluate(h))
        /\ Evaluate(h).source = h
        /\ ~disturbed => Earned(Evaluate(h))
        /\ Evaluate(h).issued =>
             \A b \in blocks : b[2] = Evaluate(h).fingerprint => Forgotten(b[2])
<1> DEFINE m == envelope[h]
           tests == IF Relevant THEN Freshness(m, FingerprintNow) ELSE Nobody
<1>1. Relevant \in BOOLEAN /\ (Relevant => FingerprintNow = content /\ content \in Content)
  BY DEF IInv, Types, Relevant, FingerprintNow
<1>2. FingerprintNow \in Fingerprint /\ (Relevant <=> FingerprintNow \in Content)
  BY <1>1, ContentAssumption DEF FingerprintNow, Fingerprint, None
<1>3. tests \in [Test -> State]
  <2>1. CASE Relevant
    <3>1. DOMAIN Freshness(m, FingerprintNow) = Test
      BY DEF Freshness
    <3>2. \A t \in Test : Freshness(m, FingerprintNow)[t] \in State
      BY <1>1, <2>1, FreshnessIsKnown
    <3>3. Freshness(m, FingerprintNow) = [t \in Test |-> Freshness(m, FingerprintNow)[t]]
      BY <3>1 DEF Freshness
    <3> QED BY <2>1, <3>2, <3>3
  <2>2. CASE ~Relevant
    BY <2>2 DEF Nobody, State
  <2> QED BY <2>1, <2>2
<1>4. Ready(tests) \in BOOLEAN /\ (Ready(tests) /\ Relevant => \A t \in Test : tests[t] = "passed")
  BY <1>1 DEF Ready, IInv, Types
<1>5. m \in Envelope
  BY DEF IInv, Envelopes
<1>6. Issues(m, FingerprintNow, Relevant) \in BOOLEAN
  BY <1>5 DEF Issues, Envelope, AlreadyIssued
<1>7. sends[h] \in 0..1 + MaxRepeats
  BY BoundsAssumption DEF IInv, Types, Repeats
<1>8. Evaluate(h) = [source |-> h, tie |-> sends[h], fingerprint |-> FingerprintNow,
        tests |-> tests, relevant |-> Relevant, ready |-> Ready(tests),
        issued |-> ~Ready(tests) /\ Issues(m, FingerprintNow, Relevant)]
  BY DEF Evaluate
<1> HIDE DEF tests
<1>9. Evaluate(h) \in Evaluation
  BY <1>1, <1>2, <1>3, <1>4, <1>6, <1>7, <1>8 DEF Evaluation
<1>e. Evaluate(h).source = h /\ Evaluate(h).fingerprint = FingerprintNow /\ Evaluate(h).tests = tests
  BY <1>8
<1>r. Evaluate(h).relevant = Relevant
  BY <1>8
<1>y. Evaluate(h).ready = Ready(tests)
  BY <1>8
<1>i. Evaluate(h).issued = (~Ready(tests) /\ Issues(m, FingerprintNow, Relevant))
  BY <1>8
<1>10. Sound(Evaluate(h)) /\ Evaluate(h).source = h
  <2>1. Issues(m, FingerprintNow, Relevant) => m.kind = "stop"
    BY DEF Issues
  <2> QED BY <1>2, <1>4, <1>9, <1>e, <1>r, <1>y, <1>i, <2>1, Zenon DEF Sound
<1>11. ~disturbed => Earned(Evaluate(h))
  <2> SUFFICES ASSUME ~disturbed, Relevant, NEW t \in Test, tests[t] = "passed"
               PROVE <<t, FingerprintNow>> \in passed
    BY <1>8 DEF Earned
  <2> QED BY <1>1, FreshnessIsKnown DEF tests
<1>12. Evaluate(h).issued =>
         \A b \in blocks : b[2] = Evaluate(h).fingerprint => Forgotten(b[2])
  <2> SUFFICES ASSUME Issues(m, FingerprintNow, Relevant), NEW b \in blocks, b[2] = FingerprintNow,
                      ~Forgotten(b[2])
               PROVE FALSE
    BY <1>e, <1>i, Zenon
  <2>1. PICK e \in evaluations : e.issued /\ e.fingerprint = b[2] /\ (e.relevant <=> b[2] \in Content)
    BY DEF IInv, BlocksAreRecorded
  <2>2. e.relevant = Relevant
    BY <1>1, <1>2, <2>1 DEF IInv, Stored, Sound, Evaluation
  <2> QED BY <2>1, <2>2 DEF Issues, AlreadyIssued
<1> QED BY <1>10, <1>11, <1>12
-------------------------------------------------------------------------------
LEMMA Initially == Init => IInv
<1> SUFFICES ASSUME Init PROVE IInv
  OBVIOUS
<1>1. Types
  <2>1. hook \in [Hook -> {"idle", "sent"} \union Settled] /\ sends \in [Hook -> Nat]
    BY DEF Init
  <2>2. work \in [Runner -> {Idle} \union [hook : Hook, evaluation : Evaluation]]
    BY DEF Init
  <2>3. edits \in 0..MaxEdits /\ repeats \in 0..MaxRepeats
    BY BoundsAssumption DEF Init
  <2>4. DOMAIN envelope = Hook /\ passed \subseteq Test \X Content /\ blocks \subseteq Hook \X Fingerprint
    BY DEF Init
  <2>5. content \in Content /\ touched \in BOOLEAN /\ valid \in BOOLEAN /\ disturbed \in BOOLEAN
      /\ forgotten \in BOOLEAN /\ continued \in BOOLEAN
    BY CleanAssumption DEF Init
  <2> QED BY <2>1, <2>2, <2>3, <2>4, <2>5 DEF Types
<1>2. work = [r \in Runner |-> Idle] /\ evaluations = {} /\ blocks = {}
  BY DEF Init
<1>3. \A h \in Hook : hook[h] = "idle" /\ sends[h] = 0
  BY DEF Init
<1> QED BY <1>1, <1>2, <1>3, BoundsAssumption
  DEF IInv, Envelopes, Repeats, Stored, InWork, EarnedEverywhere, BlocksAreRecorded, Untold,
      ToldOnce, Runner, Types

(* Actions of the world and of a hook that is not told anything leave what *)
(* was evaluated as it is.                                                 *)
LEMMA Undisturbed ==
  ASSUME IInv, Types', Envelopes', UNCHANGED <<sends, evaluations, work, blocks, forgotten>>,
         repeats' = repeats,
         \A h \in Hook : hook[h] # "idle" => hook'[h] # "idle" /\ envelope'[h] = envelope[h],
         passed \subseteq passed', disturbed => disturbed',
         ~disturbed' => \A h \in Hook : hook[h] = "idle" /\ hook'[h] # "idle"
           /\ envelope'[h].kind = "test" /\ envelope'[h].status = "passed"
           /\ envelope'[h].content # Unknown =>
             <<envelope'[h].test, envelope'[h].content>> \in passed'
  PROVE IInv'
<1>1. ASSUME NEW e, Sound(e) PROVE Sound(e)'
  <2>1. e.source \in Hook
    BY <1>1 DEF Sound, Evaluation
  <2> QED BY <1>1, <2>1, Zenon DEF Sound
<1>3. Stored' /\ InWork'
  BY <1>1, Zenon DEF IInv, Stored, InWork
<1>4. EarnedEverywhere'
  <2> SUFFICES ASSUME ~disturbed' PROVE EarnedEverywhere'
    BY DEF EarnedEverywhere
  <2>1. ~disturbed
    OBVIOUS
  <2>a. (\A e \in evaluations : Earned(e)) /\ \A r \in Runner : work[r] # Idle => Earned(work[r].evaluation)
    BY <2>1 DEF IInv, EarnedEverywhere
  <2>2. (\A e \in evaluations : Earned(e))' /\ (\A r \in Runner : work[r] # Idle => Earned(work[r].evaluation))'
    BY <2>a DEF Earned
  <2>3. \A h \in Hook : hook'[h] # "idle" /\ envelope'[h].kind = "test"
         /\ envelope'[h].status = "passed" /\ envelope'[h].content # Unknown =>
           <<envelope'[h].test, envelope'[h].content>> \in passed'
    <3> TAKE h \in Hook
    <3>1. CASE hook[h] # "idle"
      BY <2>1, <3>1 DEF IInv, EarnedEverywhere
    <3>2. CASE hook[h] = "idle"
      BY <3>2
    <3> QED BY <3>1, <3>2
  <2> QED BY <2>2, <2>3, Zenon DEF EarnedEverywhere
<1>5. Repeats' /\ BlocksAreRecorded' /\ Untold' /\ ToldOnce'
  BY Zenon DEF IInv, Repeats, BlocksAreRecorded, Untold, ToldOnce, Forgotten
<1> QED BY <1>3, <1>4, <1>5 DEF IInv

LEMMA CaptureKeeps ==
  ASSUME IInv, NEW h \in Hook, NEW m \in Envelope, Capture(h, m)
  PROVE /\ hook' \in [Hook -> {"idle", "sent"} \union Settled]
        /\ DOMAIN envelope' = Hook
        /\ Envelopes'
        /\ \A g \in Hook : hook[g] # "idle" => hook'[g] # "idle" /\ envelope'[g] = envelope[g]
        /\ \A g \in Hook : hook[g] = "idle" /\ hook'[g] # "idle" => g = h
        /\ envelope'[h] = m
  BY DEF IInv, Types, Envelopes, Capture, IsNext

LEMMA FinishTestKeeps ==
  ASSUME IInv, NEW h \in Hook, NEW t \in Test, NEW status \in {"passed", "failed"},
         NEW seen \in Content \union {Unknown}, NEW edited \in BOOLEAN,
         FinishTest(h, t, status, seen, edited)
  PROVE IInv'
<1> DEFINE m == [kind |-> "test", test |-> t, status |-> status, content |-> seen]
<1>1. Capture(h, m) /\ m \in Envelope
  BY DEF FinishTest, Envelope
<1>2. passed' = IF status = "passed" /\ ~edited THEN passed \union {<<t, content>>} ELSE passed
  BY DEF FinishTest
<1>3. (disturbed' <=> disturbed \/ edited) /\ disturbed' \in BOOLEAN
  BY DEF FinishTest, IInv, Types
<1>4. Types'
  BY <1>1, <1>2, <1>3, CaptureKeeps DEF IInv, Types, FinishTest, world, bounds, Capture
<1>5. ~disturbed' => (m.status = "passed" /\ m.content # Unknown => <<m.test, m.content>> \in passed')
  BY <1>2, <1>3 DEF FinishTest
<1> HIDE DEF m
<1>6. /\ Envelopes'
      /\ \A g \in Hook : hook[g] # "idle" => hook'[g] # "idle" /\ envelope'[g] = envelope[g]
      /\ \A g \in Hook : hook[g] = "idle" /\ hook'[g] # "idle" => g = h
      /\ envelope'[h] = m
  BY <1>1, CaptureKeeps
<1>7. UNCHANGED <<sends, evaluations, work, blocks, forgotten>> /\ repeats' = repeats
  BY <1>1 DEF FinishTest, Capture, bounds
<1> QED BY <1>2, <1>3, <1>4, <1>5, <1>6, <1>7, Undisturbed

LEMMA StopKeeps ==
  ASSUME IInv, NEW h \in Hook, Stop(h)
  PROVE IInv'
<1> DEFINE m == [kind |-> "stop", active |-> continued]
<1>1. Capture(h, m) /\ m \in Envelope
  BY DEF Stop, Envelope, IInv, Types
<1>2. Types'
  BY <1>1, CaptureKeeps DEF IInv, Types, Stop, world, bounds, history, Capture
<1>3. m.kind # "test"
  OBVIOUS
<1> HIDE DEF m
<1>4. /\ Envelopes'
      /\ \A g \in Hook : hook[g] # "idle" => hook'[g] # "idle" /\ envelope'[g] = envelope[g]
      /\ \A g \in Hook : hook[g] = "idle" /\ hook'[g] # "idle" => g = h
      /\ envelope'[h] = m
  BY <1>1, CaptureKeeps
<1>5. UNCHANGED <<sends, evaluations, work, blocks, forgotten, passed, disturbed>> /\ repeats' = repeats
  BY <1>1 DEF Stop, Capture, bounds, history
<1> QED BY <1>2, <1>3, <1>4, <1>5, Undisturbed

LEMMA GiveUpKeeps ==
  ASSUME IInv, NEW h \in Hook, GiveUp(h) \/ IngestFails(h)
  PROVE IInv'
<1>1. hook[h] = "sent" /\ hook' = [hook EXCEPT ![h] = "queued"]
  BY DEF GiveUp, IngestFails
<1>2. UNCHANGED <<world, envelope, sends, evaluations, work, history, bounds>>
  BY DEF GiveUp, IngestFails
<1>a. continued' \in BOOLEAN
  BY DEF IInv, Types, GiveUp, IngestFails
<1>3. Types' /\ Envelopes'
  BY <1>1, <1>2, <1>a DEF IInv, Types, Envelopes, Settled, world, history, bounds
<1>4. \A g \in Hook : hook[g] # "idle" <=> hook'[g] # "idle"
  BY <1>1 DEF IInv, Types
<1> QED BY <1>2, <1>3, <1>4, Undisturbed DEF history, bounds

LEMMA WorldKeeps ==
  ASSUME IInv, (\E c \in Content : Edit(c)) \/ EditContracts
  PROVE IInv'
<1>1. UNCHANGED <<hooks, evaluations, work, history, repeats>>
  BY DEF Edit, EditContracts
<1>2. Types'
  <2>1. content' \in Content /\ touched' \in BOOLEAN /\ valid' \in BOOLEAN
    BY DEF IInv, Types, Edit, EditContracts
  <2>2. edits' \in 0..MaxEdits
    BY BoundsAssumption DEF IInv, Types, Edit, EditContracts
  <2> QED BY <1>1, <2>1, <2>2 DEF IInv, Types, hooks, history
<1>3. Envelopes'
  BY <1>1 DEF IInv, Envelopes, hooks
<1> QED BY <1>1, <1>2, <1>3, Undisturbed DEF hooks, history

LEMMA IngestKeeps ==
  ASSUME IInv, NEW r \in Runner, NEW h \in Hook, Ingest(r, h)
  PROVE IInv'
<1> DEFINE e == Evaluate(h)
<1>1. hook[h] # "idle"
  BY DEF Ingest, Available
<1>2. /\ Sound(e) /\ e.source = h
      /\ ~disturbed => Earned(e)
      /\ e.issued => \A b \in blocks : b[2] = e.fingerprint => Forgotten(b[2])
  BY <1>1, EvaluationIsSound
<1>3. work' = [work EXCEPT ![r] = [hook |-> h, evaluation |-> e]]
  BY DEF Ingest
<1>4. UNCHANGED <<world, hook, envelope, evaluations, history, edits>>
  BY DEF Ingest
<1>5. sends' = [sends EXCEPT ![h] = @ + 1] /\ repeats' = IF sends[h] > 0 THEN repeats + 1 ELSE repeats
  BY DEF Ingest
<1>6. sends[h] > 0 => repeats < MaxRepeats
  BY DEF Ingest
<1> HIDE DEF e
<1>7. \A q \in Runner : work'[q] = IF q = r THEN [hook |-> h, evaluation |-> e] ELSE work[q]
  BY <1>3 DEF IInv, Types
<1>8. Types'
  <2>1. e \in Evaluation
    BY <1>2 DEF Sound
  <2>2. work' \in [Runner -> {Idle} \union [hook : Hook, evaluation : Evaluation]]
    BY <1>3, <2>1 DEF IInv, Types
  <2>3. sends' \in [Hook -> Nat] /\ repeats' \in 0..MaxRepeats
    BY <1>5, <1>6, BoundsAssumption DEF IInv, Types
  <2>4. continued' = continued
    BY DEF Ingest
  <2> QED BY <1>4, <2>2, <2>3, <2>4 DEF IInv, Types, world, history
<1>9. Repeats'
  <2>1. \A g \in Hook : sends[g] \in Nat /\ repeats \in Nat
    BY BoundsAssumption DEF IInv, Types
  <2>2. \A g \in Hook : sends'[g] = IF g = h THEN sends[g] + 1 ELSE sends[g]
    BY <1>5 DEF IInv, Types
  <2> QED BY <1>5, <2>1, <2>2 DEF IInv, Repeats
<1>10. \A d : Sound(d) => Sound(d)'
  BY <1>4, Zenon DEF Sound
<1>11. Stored' /\ Envelopes' /\ BlocksAreRecorded' /\ ToldOnce'
  BY <1>4, <1>10 DEF IInv, Stored, Envelopes, BlocksAreRecorded, ToldOnce, Forgotten, history
<1>12. InWork'
  <2>1. \A q \in Runner : work'[q] # Idle =>
          Sound(work'[q].evaluation) /\ work'[q].evaluation.source = work'[q].hook
    <3> TAKE q \in Runner
    <3>1. CASE q = r
      BY <1>2, <1>7, <3>1
    <3>2. CASE q # r
      BY <1>7, <3>2 DEF IInv, InWork
    <3> QED BY <3>1, <3>2
  <2> QED BY <1>4, <2>1, Zenon DEF InWork, Sound
<1>13. EarnedEverywhere'
  <2> SUFFICES ASSUME ~disturbed' PROVE EarnedEverywhere'
    BY DEF EarnedEverywhere
  <2>1. ~disturbed /\ passed' = passed
    BY <1>4 DEF history
  <2>2. \A q \in Runner : work'[q] # Idle => Earned(work'[q].evaluation)
    <3> TAKE q \in Runner
    <3>1. CASE q = r
      BY <1>2, <1>7, <2>1, <3>1
    <3>2. CASE q # r
      BY <1>7, <2>1, <3>2 DEF IInv, EarnedEverywhere
    <3> QED BY <3>1, <3>2
  <2>3. (\A q \in Runner : work[q] # Idle => Earned(work[q].evaluation))'
    BY <2>1, <2>2 DEF Earned
  <2>4. (\A d \in evaluations : Earned(d))'
    BY <1>4, <2>1 DEF IInv, EarnedEverywhere, Earned
  <2>5. \A g \in Hook : hook'[g] # "idle" /\ envelope'[g].kind = "test"
         /\ envelope'[g].status = "passed" /\ envelope'[g].content # Unknown =>
           <<envelope'[g].test, envelope'[g].content>> \in passed'
    BY <1>4, <2>1 DEF IInv, EarnedEverywhere
  <2> QED BY <2>3, <2>4, <2>5, Zenon DEF EarnedEverywhere
<1>14. Untold'
  <2>1. CASE r = "daemon"
    BY <1>2, <1>4, <1>7, <2>1 DEF Untold, Forgotten, history
  <2>2. CASE r # "daemon"
    BY <1>4, <1>7, <2>2 DEF IInv, Untold, Forgotten, history, Runner
  <2> QED BY <2>1, <2>2
<1> QED BY <1>8, <1>9, <1>11, <1>12, <1>13, <1>14 DEF IInv

(* The answer is told only by the daemon.                                  *)
LEMMA AppendKeeps ==
  ASSUME IInv, NEW r \in Runner, Append(r)
  PROVE IInv'
<1> DEFINE h == work[r].hook
           e == work[r].evaluation
<1>0. work[r] # Idle
  BY DEF Append
<1>1. Sound(e) /\ e.source = h /\ (~disturbed => Earned(e)) /\ h \in Hook /\ e \in Evaluation
  BY <1>0 DEF IInv, InWork, EarnedEverywhere, Sound, Evaluation
<1>2. /\ work' = [work EXCEPT ![r] = Idle]
      /\ UNCHANGED <<world, envelope, sends, passed, disturbed, bounds>>
  BY DEF Append
<1>d. PICK d \in SameRow(e) \union {e} :
         /\ evaluations' = (evaluations \ SameRow(e)) \union {d}
         /\ forgotten' = (forgotten \/ (~d.issued /\ \E o \in SameRow(e) \union {e} : o.issued))
  BY DEF Append, Store
<1>s. \A o \in SameRow(e) : o \in evaluations /\ o.fingerprint = "invalid" /\ e.fingerprint = "invalid"
  BY DEF SameRow
<1>3. \/ hook' = [hook EXCEPT ![h] = "answered"]
      \/ hook' = [hook EXCEPT ![h] = "ingested"]
      \/ hook' = hook
  BY DEF Append
<1>4. \/ blocks' = blocks
      \/ r = "daemon" /\ e.issued /\ blocks' = blocks \union {<<h, e.fingerprint>>}
  BY DEF Append
<1>c. continued' \in BOOLEAN
  <2>1. e.issued \in BOOLEAN /\ continued \in BOOLEAN
    BY <1>1 DEF Evaluation, IInv, Types
  <2> QED BY <2>1 DEF Append
<1> HIDE DEF h, e
<1>u. /\ \A o \in evaluations' : o \in evaluations \union {e}
      /\ forgotten => forgotten'
      /\ forgotten' \in BOOLEAN
  BY <1>d, <1>s DEF IInv, Types
<1>5. \A q \in Runner : work'[q] = IF q = r THEN Idle ELSE work[q]
  BY <1>2 DEF IInv, Types
<1>6. \A g \in Hook : hook[g] # "idle" => hook'[g] # "idle"
  BY <1>1, <1>3 DEF IInv, Types
<1>7. \A o : Sound(o) /\ hook'[o.source] # "idle" => Sound(o)'
  BY <1>2, Zenon DEF Sound
<1>8. \A o : Sound(o) => hook'[o.source] # "idle"
  BY <1>6 DEF Sound, Evaluation
<1>9. Types'
  <2>1. hook' \in [Hook -> {"idle", "sent"} \union Settled]
    BY <1>1, <1>3 DEF IInv, Types, Settled
  <2>2. blocks' \subseteq Hook \X Fingerprint
    BY <1>1, <1>4 DEF IInv, Types, Evaluation
  <2>3. work' \in [Runner -> {Idle} \union [hook : Hook, evaluation : Evaluation]]
    BY <1>2 DEF IInv, Types
  <2> QED BY <1>2, <1>c, <1>u, <2>1, <2>2, <2>3 DEF IInv, Types, world, bounds
<1>10. Envelopes'
  <2> SUFFICES ASSUME NEW g \in Hook, hook'[g] # "idle" PROVE envelope'[g] \in Envelope
    BY DEF Envelopes
  <2>1. hook[g] # "idle"
    BY <1>1, <1>3 DEF IInv, Types, Sound
  <2> QED BY <1>2, <2>1 DEF IInv, Envelopes
<1>11. Repeats'
  BY <1>2 DEF IInv, Repeats, bounds
<1>12. Stored'
  <2>1. \A o \in evaluations' : Sound(o) /\ hook'[o.source] # "idle"
    BY <1>1, <1>u, <1>8 DEF IInv, Stored
  <2> QED BY <1>2, <2>1, Zenon DEF Stored, Sound
<1>13. InWork'
  <2>1. \A q \in Runner : work'[q] # Idle =>
          /\ Sound(work'[q].evaluation) /\ hook'[work'[q].evaluation.source] # "idle"
          /\ work'[q].evaluation.source = work'[q].hook
    BY <1>5, <1>8 DEF IInv, InWork
  <2> QED BY <1>2, <2>1, Zenon DEF InWork, Sound
<1>14. EarnedEverywhere'
  <2> SUFFICES ASSUME ~disturbed' PROVE EarnedEverywhere'
    BY DEF EarnedEverywhere
  <2>1. ~disturbed /\ passed' = passed
    BY <1>2
  <2>2. (\A q \in Runner : work[q] # Idle => Earned(work[q].evaluation))'
    BY <1>5, <2>1 DEF IInv, EarnedEverywhere, Earned
  <2>3. (\A o \in evaluations : Earned(o))'
    BY <1>1, <1>u, <2>1 DEF IInv, EarnedEverywhere, Earned
  <2>4. \A g \in Hook : hook'[g] # "idle" /\ envelope'[g].kind = "test"
         /\ envelope'[g].status = "passed" /\ envelope'[g].content # Unknown =>
           <<envelope'[g].test, envelope'[g].content>> \in passed'
    <3> TAKE g \in Hook
    <3>1. hook'[g] # "idle" => hook[g] # "idle"
      BY <1>1, <1>3 DEF IInv, Types, Sound
    <3> QED BY <1>2, <2>1, <3>1 DEF IInv, EarnedEverywhere
  <2> QED BY <2>2, <2>3, <2>4, Zenon DEF EarnedEverywhere
<1>15. BlocksAreRecorded'
  <2> SUFFICES ASSUME NEW b \in blocks', ~Forgotten(b[2])'
               PROVE \E o \in evaluations' :
                       o.issued /\ o.fingerprint = b[2] /\ (o.relevant <=> b[2] \in Content)
    BY Zenon DEF BlocksAreRecorded
  <2>1. PICK o \in evaluations \union {e} :
          o.issued /\ o.fingerprint = b[2] /\ (o.relevant <=> b[2] \in Content)
    <3>1. CASE b \in blocks
      <4>1. ~Forgotten(b[2])
        BY <1>u DEF Forgotten
      <4> QED BY <3>1, <4>1 DEF IInv, BlocksAreRecorded
    <3>2. CASE e.issued /\ b = <<h, e.fingerprint>>
      <4>1. b[2] = e.fingerprint
        BY <3>2
      <4> QED BY <1>1, <3>2, <4>1, Zenon DEF Sound
    <3> QED BY <1>4, <3>1, <3>2
  <2>2. CASE o \in evaluations \ SameRow(e)
    BY <1>d, <2>1, <2>2
  <2>3. CASE o \in SameRow(e) \union {e}
    <3>1. d = e \/ (d \in SameRow(e) /\ d \in evaluations)
      BY <1>d, <1>s
    <3>2. Sound(d) /\ Sound(o)
      BY <1>1, <2>1, <3>1 DEF IInv, Stored
    <3>3. d.fingerprint = o.fingerprint
      <4>1. \A q \in SameRow(e) \union {e} : q.fingerprint = e.fingerprint
        BY <1>s
      <4> QED BY <1>d, <2>3, <4>1
    <3>4. d.issued
      <4>1. CASE SameRow(e) = {}
        BY <1>d, <2>1, <2>3, <4>1
      <4>2. CASE SameRow(e) # {}
        <5>1. o.fingerprint = "invalid"
          BY <1>s, <2>3, <4>2
        <5>2. ~forgotten'
          BY <2>1, <5>1 DEF Forgotten
        <5>3. d.issued \in BOOLEAN
          BY <3>2 DEF Sound, Evaluation
        <5> QED BY <1>d, <2>1, <2>3, <5>2, <5>3
      <4> QED BY <4>1, <4>2
    <3>5. d.relevant <=> d.fingerprint \in Content
      BY <3>2, Zenon DEF Sound
    <3>6. d \in evaluations'
      BY <1>d
    <3> QED BY <2>1, <3>3, <3>4, <3>5, <3>6, Zenon
  <2> QED BY <2>1, <2>2, <2>3
<1>16. Untold'
  <2>1. CASE r = "daemon"
    BY <1>5, <2>1 DEF Untold, Runner
  <2>2. CASE r # "daemon"
    BY <1>4, <1>5, <1>u, <2>2 DEF IInv, Untold, Forgotten, Runner
  <2> QED BY <2>1, <2>2
<1>17. ToldOnce'
  <2>1. CASE blocks' = blocks
    BY <1>u, <2>1 DEF IInv, ToldOnce, Forgotten
  <2>2. CASE r = "daemon" /\ e.issued /\ blocks' = blocks \union {<<h, e.fingerprint>>}
    <3>1. \A b \in blocks : b[2] = e.fingerprint => Forgotten(b[2])
      BY <1>0, <2>2 DEF IInv, Untold, e
    <3> QED BY <1>u, <2>2, <3>1 DEF IInv, ToldOnce, Forgotten
  <2> QED BY <1>4, <2>1, <2>2
<1> QED BY <1>9, <1>10, <1>11, <1>12, <1>13, <1>14, <1>15, <1>16, <1>17 DEF IInv
-------------------------------------------------------------------------------
(* IInv is an invariant of ingestion, whatever is late, repeated or edited *)
(* in between (hook.rs run_daemon and replay_fallback).                    *)
THEOREM Invariance == Spec => []IInv
<1>1. ASSUME IInv, [Next]_vars PROVE IInv'
  <2>1. CASE \E c \in Content : Edit(c)
    BY <1>1, <2>1, WorldKeeps
  <2>2. CASE EditContracts
    BY <1>1, <2>2, WorldKeeps
  <2>3. CASE \E h \in Hook : Stop(h) \/ GiveUp(h) \/ IngestFails(h)
    BY <1>1, <2>3, StopKeeps, GiveUpKeeps
  <2>4. CASE \E h \in Hook, t \in Test, s \in {"passed", "failed"},
               c \in Content \union {Unknown}, d \in BOOLEAN : FinishTest(h, t, s, c, d)
    BY <1>1, <2>4, FinishTestKeeps
  <2>5. CASE \E r \in Runner, h \in Hook : Ingest(r, h)
    BY <1>1, <2>5, IngestKeeps
  <2>6. CASE \E r \in Runner : Append(r)
    BY <1>1, <2>6, AppendKeeps
  <2>7. CASE UNCHANGED vars
    <3>1. Types' /\ Envelopes'
      BY <1>1, <2>7 DEF IInv, Types, Envelopes, vars, world, hooks, history, bounds
    <3> QED BY <1>1, <2>7, <3>1, Undisturbed DEF vars, world, hooks, history, bounds
  <2> QED BY <1>1, <2>1, <2>2, <2>3, <2>4, <2>5, <2>6, <2>7 DEF Next
<1> QED BY Initially, <1>1, PTL DEF Spec

(* Type correctness: a block is recorded only for a stop that is not ready *)
(* (contract_policy.rs evaluate_contracts_for_source).                     *)
THEOREM TypeCorrect == Spec => []TypeOK
<1>1. IInv => TypeOK
  <2> SUFFICES ASSUME IInv PROVE TypeOK
    OBVIOUS
  <2>1. sends \in [Hook -> 0..1 + MaxRepeats]
    BY BoundsAssumption DEF IInv, Types, Repeats
  <2>2. /\ evaluations \subseteq Evaluation
        /\ \A e \in evaluations : e.issued => ~e.ready /\ envelope[e.source].kind = "stop"
    BY Zenon DEF IInv, Stored, Sound
  <2> QED BY <2>1, <2>2 DEF IInv, Types, TypeOK
<1> QED BY Invariance, <1>1, PTL

(* Work is ready only if every required test passed on this content,       *)
(* whatever evaluations are carried over, repeated or late                 *)
(* (contract_policy.rs apply_observed_test_freshness).                     *)
THEOREM ReadinessIsEarned == Spec => []ReadyIsEarned
<1>1. IInv => ReadyIsEarned
  <2> SUFFICES ASSUME IInv, ~disturbed, NEW e \in evaluations, e.ready, e.relevant, NEW t \in Test
               PROVE <<t, e.fingerprint>> \in passed
    BY DEF ReadyIsEarned
  <2>1. e.tests[t] = "passed"
    BY Zenon DEF IInv, Stored, Sound
  <2> QED BY <2>1, Zenon DEF IInv, EarnedEverywhere, Earned
<1> QED BY Invariance, <1>1, PTL

(* A stop is told to go on at most once for the same content, by whichever *)
(* of daemon and replay (contract_policy.rs:393 already_issued); documents *)
(* that cannot be read, as long as no block has lost its row.              *)
THEOREM BlocksOnce == Spec => []BlockedOncePerContent
<1>1. IInv => BlockedOncePerContent
  BY Zenon DEF IInv, ToldOnce, Forgotten, BlockedOncePerContent
<1> QED BY Invariance, <1>1, PTL
===============================================================================
