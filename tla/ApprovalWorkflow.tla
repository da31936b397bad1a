--------------------------- MODULE ApprovalWorkflow ---------------------------
(***************************************************************************)
(* The approval workflow of root control: versioned proposals, decisions   *)
(* about them under idempotency keys, and the question whether an approval *)
(* still holds for the proposal as it is now.  One object in memory; each  *)
(* method runs to its end, and proposals change between a decision and its *)
(* use.                                                                    *)
(*                                                                         *)
(* A proposal's goal, plan, effects and the other fields nothing reads are *)
(* one field "body"; proposal_hash, a digest of the whole proposal, is the *)
(* proposal.  What identifies a decision's author (identity, reason) is    *)
(* one value.                                                              *)
(***************************************************************************)
EXTENDS Naturals

CONSTANTS
  ProposalIds,
  Bodies, Scopes, Assurances,
  DecisionKeys,   \* idempotency keys
  Authors,
  MaxRevision,    \* bound: versions of a proposal
  Nothing         \* no proposal, no decision

Risks == {"LOW", "HIGH"}    \* "HIGH" stands for HIGH and CRITICAL
VALID_DECISIONS == {"APPROVE", "REJECT", "REQUEST_CHANGES", "EXPIRE"}
Asked == VALID_DECISIONS \union {"OTHER"}    \* what a caller may pass

Proposals ==
  [version : 1 .. MaxRevision, body : Bodies, scope : Scopes, risk : Risks,
   required_assurance : Assurances]

Records ==
  [approval_id : Nat, proposal_id : ProposalIds, proposal : Proposals,
   decision : VALID_DECISIONS, actor : Authors, assurance : Assurances, stepped_up : BOOLEAN]

ASSUME ApprovalAssumption ==
  /\ MaxRevision \in Nat
  /\ Nothing \notin Proposals
  /\ Nothing \notin Records

VARIABLES
  proposals,   \* _proposals: the current proposal of each id, or Nothing
  decisions,   \* _decisions: the record under each key, or Nothing; the step-up
               \* confirmation, which the record does not keep, is history
  counter,     \* _counter
  superseded   \* history: approvals whose proposal got a later version

approvalVars == <<proposals, decisions, counter, superseded>>

ApprovalInit ==
  /\ proposals = [i \in ProposalIds |-> Nothing]
  /\ decisions = [k \in DecisionKeys |-> Nothing]
  /\ counter = 0
  /\ superseded = {}

(* Mutant: an older version may come back.                                 *)
Mut_register_proposal(i, p) ==
  /\ proposals' = [proposals EXCEPT ![i] = p]
  /\ superseded' = superseded \union
       {k \in DecisionKeys : decisions[k] # Nothing /\ decisions[k].proposal_id = i
                       /\ decisions[k].proposal.version < p.version}
  /\ UNCHANGED <<decisions, counter>>

(* PROPOSAL_VERSION_REGRESSION refuses an older version only: the current  *)
(* version may be registered again with another content.                   *)
register_proposal(i, p) ==
  /\ proposals[i] # Nothing => p.version >= proposals[i].version
  /\ proposals' = [proposals EXCEPT ![i] = p]
  /\ superseded' = superseded \union
       {k \in DecisionKeys : decisions[k] # Nothing /\ decisions[k].proposal_id = i
                       /\ decisions[k].proposal.version < p.version}
  /\ UNCHANGED <<decisions, counter>>

(* The checks of decide before the idempotency key is looked at.           *)
Decidable(i, v, s, d, assurance, stepped_up) ==
  LET p == proposals[i] IN
  /\ d \in VALID_DECISIONS
  /\ p # Nothing
  /\ v = p.version /\ s = p.scope
  /\ p.risk = "HIGH" => assurance = p.required_assurance /\ stepped_up

(* A used key answers with its record if everything but the id agrees, and *)
(* raises IDEMPOTENCY_CONFLICT otherwise; neither changes anything.        *)
decide(k, i, v, s, d, a, assurance, stepped_up) ==
  /\ Decidable(i, v, s, d, assurance, stepped_up)
  /\ decisions[k] = Nothing
  /\ counter' = counter + 1
  /\ decisions' = [decisions EXCEPT ![k] =
       [approval_id |-> counter + 1, proposal_id |-> i, proposal |-> proposals[i],
        decision |-> d, actor |-> a, assurance |-> assurance, stepped_up |-> stepped_up]]
  /\ UNCHANGED <<proposals, superseded>>

is_valid_for_current_proposal(r) ==
  LET current == proposals[r.proposal_id] IN
  /\ current # Nothing
  /\ r.proposal.version = current.version
  /\ r.proposal = current
  /\ r.proposal.scope = current.scope
  /\ r.decision = "APPROVE"

ApprovalNext ==
  \E i \in ProposalIds :
    \/ \E p \in Proposals : register_proposal(i, p)
    \/ \E k \in DecisionKeys, v \in 1 .. MaxRevision, s \in Scopes, d \in Asked, a \in Authors,
          assurance \in Assurances, stepped_up \in BOOLEAN :
         decide(k, i, v, s, d, a, assurance, stepped_up)

ApprovalSpec == ApprovalInit /\ [][ApprovalNext]_approvalVars

-----------------------------------------------------------------------------
ApprovalTypeOK ==
  /\ proposals \in [ProposalIds -> Proposals \union {Nothing}]
  /\ decisions \in [DecisionKeys -> Records \union {Nothing}]
  /\ counter \in Nat
  /\ superseded \subseteq DecisionKeys

Standing(k) == decisions[k] # Nothing /\ is_valid_for_current_proposal(decisions[k])

(* An approval that holds for a high-risk proposal was given with a step-  *)
(* up and with the assurance that this very content asks for, though the   *)
(* content, its risk and its requirement may be replaced under a version   *)
(* that was approved when it was harmless.                                 *)
ApprovalIsSteppedUp ==
  \A k \in DecisionKeys : Standing(k) =>
    LET r == decisions[k] current == proposals[r.proposal_id] IN
    current.risk = "HIGH" => r.stepped_up /\ r.assurance = current.required_assurance

(* An approval that a later version has invalidated never holds again.     *)
SupersededForGood == \A k \in superseded : ~Standing(k)

(* The record under a key is written once: no decision is turned into      *)
(* another one by a replay, a double click or a reused key, and no two     *)
(* records share an approval id.                                           *)
DecisionsStand ==
  [][/\ \A k \in DecisionKeys : decisions[k] # Nothing => decisions'[k] = decisions[k]
     /\ \A k, l \in DecisionKeys : k # l /\ decisions'[k] # Nothing /\ decisions'[l] # Nothing
          => decisions'[k].approval_id # decisions'[l].approval_id]_approvalVars
=============================================================================
