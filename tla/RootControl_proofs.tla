--------------------------- MODULE RootControl_proofs ---------------------------
(***************************************************************************)
(* Proofs about the parts of root control: the authority envelopes, the    *)
(* approval workflow, the identities with their sessions (RootSecurity)    *)
(* and the command registry; for any number of envelopes, proposals,       *)
(* roots, devices, sessions, callers, commands, failures and restarts.     *)
(***************************************************************************)
EXTENDS CommandRegistry, AuthorityEnvelopes, ApprovalWorkflow, RootSecurity, FiniteSetTheorems, TLAPS

----------------------------------------------------------------------------
(* AuthorityEnvelopes.                                                     *)

(* An id without an envelope has neither uses nor a revocation.            *)
UnusedIds == \A e \in Ids : records[e] = NoRecord => usage[e] = <<>> /\ revocations[e] = NoRecord

(* EnvelopeTypeOK with what the steps need of it.                                  *)
EnvelopesTyped ==
  /\ records \in [Ids -> Envelopes \union {NoRecord}]
  /\ usage \in [Ids -> Seq(Uses)]
  /\ revocations \in [Ids -> Actors \union {NoRecord}]
  /\ used_before \in [Ids -> Nat]
  /\ UnusedIds

EnvelopeInv == EnvelopesTyped /\ UsesWithinGrant /\ RevocationFinal

LEMMA EnvelopeFields ==
  ASSUME NEW d \in Envelopes
  PROVE  d.usage_limit \in 1 .. MaxLimit /\ d.expires_at \in Times /\ d # NoRecord
  BY EnvelopeAssumption DEF Envelopes

LEMMA UseFields ==
  ASSUME NEW u \in Uses PROVE u.observed_at \in Times
  BY DEF Uses

LEMMA UsageAppend ==
  ASSUME NEW l \in Seq(Uses), NEW u \in Uses
  PROVE  /\ Append(l, u) \in Seq(Uses)
         /\ Len(Append(l, u)) = Len(l) + 1
         /\ DOMAIN Append(l, u) = 1 .. Len(l) + 1
         /\ DOMAIN l = 1 .. Len(l)
         /\ Append(l, u)[Len(l) + 1] = u
         /\ \A i \in 1 .. Len(l) : Append(l, u)[i] = l[i]
  OBVIOUS

LEMMA CreateStep ==
  ASSUME EnvelopeInv, NEW e \in Ids, NEW d \in Envelopes, create(e, d)
  PROVE  EnvelopeInv'
<1>1. /\ records[e] = NoRecord /\ records' = [records EXCEPT ![e] = d]
      /\ usage' = [usage EXCEPT ![e] = <<>>] /\ UNCHANGED <<revocations, used_before>>
  BY DEF create
<1>2. usage[e] = <<>> /\ revocations[e] = NoRecord /\ usage' = usage
  BY <1>1 DEF EnvelopeInv, EnvelopesTyped, UnusedIds
<1>3. EnvelopesTyped'
  BY <1>1, <1>2, EnvelopeFields DEF EnvelopeInv, EnvelopesTyped, UnusedIds
<1>4. UsesWithinGrant'
  <2> SUFFICES ASSUME NEW f \in Ids, records'[f] # NoRecord
               PROVE  /\ Len(usage[f]) <= records'[f].usage_limit
                      /\ \A i \in DOMAIN usage[f] :
                           InScope(f, usage[f][i])' /\ usage[f][i].observed_at < records'[f].expires_at
                      /\ \A i, j \in DOMAIN usage[f] :
                           usage[f][i].usage_id = usage[f][j].usage_id => i = j
    BY <1>2 DEF UsesWithinGrant, InScope
  <2>1. CASE f = e
    <3>1. Len(usage[f]) = 0 /\ DOMAIN usage[f] = {} /\ records'[f] = d
      BY <1>1, <1>2, <2>1 DEF EnvelopeInv, EnvelopesTyped
    <3> QED
      BY <3>1, EnvelopeFields
  <2>2. CASE f # e
    BY <1>1, <1>2, <2>2 DEF EnvelopeInv, EnvelopesTyped, UsesWithinGrant, InScope
  <2> QED
    BY <2>1, <2>2
<1>5. RevocationFinal'
  BY <1>1, <1>2 DEF EnvelopeInv, RevocationFinal
<1> QED
  BY <1>3, <1>4, <1>5 DEF EnvelopeInv

LEMMA RevokeStep ==
  ASSUME EnvelopeInv, NEW e \in Ids, NEW a \in Actors, revoke(e, a)
  PROVE  EnvelopeInv'
<1>1. /\ records[e] # NoRecord /\ revocations' = [revocations EXCEPT ![e] = a]
      /\ used_before' = [used_before EXCEPT ![e] = Len(usage[e])]
      /\ UNCHANGED <<records, usage>>
  BY DEF revoke
<1>2. EnvelopesTyped'
  BY <1>1 DEF EnvelopeInv, EnvelopesTyped, UnusedIds
<1>3. UsesWithinGrant'
  BY <1>1 DEF EnvelopeInv, UsesWithinGrant, InScope
<1>4. RevocationFinal'
  BY <1>1 DEF EnvelopeInv, EnvelopesTyped, RevocationFinal
<1> QED
  BY <1>2, <1>3, <1>4 DEF EnvelopeInv

LEMMA UseStep ==
  ASSUME EnvelopeInv, NEW e \in Ids, NEW u \in Uses, authorize_use(e, u)
  PROVE  EnvelopeInv'
<1>1. /\ records[e] # NoRecord /\ usage' = [usage EXCEPT ![e] = Append(usage[e], u)]
      /\ UNCHANGED <<records, revocations, used_before>>
      /\ UsageAnswer(e, u) = "recorded"
  BY DEF authorize_use
<1>2. envelope_status(e, u.observed_at) = "ACTIVE" /\ InScope(e, u) /\ ~Recorded(e, u.usage_id)
  BY <1>1 DEF UsageAnswer
<1>3. /\ revocations[e] = NoRecord /\ u.observed_at < records[e].expires_at
      /\ Len(usage[e]) < records[e].usage_limit
  <2>1. /\ records[e].expires_at \in Nat /\ u.observed_at \in Nat /\ records[e].usage_limit \in Nat
        /\ Len(usage[e]) \in Nat
    BY <1>1, EnvelopeFields, UseFields DEF EnvelopeInv, EnvelopesTyped, Times
  <2> QED
    BY <1>2, <2>1 DEF envelope_status
<1>4. EnvelopesTyped'
  BY <1>1 DEF EnvelopeInv, EnvelopesTyped, UnusedIds
<1>5. UsesWithinGrant'
  <2> SUFFICES ASSUME NEW f \in Ids, records[f] # NoRecord
               PROVE  /\ Len(usage'[f]) <= records[f].usage_limit
                      /\ \A i \in DOMAIN usage'[f] :
                           InScope(f, usage'[f][i]) /\ usage'[f][i].observed_at < records[f].expires_at
                      /\ \A i, j \in DOMAIN usage'[f] :
                           usage'[f][i].usage_id = usage'[f][j].usage_id => i = j
    BY <1>1 DEF UsesWithinGrant, InScope
  <2>1. CASE f = e
    <3> DEFINE l == usage[e]
    <3>1. l \in Seq(Uses) /\ usage'[e] = Append(l, u)
      BY <1>1 DEF EnvelopeInv, EnvelopesTyped
    <3>2. /\ Len(usage'[e]) = Len(l) + 1 /\ DOMAIN usage'[e] = 1 .. Len(l) + 1 /\ DOMAIN l = 1 .. Len(l)
          /\ usage'[e][Len(l) + 1] = u
          /\ \A i \in 1 .. Len(l) : usage'[e][i] = l[i]
      BY <3>1, UsageAppend
    <3>3. Len(usage'[e]) <= records[e].usage_limit
      BY <1>1, <1>3, <3>1, <3>2, EnvelopeFields DEF EnvelopeInv, EnvelopesTyped
    <3>4. /\ \A i \in DOMAIN l : InScope(e, l[i]) /\ l[i].observed_at < records[e].expires_at
          /\ \A i, j \in DOMAIN l : l[i].usage_id = l[j].usage_id => i = j
          /\ \A i \in DOMAIN l : l[i].usage_id # u.usage_id
      BY <1>1, <1>2 DEF EnvelopeInv, UsesWithinGrant, Recorded
    <3>5. \A i \in DOMAIN usage'[e] : i \in DOMAIN l \/ i = Len(l) + 1
      BY <3>1, <3>2
    <3> HIDE DEF l
    <3>6. \A i \in DOMAIN usage'[e] :
            InScope(e, usage'[e][i]) /\ usage'[e][i].observed_at < records[e].expires_at
      BY <1>2, <1>3, <3>2, <3>4, <3>5
    <3>7. \A i, j \in DOMAIN usage'[e] : usage'[e][i].usage_id = usage'[e][j].usage_id => i = j
      BY <3>2, <3>4, <3>5
    <3> QED
      BY <2>1, <3>3, <3>6, <3>7
  <2>2. CASE f # e
    BY <1>1, <2>2 DEF EnvelopeInv, EnvelopesTyped, UsesWithinGrant
  <2> QED
    BY <2>1, <2>2
<1>6. RevocationFinal'
  BY <1>1, <1>3 DEF EnvelopeInv, EnvelopesTyped, RevocationFinal
<1> QED
  BY <1>4, <1>5, <1>6 DEF EnvelopeInv

LEMMA EnvelopeInvHolds == EnvelopeSpec => []EnvelopeInv
<1>1. EnvelopeInit => EnvelopeInv
  BY DEF EnvelopeInit, EnvelopeInv, EnvelopesTyped, UnusedIds, UsesWithinGrant, RevocationFinal
<1>2. EnvelopeInv /\ [EnvelopeNext]_envelopeVars => EnvelopeInv'
  <2>1. EnvelopeInv /\ UNCHANGED envelopeVars => EnvelopeInv'
    BY DEF envelopeVars, EnvelopeInv, EnvelopesTyped, UnusedIds, UsesWithinGrant, RevocationFinal, InScope
  <2> QED
    BY <2>1, CreateStep, RevokeStep, UseStep DEF EnvelopeNext
<1> QED
  BY <1>1, <1>2, PTL DEF EnvelopeSpec

(* No sequence of creations, repetitions, revocations and uses puts a use  *)
(* outside the grant on record on the list.                                *)
THEOREM GrantCoversUses == EnvelopeSpec => []UsesWithinGrant
<1>1. EnvelopeInv => UsesWithinGrant
  BY DEF EnvelopeInv
<1> QED
  BY <1>1, EnvelopeInvHolds, PTL

(* Nothing is recorded after a revocation.                                 *)
THEOREM RevokedForGood == EnvelopeSpec => []RevocationFinal
<1>1. EnvelopeInv => RevocationFinal
  BY DEF EnvelopeInv
<1> QED
  BY <1>1, EnvelopeInvHolds, PTL

UsedBeforeTyped == used_before \in [Ids -> 0 .. MaxLimit]

(* Every variable keeps its type.                                          *)
THEOREM EnvelopesTypeCorrect == EnvelopeSpec => []EnvelopeTypeOK
<1>1. EnvelopeInit => UsedBeforeTyped
  BY EnvelopeAssumption DEF EnvelopeInit, UsedBeforeTyped
<1>2. EnvelopeInv /\ UsedBeforeTyped /\ [EnvelopeNext]_envelopeVars => UsedBeforeTyped'
  <2> SUFFICES ASSUME EnvelopeInv, used_before \in [Ids -> 0 .. MaxLimit], [EnvelopeNext]_envelopeVars
               PROVE  used_before' \in [Ids -> 0 .. MaxLimit]
    BY DEF UsedBeforeTyped
  <2>1. ASSUME NEW e \in Ids, NEW a \in Actors, revoke(e, a)
        PROVE  used_before' \in [Ids -> 0 .. MaxLimit]
    <3>1. Len(usage[e]) \in 0 .. MaxLimit
      <4>1. records[e] \in Envelopes /\ usage[e] \in Seq(Uses) /\ Len(usage[e]) <= records[e].usage_limit
        BY <2>1 DEF revoke, EnvelopeInv, EnvelopesTyped, UsesWithinGrant
      <4> QED
        BY <4>1, EnvelopeFields, EnvelopeAssumption
    <3> QED
      BY <2>1, <3>1 DEF revoke
  <2> QED
    BY <2>1 DEF EnvelopeNext, create, authorize_use, envelopeVars
<1>3. EnvelopeInv /\ UsedBeforeTyped => EnvelopeTypeOK
  BY DEF UsedBeforeTyped, EnvelopeInv, EnvelopesTyped, EnvelopeTypeOK
<1> QED
  BY <1>1, <1>2, <1>3, EnvelopeInvHolds, PTL DEF EnvelopeSpec

----------------------------------------------------------------------------
(* ApprovalWorkflow.                                                       *)

LEMMA ProposalFields ==
  ASSUME NEW p \in Proposals
  PROVE  p.version \in 1 .. MaxRevision /\ p.risk \in Risks /\ p.required_assurance \in Assurances
  BY DEF Proposals

LEMMA RecordFields ==
  ASSUME NEW r \in Records
  PROVE  r.proposal_id \in ProposalIds /\ r.proposal \in Proposals
  BY DEF Records

(* The record that decide files.                                           *)
LEMMA NewRecord ==
  ASSUME NEW n \in Nat, NEW i \in ProposalIds, NEW p \in Proposals, NEW d \in VALID_DECISIONS,
         NEW a \in Authors, NEW s \in Assurances, NEW u \in BOOLEAN
  PROVE  LET r == [approval_id |-> n, proposal_id |-> i, proposal |-> p, decision |-> d,
                   actor |-> a, assurance |-> s, stepped_up |-> u] IN
         /\ r \in Records /\ r # Nothing
         /\ r.proposal_id = i /\ r.proposal = p /\ r.assurance = s /\ r.stepped_up = u
  BY ApprovalAssumption DEF Records

(* Every variable keeps its type.                                          *)
THEOREM ApprovalsTypeCorrect == ApprovalSpec => []ApprovalTypeOK
<1>1. ApprovalInit => ApprovalTypeOK
  BY DEF ApprovalInit, ApprovalTypeOK
<1>2. ApprovalTypeOK /\ [ApprovalNext]_approvalVars => ApprovalTypeOK'
  <2> SUFFICES ASSUME ApprovalTypeOK, [ApprovalNext]_approvalVars PROVE ApprovalTypeOK'
    OBVIOUS
  <2> USE DEF ApprovalTypeOK
  <2>1. ASSUME NEW i \in ProposalIds, NEW p \in Proposals, register_proposal(i, p) PROVE ApprovalTypeOK'
    BY <2>1 DEF register_proposal
  <2>2. ASSUME NEW i \in ProposalIds, NEW k \in DecisionKeys, NEW v \in 1 .. MaxRevision, NEW s \in Scopes,
               NEW d \in Asked, NEW a \in Authors, NEW assurance \in Assurances,
               NEW stepped_up \in BOOLEAN, decide(k, i, v, s, d, a, assurance, stepped_up)
        PROVE  ApprovalTypeOK'
    <3>1. proposals[i] \in Proposals /\ d \in VALID_DECISIONS
      BY <2>2 DEF decide, Decidable
    <3> DEFINE r == [approval_id |-> counter + 1, proposal_id |-> i, proposal |-> proposals[i],
                     decision |-> d, actor |-> a, assurance |-> assurance, stepped_up |-> stepped_up]
    <3>2. r \in Records
      BY <3>1, NewRecord
    <3>3. decisions' = [decisions EXCEPT ![k] = r] /\ counter' = counter + 1
          /\ UNCHANGED <<proposals, superseded>>
      BY <2>2 DEF decide
    <3> HIDE DEF r
    <3> QED
      BY <3>2, <3>3
  <2>3. CASE UNCHANGED approvalVars
    BY <2>3 DEF approvalVars
  <2> QED
    BY <2>1, <2>2, <2>3 DEF ApprovalNext
<1> QED
  BY <1>1, <1>2, PTL DEF ApprovalSpec

-----------------------------------------------------------------------------
(* What a record keeps of the moment it was made: the proposal as it was,  *)
(* decided with the assurance that this content asked for.                 *)
RecordsTrue ==
  \A k \in DecisionKeys : decisions[k] # Nothing /\ decisions[k].proposal.risk = "HIGH" =>
    /\ decisions[k].stepped_up
    /\ decisions[k].assurance = decisions[k].proposal.required_assurance

(* A superseded record stays behind the version of its proposal.           *)
StayBehind ==
  \A k \in superseded :
    /\ decisions[k] # Nothing
    /\ proposals[decisions[k].proposal_id] # Nothing
    /\ decisions[k].proposal.version < proposals[decisions[k].proposal_id].version

ApprovalInv == RecordsTrue /\ StayBehind

LEMMA ApprovalInvStep == ApprovalTypeOK /\ ApprovalInv /\ [ApprovalNext]_approvalVars => ApprovalInv'
<1> SUFFICES ASSUME ApprovalTypeOK, ApprovalInv, [ApprovalNext]_approvalVars PROVE ApprovalInv'
  OBVIOUS
<1>0. \A k \in DecisionKeys : decisions[k] # Nothing =>
        decisions[k].proposal_id \in ProposalIds /\ decisions[k].proposal \in Proposals
              /\ decisions[k].proposal.version \in Nat
  BY RecordFields, ProposalFields DEF ApprovalTypeOK
<1>1. ASSUME NEW i \in ProposalIds, NEW p \in Proposals, register_proposal(i, p) PROVE ApprovalInv'
  <2>1. RecordsTrue'
    BY <1>1 DEF register_proposal, ApprovalInv, RecordsTrue
  <2>2. ASSUME NEW k \in superseded'
        PROVE  /\ decisions'[k] # Nothing
               /\ proposals'[decisions'[k].proposal_id] # Nothing
               /\ decisions'[k].proposal.version < proposals'[decisions'[k].proposal_id].version
    <3>1. /\ decisions' = decisions /\ proposals' = [proposals EXCEPT ![i] = p]
          /\ proposals[i] # Nothing => p.version >= proposals[i].version
          /\ p # Nothing /\ p.version \in Nat
      BY <1>1, ProposalFields, ApprovalAssumption DEF register_proposal
    <3>2. CASE k \in superseded
      <4>1. /\ k \in DecisionKeys /\ decisions[k] # Nothing
            /\ proposals[decisions[k].proposal_id] # Nothing
            /\ decisions[k].proposal.version < proposals[decisions[k].proposal_id].version
        BY <3>2 DEF ApprovalInv, StayBehind, ApprovalTypeOK
      <4>2. CASE decisions[k].proposal_id = i
        <5>1. proposals[i].version \in Nat
          BY <4>1, <4>2, ProposalFields DEF ApprovalTypeOK
        <5> QED
          BY <1>0, <3>1, <4>1, <4>2, <5>1 DEF ApprovalTypeOK
      <4>3. CASE decisions[k].proposal_id # i
        BY <1>0, <3>1, <4>1, <4>3 DEF ApprovalTypeOK
      <4> QED
        BY <4>2, <4>3
    <3>3. CASE k \notin superseded
      <4>1. /\ k \in DecisionKeys /\ decisions[k] # Nothing /\ decisions[k].proposal_id = i
            /\ decisions[k].proposal.version < p.version
        BY <1>1, <2>2, <3>3 DEF register_proposal
      <4> QED
        BY <3>1, <4>1 DEF ApprovalTypeOK
    <3> QED
      BY <3>2, <3>3
  <2> QED
    BY <2>1, <2>2 DEF ApprovalInv, StayBehind
<1>2. ASSUME NEW i \in ProposalIds, NEW k \in DecisionKeys, NEW v \in 1 .. MaxRevision, NEW s \in Scopes,
             NEW d \in Asked, NEW a \in Authors, NEW assurance \in Assurances,
             NEW stepped_up \in BOOLEAN, decide(k, i, v, s, d, a, assurance, stepped_up)
      PROVE  ApprovalInv'
  <2>1. proposals[i] \in Proposals /\ d \in VALID_DECISIONS
        /\ (proposals[i].risk = "HIGH" => assurance = proposals[i].required_assurance /\ stepped_up)
    BY <1>2 DEF decide, Decidable, ApprovalTypeOK
  <2> DEFINE r == [approval_id |-> counter + 1, proposal_id |-> i, proposal |-> proposals[i],
                   decision |-> d, actor |-> a, assurance |-> assurance, stepped_up |-> stepped_up]
  <2>2. r # Nothing /\ r.proposal = proposals[i] /\ r.assurance = assurance /\ r.stepped_up = stepped_up
    BY <2>1, NewRecord DEF ApprovalTypeOK
  <2>3. decisions' = [decisions EXCEPT ![k] = r] /\ decisions[k] = Nothing
        /\ UNCHANGED <<proposals, superseded>>
    BY <1>2 DEF decide
  <2> HIDE DEF r
  <2>4. RecordsTrue'
    BY <2>1, <2>2, <2>3 DEF ApprovalTypeOK, ApprovalInv, RecordsTrue
  <2>5. StayBehind'
    BY <2>3 DEF ApprovalTypeOK, ApprovalInv, StayBehind
  <2> QED
    BY <2>4, <2>5 DEF ApprovalInv
<1>3. CASE UNCHANGED approvalVars
  BY <1>3 DEF approvalVars, ApprovalInv, RecordsTrue, StayBehind
<1> QED
  BY <1>1, <1>2, <1>3 DEF ApprovalNext

LEMMA ApprovalInvHolds == ApprovalSpec => [](ApprovalTypeOK /\ ApprovalInv)
<1>1. ApprovalInit => ApprovalInv
  BY DEF ApprovalInit, ApprovalInv, RecordsTrue, StayBehind
<1> QED
  BY <1>1, ApprovalInvStep, ApprovalsTypeCorrect, PTL DEF ApprovalSpec

(* An approval that holds for a high-risk content was stepped up for it.   *)
THEOREM SteppedUp == ApprovalSpec => []ApprovalIsSteppedUp
<1>1. ApprovalTypeOK /\ ApprovalInv => ApprovalIsSteppedUp
  BY DEF ApprovalInv, RecordsTrue, ApprovalIsSteppedUp, Standing, is_valid_for_current_proposal
<1> QED
  BY <1>1, ApprovalInvHolds, PTL

(* No later registration brings a superseded approval back.                *)
THEOREM NeverRevived == ApprovalSpec => []SupersededForGood
<1>1. ApprovalTypeOK /\ ApprovalInv => SupersededForGood
  <2> SUFFICES ASSUME ApprovalTypeOK, ApprovalInv, NEW k \in superseded, Standing(k) PROVE FALSE
    BY DEF SupersededForGood
  <2>1. /\ k \in DecisionKeys /\ decisions[k] # Nothing /\ proposals[decisions[k].proposal_id] # Nothing
        /\ decisions[k].proposal.version < proposals[decisions[k].proposal_id].version
        /\ decisions[k].proposal.version = proposals[decisions[k].proposal_id].version
    BY DEF ApprovalInv, StayBehind, ApprovalTypeOK, Standing, is_valid_for_current_proposal
  <2>2. proposals[decisions[k].proposal_id].version \in Nat
    BY <2>1, RecordFields, ProposalFields DEF ApprovalTypeOK
  <2> QED
    BY <2>1, <2>2
<1> QED
  BY <1>1, ApprovalInvHolds, PTL

(* The ids of the records are numbers given out, each to one record.       *)
IdsCounted ==
  /\ \A k \in DecisionKeys : decisions[k] # Nothing => decisions[k].approval_id <= counter
  /\ \A k, l \in DecisionKeys : k # l /\ decisions[k] # Nothing /\ decisions[l] # Nothing =>
       decisions[k].approval_id # decisions[l].approval_id

LEMMA RecordStays ==
  ASSUME ApprovalTypeOK, IdsCounted, [ApprovalNext]_approvalVars
  PROVE  /\ IdsCounted'
         /\ \A k \in DecisionKeys : decisions[k] # Nothing => decisions'[k] = decisions[k]
<1>1. CASE UNCHANGED <<decisions, counter>>
  BY <1>1 DEF IdsCounted
<1>2. ASSUME NEW i \in ProposalIds, NEW k \in DecisionKeys, NEW v \in 1 .. MaxRevision, NEW s \in Scopes,
             NEW d \in Asked, NEW a \in Authors, NEW assurance \in Assurances,
             NEW stepped_up \in BOOLEAN, decide(k, i, v, s, d, a, assurance, stepped_up)
      PROVE  /\ IdsCounted'
             /\ \A l \in DecisionKeys : decisions[l] # Nothing => decisions'[l] = decisions[l]
  <2> DEFINE r == [approval_id |-> counter + 1, proposal_id |-> i, proposal |-> proposals[i],
                   decision |-> d, actor |-> a, assurance |-> assurance, stepped_up |-> stepped_up]
  <2>1. /\ decisions' = [decisions EXCEPT ![k] = r] /\ decisions[k] = Nothing
        /\ counter' = counter + 1 /\ r.approval_id = counter + 1 /\ counter \in Nat
    BY <1>2 DEF decide, ApprovalTypeOK
  <2> HIDE DEF r
  <2>2. \A l \in DecisionKeys : decisions'[l] = IF l = k THEN r ELSE decisions[l]
    BY <2>1 DEF ApprovalTypeOK
  <2>3. \A l \in DecisionKeys : decisions[l] # Nothing =>
          decisions[l].approval_id \in Nat /\ decisions[l].approval_id <= counter
    BY DEF ApprovalTypeOK, IdsCounted, Records
  <2>4. \A l \in DecisionKeys : decisions'[l] # Nothing => decisions'[l].approval_id <= counter'
    BY <2>1, <2>2, <2>3
  <2>5. \A l, m \in DecisionKeys : l # m /\ decisions'[l] # Nothing /\ decisions'[m] # Nothing =>
          decisions'[l].approval_id # decisions'[m].approval_id
    BY <2>1, <2>2, <2>3 DEF IdsCounted
  <2> QED
    BY <2>1, <2>2, <2>4, <2>5 DEF IdsCounted
<1>3. ASSUME NEW i \in ProposalIds, NEW p \in Proposals, register_proposal(i, p)
      PROVE  UNCHANGED <<decisions, counter>>
  BY <1>3 DEF register_proposal
<1> QED
  BY <1>1, <1>2, <1>3 DEF ApprovalNext, approvalVars

(* A decision is filed under its key once, with an id of its own.          *)
THEOREM DecisionsAlwaysStand == ApprovalSpec => DecisionsStand
<1>1. ApprovalInit => IdsCounted
  BY DEF ApprovalInit, IdsCounted
<1>2. ApprovalTypeOK /\ IdsCounted /\ [ApprovalNext]_approvalVars => IdsCounted'
  BY RecordStays
<1>3. ApprovalTypeOK /\ IdsCounted /\ [ApprovalNext]_approvalVars =>
        [/\ \A k \in DecisionKeys : decisions[k] # Nothing => decisions'[k] = decisions[k]
         /\ \A k, l \in DecisionKeys : k # l /\ decisions'[k] # Nothing /\ decisions'[l] # Nothing
              => decisions'[k].approval_id # decisions'[l].approval_id]_approvalVars
  BY RecordStays DEF IdsCounted
<1> QED
  BY <1>1, <1>2, <1>3, ApprovalsTypeCorrect, PTL DEF ApprovalSpec, DecisionsStand

----------------------------------------------------------------------------
(* RootSecurity: types.                                                    *)

(* What a call works on is what its first step found.                      *)
HoldsTyped ==
  \A c \in Callers :
    /\ at[c] = "audit"  => holds[c] \in RootIds
    /\ at[c] = "enroll" => holds[c] \in ChallengeIds
    /\ at[c] = "submit" => holds[c] \in SessionIds

SecTypes == SecTypeOK /\ HoldsTyped

LEMMA EmptyRows ==
  NoChallenge \in ChallengeRows /\ NoDevice \in DeviceRows /\ NoSession \in SessionRows
    /\ NoContext \in Contexts
  BY DEF ChallengeRows, DeviceRows, SessionRows, Contexts, Assurance,
     NoChallenge, NoDevice, NoSession, NoContext

LEMMA ChallengeUpdates ==
  ASSUME NEW x \in ChallengeRows
  PROVE  /\ [x EXCEPT !.consumed = TRUE] \in ChallengeRows
         /\ [x EXCEPT !.expired = TRUE] \in ChallengeRows
         /\ \A r \in RootIds : [x EXCEPT !.root = r] \in ChallengeRows
  BY DEF ChallengeRows

LEMMA SessionUpdates ==
  ASSUME NEW x \in SessionRows
  PROVE  [x EXCEPT !.revoked = TRUE] \in SessionRows /\ [x EXCEPT !.expired = TRUE] \in SessionRows
  BY DEF SessionRows

LEMMA OtherUpdates ==
  /\ \A x \in DeviceRows : [x EXCEPT !.trust = "REVOKED"] \in DeviceRows
  /\ \A x \in Contexts : [x EXCEPT !.assurance = "ELEVATED"] \in Contexts
  BY DEF DeviceRows, Contexts, Assurance

LEMMA BootstrapTypes ==
  ASSUME SecTypes, NEW c \in Callers, CheckBootstrap(c) \/ InsertRoot(c) \/ AuditRoot(c)
  PROVE  SecTypes'
<1> USE SecurityAssumption DEF SecTypes, SecTypeOK, HoldsTyped, Go, Return, secStore
<1>1. CASE CheckBootstrap(c)
  BY <1>1 DEF CheckBootstrap
<1>2. CASE InsertRoot(c)
  BY <1>2 DEF InsertRoot
<1>3. CASE AuditRoot(c)
  BY <1>3 DEF AuditRoot
<1> QED
  BY <1>1, <1>2, <1>3

LEMMA DeviceTypes ==
  ASSUME SecTypes, NEW c \in Callers,
         create_challenge(c) \/ CheckChallenge(c) \/ InsertDevice(c) \/ RevokeDevice(c)
  PROVE  SecTypes'
<1> USE SecurityAssumption DEF SecTypes, SecTypeOK, HoldsTyped, Go, Return, secStore
<1>1. CASE create_challenge(c)
  <2>1. PICK i \in ChallengeIds, r \in RootIds :
          challenges' = [challenges EXCEPT ![i] = [NoChallenge EXCEPT !.root = r]]
    BY <1>1 DEF create_challenge
  <2>2. [NoChallenge EXCEPT !.root = r] \in ChallengeRows
    BY EmptyRows, ChallengeUpdates
  <2>3. challenges' \in [ChallengeIds -> ChallengeRows]
    BY <2>1, <2>2
  <2> QED
    BY <1>1, <2>3 DEF create_challenge
<1>2. CASE CheckChallenge(c)
  BY <1>2 DEF CheckChallenge, Open
<1>3. CASE InsertDevice(c)
  <2>1. /\ at[c] = "enroll" /\ at' = [at EXCEPT ![c] = "idle"]
        /\ holds' = [holds EXCEPT ![c] = Nobody]
        /\ challenges' = [challenges EXCEPT ![holds[c]].consumed = TRUE]
        /\ UNCHANGED <<roots, closed, audited, sessions, failures, contexts,
                       secRestarts, late, known, failed>>
    BY <1>3 DEF InsertDevice
  <2>2. PICK d \in DeviceIds :
          /\ devices' = [devices EXCEPT ![d] = [root |-> challenges[holds[c]].root,
                                                challenge |-> holds[c], trust |-> "TRUSTED"]]
          /\ by' = [by EXCEPT ![d] = c]
    BY <1>3 DEF InsertDevice
  <2>3. holds[c] \in ChallengeIds /\ challenges[holds[c]] \in ChallengeRows
    BY <2>1
  <2>4. [challenges[holds[c]] EXCEPT !.consumed = TRUE] \in ChallengeRows
    BY <2>3, ChallengeUpdates
  <2>5. [root |-> challenges[holds[c]].root, challenge |-> holds[c], trust |-> "TRUSTED"]
          \in DeviceRows
    BY <2>3 DEF ChallengeRows, DeviceRows
  <2>6. challenges' \in [ChallengeIds -> ChallengeRows] /\ devices' \in [DeviceIds -> DeviceRows]
    BY <2>1, <2>2, <2>4, <2>5
  <2> QED
    BY <2>1, <2>2, <2>6
<1>4. CASE RevokeDevice(c)
  <2>1. PICK d \in DeviceIds :
          /\ devices' = [devices EXCEPT ![d].trust = "REVOKED"]
          /\ sessions' = [s \in SessionIds |->
               IF sessions[s].device = d THEN [sessions[s] EXCEPT !.revoked = TRUE]
                                         ELSE sessions[s]]
    BY <1>4 DEF RevokeDevice
  <2>2. devices' \in [DeviceIds -> DeviceRows] /\ sessions' \in [SessionIds -> SessionRows]
    BY <2>1, OtherUpdates, SessionUpdates
  <2> QED
    BY <1>4, <2>2 DEF RevokeDevice
<1> QED
  BY <1>1, <1>2, <1>3, <1>4

LEMMA AuthenticationTypes ==
  ASSUME SecTypes, NEW c \in Callers, authenticate(c) \/ require_step_up(c)
  PROVE  SecTypes'
<1> USE SecurityAssumption DEF SecTypes, SecTypeOK, HoldsTyped, secStore
<1>1. ASSUME authenticate(c) PROVE SecTypes'
  <2>1. PICK r \in RootIds, d \in DeviceIds, password \in BOOLEAN :
          IF OkDevice(r, d) /\ r \in roots /\ password
            THEN /\ contexts' = [contexts EXCEPT ![c] =
                      [root |-> r, device |-> d, assurance |-> "PRIMARY_AUTHENTICATED"]]
                 /\ failures' = [failures EXCEPT ![c][<<r, d>>] = 0]
                 /\ UNCHANGED failed
            ELSE /\ secRestarts + failed < MaxTroubles /\ failed' = failed + 1
                 /\ failures' = [failures EXCEPT ![c][<<r, d>>] = @ + 1]
                 /\ UNCHANGED contexts
    BY <1>1 DEF authenticate
  <2>2. /\ UNCHANGED <<roots, closed, audited, challenges, devices, sessions, at, holds,
                       secRestarts, late, known, by>>
    BY <1>1 DEF authenticate
  <2>3. <<r, d>> \in FailureKeys
    BY DEF FailureKeys
  <2>4. failures' \in [Callers -> [FailureKeys -> Nat]]
    <3>1. failures[c] \in [FailureKeys -> Nat]
      OBVIOUS
    <3>2. failures[c][<<r, d>>] \in Nat
      BY <2>3, <3>1
    <3>3. PICK n \in Nat : failures' = [failures EXCEPT ![c] = [failures[c] EXCEPT ![<<r, d>>] = n]]
      <4>1. failures[c][<<r, d>>] + 1 \in Nat /\ 0 \in Nat
        BY <3>2
      <4> QED
        BY <2>1, <4>1
    <3>4. [failures[c] EXCEPT ![<<r, d>>] = n] \in [FailureKeys -> Nat]
      BY <2>3, <3>1, <3>3
    <3> QED
      BY <3>3, <3>4
  <2>5. contexts' \in [Callers -> Contexts]
    <3>1. [root |-> r, device |-> d, assurance |-> "PRIMARY_AUTHENTICATED"] \in Contexts
      BY DEF Contexts, Assurance
    <3> QED
      BY <2>1, <3>1
  <2>6. failed' \in 0 .. MaxTroubles
    BY <2>1
  <2> QED
    BY <2>2, <2>4, <2>5, <2>6
<1>2. ASSUME require_step_up(c) PROVE SecTypes'
  <2>1. contexts' = [contexts EXCEPT ![c] = [contexts[c] EXCEPT !.assurance = "ELEVATED"]]
    BY <1>2 DEF require_step_up
  <2>2. contexts' \in [Callers -> Contexts]
    BY <2>1, OtherUpdates
  <2> QED
    BY <1>2, <2>2 DEF require_step_up
<1> QED
  BY <1>1, <1>2

LEMMA SessionTypes ==
  ASSUME SecTypes, NEW c \in Callers,
         \/ CheckDevice(c) \/ InsertSession(c) \/ RevokeSession(c) \/ global_revoke(c)
         \/ ValidateRequest(c) \/ PersistRequest(c)
  PROVE  SecTypes'
<1> USE SecurityAssumption DEF SecTypes, SecTypeOK, HoldsTyped, Go, Return, secStore
<1>1. CASE CheckDevice(c)
  BY <1>1 DEF CheckDevice
<1>2. CASE InsertSession(c)
  <2>1. PICK s \in SessionIds : sessions' = [sessions EXCEPT ![s] =
            [root |-> contexts[c].root, device |-> contexts[c].device,
             assurance |-> contexts[c].assurance, revoked |-> FALSE, expired |-> FALSE]]
    BY <1>2 DEF InsertSession
  <2>2. sessions' \in [SessionIds -> SessionRows]
    BY <2>1 DEF Contexts, SessionRows
  <2> QED
    BY <1>2, <2>2 DEF InsertSession
<1>3. CASE RevokeSession(c) \/ global_revoke(c)
  <2>1. sessions' \in [SessionIds -> SessionRows]
    <3>1. CASE RevokeSession(c)
      <4>1. PICK s \in SessionIds : sessions' = [sessions EXCEPT ![s] = [sessions[s] EXCEPT !.revoked = TRUE]]
        BY <3>1 DEF RevokeSession
      <4> QED
        BY <4>1, SessionUpdates
    <3>2. CASE global_revoke(c)
      <4>1. PICK r \in roots :
              sessions' = [s \in SessionIds |->
                IF sessions[s].root = r THEN [sessions[s] EXCEPT !.revoked = TRUE] ELSE sessions[s]]
        BY <3>2 DEF global_revoke
      <4> QED
        BY <4>1, SessionUpdates
    <3> QED
      BY <1>3, <3>1, <3>2
  <2> QED
    BY <1>3, <2>1 DEF RevokeSession, global_revoke
<1>4. CASE ValidateRequest(c)
  BY <1>4 DEF ValidateRequest, ValidSession
<1>5. CASE PersistRequest(c)
  <2>1. late' \in [Callers -> [SessionIds -> Nat]]
    <3>1. holds[c] \in SessionIds /\ late[c] \in [SessionIds -> Nat]
      BY <1>5 DEF PersistRequest
    <3>2. [late[c] EXCEPT ![holds[c]] = @ + 1] \in [SessionIds -> Nat]
      BY <3>1
    <3>3. CASE late' = late
      BY <3>3
    <3>4. CASE late' = [late EXCEPT ![c][holds[c]] = @ + 1]
      BY <3>2, <3>4
    <3>5. late' = late \/ late' = [late EXCEPT ![c][holds[c]] = @ + 1]
      BY <1>5 DEF PersistRequest
    <3> QED
      BY <3>3, <3>4, <3>5
  <2> QED
    BY <1>5, <2>1 DEF PersistRequest
<1> QED
  BY <1>1, <1>2, <1>3, <1>4, <1>5

LEMMA OtherTypes ==
  ASSUME SecTypes, Expire \/ \E c \in Callers : RestartCaller(c)
  PROVE  SecTypes'
<1> USE SecurityAssumption DEF SecTypes, SecTypeOK, HoldsTyped, Go, Return, secStore
<1>1. CASE Expire
  <2>1. challenges' \in [ChallengeIds -> ChallengeRows] /\ sessions' \in [SessionIds -> SessionRows]
    <3>1. ASSUME NEW i \in ChallengeIds, challenges' = [challenges EXCEPT ![i].expired = TRUE]
          PROVE  challenges' \in [ChallengeIds -> ChallengeRows]
      BY <3>1, ChallengeUpdates
    <3>2. ASSUME NEW s \in SessionIds, sessions' = [sessions EXCEPT ![s].expired = TRUE]
          PROVE  sessions' \in [SessionIds -> SessionRows]
      BY <3>2, SessionUpdates
    <3> QED
      BY <1>1, <3>1, <3>2 DEF Expire
  <2> QED
    BY <1>1, <2>1 DEF Expire
<1>2. ASSUME NEW c \in Callers, RestartCaller(c) PROVE SecTypes'
  BY <1>2, EmptyRows DEF RestartCaller
<1> QED
  BY <1>1, <1>2

LEMMA SecurityTypesHold == SecSpec => []SecTypes
<1>1. SecInit => SecTypes
  <2> SUFFICES ASSUME SecInit PROVE SecTypes
    OBVIOUS
  <2>1. /\ challenges \in [ChallengeIds -> ChallengeRows] /\ devices \in [DeviceIds -> DeviceRows]
        /\ sessions \in [SessionIds -> SessionRows] /\ contexts \in [Callers -> Contexts]
    BY EmptyRows DEF SecInit
  <2>2. /\ failures \in [Callers -> [FailureKeys -> Nat]] /\ late \in [Callers -> [SessionIds -> Nat]]
    BY DEF SecInit
  <2>3. HoldsTyped
    BY DEF SecInit, HoldsTyped
  <2>4. by \in [RootIds \cup DeviceIds -> Callers \cup {Nobody}]
    BY DEF SecInit
  <2>5. /\ at \in [Callers -> {"idle", "bootstrap", "audit", "enroll", "issue", "submit"}]
        /\ holds \in [Callers -> RootIds \cup ChallengeIds \cup SessionIds \cup {Nobody}]
    BY DEF SecInit
  <2>6. roots = {} /\ audited = {} /\ known = {} /\ closed \in BOOLEAN
    BY DEF SecInit
  <2>7. secRestarts \in 0 .. MaxTroubles /\ failed \in 0 .. MaxTroubles
    <3>1. secRestarts = 0 /\ failed = 0 /\ MaxTroubles \in Nat
      BY SecurityAssumption DEF SecInit
    <3> QED
      BY <3>1
  <2> QED
    BY <2>1, <2>2, <2>3, <2>4, <2>5, <2>6, <2>7 DEF SecTypes, SecTypeOK
<1>2. SecTypes /\ [SecNext]_secVars => SecTypes'
  <2>1. SecTypes /\ UNCHANGED secVars => SecTypes'
    BY DEF SecTypes, SecTypeOK, HoldsTyped, secVars, secStore
  <2> QED
    BY <2>1, BootstrapTypes, DeviceTypes, AuthenticationTypes, SessionTypes, OtherTypes DEF SecNext
<1> QED
  BY <1>1, <1>2, PTL DEF SecSpec

(* Every variable keeps its type.                                          *)
THEOREM SecurityTyped == SecSpec => []SecTypeOK
<1>1. SecTypes => SecTypeOK
  BY DEF SecTypes
<1> QED
  BY <1>1, SecurityTypesHold, PTL

----------------------------------------------------------------------------
(* RootSecurity: the chain a session stands on.                            *)

(* Rows name rows that exist and were used as they should.                 *)
RowsStand ==
  /\ roots # {} => closed
  /\ \A i \in ChallengeIds : challenges[i] # NoChallenge => challenges[i].root \in RootIds
  /\ \A d \in DeviceIds : devices[d] # NoDevice =>
       /\ devices[d].root \in RootIds /\ devices[d].challenge \in ChallengeIds
       /\ challenges[devices[d].challenge].root = devices[d].root
       /\ challenges[devices[d].challenge].consumed

(* So does what a call or a context has found.                             *)
CallsStand ==
  \A c \in Callers :
    /\ at[c] = "enroll" => challenges[holds[c]].root \in RootIds
    /\ at[c] = "issue" => contexts[c] # NoContext
    /\ contexts[c] # NoContext =>
         /\ contexts[c].root \in roots /\ contexts[c].device \in DeviceIds
         /\ devices[contexts[c].device] # NoDevice
         /\ devices[contexts[c].device].root = contexts[c].root

ChainInv == RowsStand /\ CallsStand /\ ChainStands

(* What a step may do to the rows: nothing is taken back.                  *)
StoreMoves ==
  /\ roots \subseteq roots' /\ (closed => closed')
  /\ \A i \in ChallengeIds : challenges[i] # NoChallenge =>
       /\ challenges'[i].root = challenges[i].root
       /\ challenges[i].consumed => challenges'[i].consumed
  /\ \A d \in DeviceIds : devices[d] # NoDevice =>
       /\ devices'[d] # NoDevice
       /\ devices'[d].root = devices[d].root /\ devices'[d].challenge = devices[d].challenge
       /\ devices'[d].trust = "TRUSTED" => devices[d].trust = "TRUSTED"
  /\ \A s \in SessionIds : sessions[s] # NoSession =>
       /\ sessions'[s].root = sessions[s].root /\ sessions'[s].device = sessions[s].device
       /\ sessions[s].revoked => sessions'[s].revoked
       /\ sessions[s].expired => sessions'[s].expired

LEMMA StoreStep ==
  ASSUME SecTypes, [SecNext]_secVars
  PROVE  StoreMoves
<1> USE DEF SecTypes, SecTypeOK
<1>1. CASE UNCHANGED <<roots, closed, challenges, devices, sessions>>
  BY <1>1 DEF StoreMoves
<1>2. ASSUME NEW c \in Callers, InsertRoot(c) PROVE StoreMoves
  BY <1>2 DEF InsertRoot, StoreMoves
<1>3. ASSUME NEW c \in Callers, create_challenge(c) PROVE StoreMoves
  BY <1>3 DEF create_challenge, StoreMoves, NoChallenge
<1>4. ASSUME NEW c \in Callers, InsertDevice(c) PROVE StoreMoves
  BY <1>4 DEF InsertDevice, StoreMoves
<1>5. ASSUME NEW c \in Callers, RevokeDevice(c) PROVE StoreMoves
  BY <1>5 DEF RevokeDevice, StoreMoves, NoDevice
<1>6. ASSUME NEW c \in Callers, InsertSession(c) PROVE StoreMoves
  BY <1>6 DEF InsertSession, StoreMoves
<1>7. ASSUME NEW c \in Callers, RevokeSession(c) \/ global_revoke(c) PROVE StoreMoves
  <2>1. CASE RevokeSession(c)
    BY <2>1 DEF RevokeSession, StoreMoves, SessionRows
  <2>2. CASE global_revoke(c)
    BY <2>2 DEF global_revoke, StoreMoves, SessionRows
  <2> QED
    BY <1>7, <2>1, <2>2
<1>8. ASSUME Expire PROVE StoreMoves
  <2>1. CASE \E i \in ChallengeIds : challenges' = [challenges EXCEPT ![i].expired = TRUE]
                                     /\ UNCHANGED <<roots, closed, devices, sessions>>
    BY <2>1 DEF StoreMoves, ChallengeRows
  <2>2. CASE \E s \in SessionIds : sessions' = [sessions EXCEPT ![s].expired = TRUE]
                                   /\ UNCHANGED <<roots, closed, devices, challenges>>
    BY <2>2 DEF StoreMoves, SessionRows
  <2> QED
    BY <1>8, <2>1, <2>2 DEF Expire
<1>9. ASSUME NEW c \in Callers,
             \/ CheckBootstrap(c) \/ AuditRoot(c) \/ CheckChallenge(c) \/ authenticate(c)
             \/ require_step_up(c) \/ CheckDevice(c) \/ ValidateRequest(c) \/ PersistRequest(c)
             \/ RestartCaller(c)
      PROVE  UNCHANGED <<roots, closed, challenges, devices, sessions>>
  BY <1>9 DEF CheckBootstrap, AuditRoot, CheckChallenge, authenticate, require_step_up,
     CheckDevice, ValidateRequest, PersistRequest, RestartCaller, secStore
<1>10. UNCHANGED secVars => UNCHANGED <<roots, closed, challenges, devices, sessions>>
  BY DEF secVars, secStore
<1> QED
  BY <1>1, <1>2, <1>3, <1>4, <1>5, <1>6, <1>7, <1>8, <1>9, <1>10 DEF SecNext

(* The rows that a step adds.                                              *)
LEMMA RowsAdded ==
  ASSUME SecTypes, CallsStand, [SecNext]_secVars
  PROVE  /\ roots' = roots \/ closed'
         /\ \A i \in ChallengeIds : challenges[i] = NoChallenge =>
              challenges'[i] = NoChallenge \/ challenges'[i].root \in RootIds
         /\ \A d \in DeviceIds : devices[d] = NoDevice => \/ devices'[d] = NoDevice
              \/ \E c \in Callers :
                   /\ at[c] = "enroll" /\ challenges'[holds[c]].consumed
                   /\ devices'[d].root = challenges[holds[c]].root
                   /\ devices'[d].challenge = holds[c]
         /\ \A s \in SessionIds : sessions[s] = NoSession => \/ sessions'[s] = NoSession
              \/ \E c \in Callers :
                   /\ at[c] = "issue" /\ UNCHANGED <<roots, closed, devices, challenges>>
                   /\ sessions'[s].root = contexts[c].root
                   /\ sessions'[s].device = contexts[c].device
<1> DEFINE Goal ==
      /\ roots' = roots \/ closed'
      /\ \A i \in ChallengeIds : challenges[i] = NoChallenge =>
           challenges'[i] = NoChallenge \/ challenges'[i].root \in RootIds
      /\ \A d \in DeviceIds : devices[d] = NoDevice => \/ devices'[d] = NoDevice
           \/ \E c \in Callers :
                /\ at[c] = "enroll" /\ challenges'[holds[c]].consumed
                /\ devices'[d].root = challenges[holds[c]].root
                /\ devices'[d].challenge = holds[c]
      /\ \A s \in SessionIds : sessions[s] = NoSession => \/ sessions'[s] = NoSession
           \/ \E c \in Callers :
                /\ at[c] = "issue" /\ UNCHANGED <<roots, closed, devices, challenges>>
                /\ sessions'[s].root = contexts[c].root
                /\ sessions'[s].device = contexts[c].device
<1> USE DEF SecTypes, SecTypeOK
<1>1. CASE UNCHANGED <<roots, closed, challenges, devices, sessions>>
  BY <1>1
<1>2. ASSUME NEW c \in Callers, InsertRoot(c) PROVE Goal
  BY <1>2 DEF InsertRoot
<1>3. ASSUME NEW c \in Callers, create_challenge(c) PROVE Goal
  BY <1>3 DEF create_challenge, NoChallenge
<1>4. ASSUME NEW c \in Callers, InsertDevice(c) PROVE Goal
  <2>1. /\ at[c] = "enroll" /\ UNCHANGED <<roots, closed, sessions>>
        /\ challenges' = [challenges EXCEPT ![holds[c]].consumed = TRUE]
        /\ holds[c] \in ChallengeIds /\ challenges[holds[c]].root \in RootIds
    BY <1>4 DEF InsertDevice, HoldsTyped, CallsStand
  <2>2. PICK d \in DeviceIds : devices' = [devices EXCEPT ![d] =
            [root |-> challenges[holds[c]].root, challenge |-> holds[c], trust |-> "TRUSTED"]]
    BY <1>4 DEF InsertDevice
  <2>3. challenges'[holds[c]].consumed
    BY <2>1
  <2>4. \A i \in ChallengeIds : challenges[i] = NoChallenge =>
          challenges'[i] = NoChallenge \/ challenges'[i].root \in RootIds
    <3>1. NoChallenge.root \notin RootIds
      BY SecurityAssumption DEF NoChallenge
    <3> QED
      BY <2>1, <3>1
  <2> QED
    BY <2>1, <2>2, <2>3, <2>4
<1>5. ASSUME NEW c \in Callers, RevokeDevice(c) PROVE Goal
  <2>1. NoSession.device \notin DeviceIds
    BY SecurityAssumption DEF NoSession
  <2> QED
    BY <1>5, <2>1 DEF RevokeDevice
<1>6. ASSUME NEW c \in Callers, InsertSession(c) PROVE Goal
  BY <1>6 DEF InsertSession
<1>7. ASSUME NEW c \in Callers, RevokeSession(c) \/ global_revoke(c) PROVE Goal
  <2>1. NoSession.root \notin RootIds
    BY SecurityAssumption DEF NoSession
  <2>2. CASE RevokeSession(c)
    BY <2>2 DEF RevokeSession
  <2>3. CASE global_revoke(c)
    BY <2>1, <2>3 DEF global_revoke
  <2> QED
    BY <1>7, <2>2, <2>3
<1>8. ASSUME Expire PROVE Goal
  <2>1. NoChallenge.root = Nobody
    BY DEF NoChallenge
  <2> QED
    BY <1>8, <2>1 DEF Expire, Open, ValidSession
<1>9. ASSUME NEW c \in Callers,
             \/ CheckBootstrap(c) \/ AuditRoot(c) \/ CheckChallenge(c) \/ authenticate(c)
             \/ require_step_up(c) \/ CheckDevice(c) \/ ValidateRequest(c) \/ PersistRequest(c)
             \/ RestartCaller(c)
      PROVE  UNCHANGED <<roots, closed, challenges, devices, sessions>>
  BY <1>9 DEF CheckBootstrap, AuditRoot, CheckChallenge, authenticate, require_step_up,
     CheckDevice, ValidateRequest, PersistRequest, RestartCaller, secStore
<1>10. UNCHANGED secVars => UNCHANGED <<roots, closed, challenges, devices, sessions>>
  BY DEF secVars, secStore
<1> QED
  BY <1>1, <1>2, <1>3, <1>4, <1>5, <1>6, <1>7, <1>8, <1>9, <1>10 DEF SecNext

LEMMA RowsStep ==
  ASSUME SecTypes, RowsStand, CallsStand, [SecNext]_secVars
  PROVE  RowsStand'
<1>0. StoreMoves
  BY StoreStep
<1>1. roots' # {} => closed'
  BY <1>0, RowsAdded DEF RowsStand, StoreMoves
<1>2. ASSUME NEW i \in ChallengeIds, challenges'[i] # NoChallenge
      PROVE  challenges'[i].root \in RootIds
  BY <1>0, <1>2, RowsAdded DEF RowsStand, StoreMoves
<1>3. ASSUME NEW d \in DeviceIds, devices'[d] # NoDevice
      PROVE  /\ devices'[d].root \in RootIds /\ devices'[d].challenge \in ChallengeIds
             /\ challenges'[devices'[d].challenge].root = devices'[d].root
             /\ challenges'[devices'[d].challenge].consumed
  <2>1. NoChallenge.root \notin RootIds
    BY SecurityAssumption DEF NoChallenge
  <2>2. CASE devices[d] # NoDevice
    <3> DEFINE i == devices[d].challenge
    <3>1. /\ i \in ChallengeIds /\ devices[d].root \in RootIds
          /\ challenges[i].root = devices[d].root /\ challenges[i].consumed
      BY <2>2 DEF RowsStand
    <3>2. devices'[d].root = devices[d].root /\ devices'[d].challenge = i
      BY <1>0, <2>2 DEF StoreMoves
    <3>3. challenges[i] # NoChallenge
      BY <2>1, <3>1
    <3>4. challenges'[i].root = challenges[i].root /\ challenges'[i].consumed
      BY <1>0, <3>1, <3>3 DEF StoreMoves
    <3> HIDE DEF i
    <3> QED
      BY <3>1, <3>2, <3>4
  <2>3. CASE devices[d] = NoDevice
    <3>1. PICK c \in Callers : /\ at[c] = "enroll" /\ challenges'[holds[c]].consumed
                               /\ devices'[d].root = challenges[holds[c]].root
                               /\ devices'[d].challenge = holds[c]
      BY <1>3, <2>3, RowsAdded
    <3>2. holds[c] \in ChallengeIds /\ challenges[holds[c]].root \in RootIds
      BY <3>1 DEF SecTypes, HoldsTyped, CallsStand
    <3>3. challenges'[holds[c]].root = challenges[holds[c]].root
      BY <1>0, <2>1, <3>2 DEF StoreMoves
    <3> QED
      BY <3>1, <3>2, <3>3
  <2> QED
    BY <2>2, <2>3
<1> QED
  BY <1>1, <1>2, <1>3 DEF RowsStand

(* Where a call goes, and the contexts that authentication hands out.      *)
LEMMA CallMoves ==
  ASSUME SecTypes, [SecNext]_secVars, NEW c \in Callers
  PROVE  /\ (at'[c] = "enroll" /\ ~(at[c] = "enroll" /\ holds'[c] = holds[c]))
            => Open(holds'[c]) /\ holds'[c] \in ChallengeIds
         /\ at'[c] = "issue" => /\ contexts'[c] = contexts[c]
                               /\ (at[c] = "issue" \/ contexts[c] # NoContext)
         /\ \/ contexts'[c] = NoContext
            \/ contexts'[c] = contexts[c]
            \/ /\ contexts[c] # NoContext /\ contexts'[c].root = contexts[c].root
               /\ contexts'[c].device = contexts[c].device
            \/ /\ contexts'[c].root \in roots /\ contexts'[c].device \in DeviceIds
               /\ OkDevice(contexts'[c].root, contexts'[c].device)
<1> DEFINE Goal ==
      /\ (at'[c] = "enroll" /\ ~(at[c] = "enroll" /\ holds'[c] = holds[c]))
         => Open(holds'[c]) /\ holds'[c] \in ChallengeIds
      /\ at'[c] = "issue" => /\ contexts'[c] = contexts[c]
                            /\ (at[c] = "issue" \/ contexts[c] # NoContext)
      /\ \/ contexts'[c] = NoContext
         \/ contexts'[c] = contexts[c]
         \/ /\ contexts[c] # NoContext /\ contexts'[c].root = contexts[c].root
            /\ contexts'[c].device = contexts[c].device
         \/ /\ contexts'[c].root \in roots /\ contexts'[c].device \in DeviceIds
            /\ OkDevice(contexts'[c].root, contexts'[c].device)
<1> USE DEF SecTypes, SecTypeOK, Go, Return
<1>1. CASE UNCHANGED <<at, holds, contexts>>
  BY <1>1
<1>2. ASSUME NEW b \in Callers, CheckBootstrap(b) \/ InsertRoot(b) \/ AuditRoot(b) PROVE Goal
  BY <1>2 DEF CheckBootstrap, InsertRoot, AuditRoot
<1>3. ASSUME NEW b \in Callers, CheckChallenge(b) \/ InsertDevice(b) PROVE Goal
  BY <1>3 DEF CheckChallenge, InsertDevice
<1>4. ASSUME NEW b \in Callers, authenticate(b) PROVE Goal
  <2>1. PICK r \in RootIds, d \in DeviceIds :
          \/ contexts' = contexts
          \/ /\ OkDevice(r, d) /\ r \in roots
             /\ contexts' = [contexts EXCEPT ![b] =
                  [root |-> r, device |-> d, assurance |-> "PRIMARY_AUTHENTICATED"]]
    BY <1>4 DEF authenticate
  <2>2. UNCHANGED <<at, holds>> /\ at[b] = "idle"
    BY <1>4 DEF authenticate
  <2> QED
    BY <2>1, <2>2
<1>5. ASSUME NEW b \in Callers, require_step_up(b) PROVE Goal
  BY <1>5 DEF require_step_up, Contexts
<1>6. ASSUME NEW b \in Callers, CheckDevice(b) \/ InsertSession(b) PROVE Goal
  BY <1>6 DEF CheckDevice, InsertSession
<1>7. ASSUME NEW b \in Callers, ValidateRequest(b) \/ PersistRequest(b) PROVE Goal
  BY <1>7 DEF ValidateRequest, PersistRequest
<1>8. ASSUME NEW b \in Callers, RestartCaller(b) PROVE Goal
  BY <1>8 DEF RestartCaller
<1>9. ASSUME NEW b \in Callers,
             create_challenge(b) \/ RevokeDevice(b) \/ RevokeSession(b) \/ global_revoke(b)
      PROVE  UNCHANGED <<at, holds, contexts>>
  BY <1>9 DEF create_challenge, RevokeDevice, RevokeSession, global_revoke
<1>10. Expire \/ UNCHANGED secVars => UNCHANGED <<at, holds, contexts>>
  BY DEF Expire, secVars
<1> QED
  BY <1>1, <1>2, <1>3, <1>4, <1>5, <1>6, <1>7, <1>8, <1>9, <1>10 DEF SecNext

LEMMA CallsStep ==
  ASSUME SecTypes, RowsStand, CallsStand, [SecNext]_secVars
  PROVE  CallsStand'
<1>0. StoreMoves
  BY StoreStep
<1> SUFFICES ASSUME NEW c \in Callers
             PROVE  /\ at'[c] = "enroll" => challenges'[holds'[c]].root \in RootIds
                    /\ at'[c] = "issue" => contexts'[c] # NoContext
                    /\ contexts'[c] # NoContext =>
                         /\ contexts'[c].root \in roots' /\ contexts'[c].device \in DeviceIds
                         /\ devices'[contexts'[c].device] # NoDevice
                         /\ devices'[contexts'[c].device].root = contexts'[c].root
  BY DEF CallsStand
<1>1. ASSUME at'[c] = "enroll" PROVE challenges'[holds'[c]].root \in RootIds
  <2>1. holds'[c] \in ChallengeIds /\ challenges[holds'[c]] # NoChallenge
    <3>1. NoChallenge.root = Nobody /\ Nobody \notin RootIds
      BY SecurityAssumption DEF NoChallenge
    <3> QED
      BY <1>1, <3>1, CallMoves DEF Open, CallsStand, SecTypes, HoldsTyped
  <2> QED
    BY <1>0, <2>1 DEF StoreMoves, RowsStand
<1>2. ASSUME at'[c] = "issue" PROVE contexts'[c] # NoContext
  BY <1>2, CallMoves DEF CallsStand
<1>3. ASSUME contexts'[c] # NoContext
      PROVE  /\ contexts'[c].root \in roots' /\ contexts'[c].device \in DeviceIds
             /\ devices'[contexts'[c].device] # NoDevice
             /\ devices'[contexts'[c].device].root = contexts'[c].root
  <2>1. /\ contexts'[c].root \in roots /\ contexts'[c].device \in DeviceIds
        /\ devices[contexts'[c].device] # NoDevice
        /\ devices[contexts'[c].device].root = contexts'[c].root
    <3>1. NoDevice.trust # "TRUSTED"
      BY DEF NoDevice
    <3> QED
      BY <1>3, <3>1, CallMoves DEF CallsStand, OkDevice
  <2> QED
    BY <1>0, <2>1 DEF StoreMoves
<1> QED
  BY <1>1, <1>2, <1>3

LEMMA ChainStep ==
  ASSUME SecTypes, RowsStand, CallsStand, ChainStands, [SecNext]_secVars
  PROVE  ChainStands'
<1>0. StoreMoves /\ RowsStand'
  BY StoreStep, RowsStep
<1> SUFFICES ASSUME NEW s \in SessionIds, sessions'[s] # NoSession
             PROVE  LET d == devices'[sessions'[s].device] IN
                    /\ sessions'[s].root \in roots' /\ closed'
                    /\ sessions'[s].device \in DeviceIds /\ d # NoDevice
                    /\ d.root = sessions'[s].root
                    /\ d.challenge \in ChallengeIds
                    /\ challenges'[d.challenge].root = d.root /\ challenges'[d.challenge].consumed
  BY DEF ChainStands
<1>1. /\ sessions'[s].root \in roots /\ sessions'[s].device \in DeviceIds
      /\ devices[sessions'[s].device] # NoDevice
      /\ devices[sessions'[s].device].root = sessions'[s].root
  <2>1. CASE sessions[s] # NoSession
    BY <1>0, <2>1 DEF StoreMoves, ChainStands
  <2>2. CASE sessions[s] = NoSession
    BY <2>2, RowsAdded DEF CallsStand
  <2> QED
    BY <2>1, <2>2
<1>2. /\ sessions'[s].root \in roots' /\ devices'[sessions'[s].device] # NoDevice
      /\ devices'[sessions'[s].device].root = sessions'[s].root
  BY <1>0, <1>1 DEF StoreMoves
<1> QED
  BY <1>0, <1>1, <1>2 DEF RowsStand

LEMMA ChainHolds == SecSpec => [](SecTypes /\ ChainInv)
<1>1. SecInit => ChainInv
  <2>1. SecInit => \A c \in Callers : at[c] = "idle" /\ contexts[c] = NoContext
    BY DEF SecInit
  <2> QED
    BY <2>1 DEF SecInit, ChainInv, RowsStand, CallsStand, ChainStands
<1>2. SecTypes /\ ChainInv /\ [SecNext]_secVars => ChainInv'
  BY RowsStep, CallsStep, ChainStep DEF ChainInv
<1> QED
  BY <1>1, <1>2, SecurityTypesHold, PTL DEF SecSpec

(* Every session on record stands on a trusted chain of rows: a device of  *)
(* its root, enrolled by a consumed challenge, and a root on record.       *)
THEOREM ChainAlwaysStands == SecSpec => []ChainStands
<1>1. ChainInv => ChainStands
  BY DEF ChainInv
<1> QED
  BY <1>1, ChainHolds, PTL

----------------------------------------------------------------------------
(* RootSecurity: races between a check and its transaction.                *)

(* A process that has passed a check has not inserted what it checked for. *)
NotYet ==
  \A c \in Callers :
    /\ at[c] = "bootstrap" => \A r \in roots : by[r] # c
    /\ at[c] = "enroll" =>
         \A d \in DeviceIds : devices[d] # NoDevice /\ devices[d].challenge = holds[c] => by[d] # c

RootsDiffer == \A r, q \in roots : by[r] = by[q] => r = q

DevicesDiffer ==
  \A d, e \in DeviceIds :
    devices[d] # NoDevice /\ devices[e] # NoDevice /\ devices[d].challenge = devices[e].challenge
      /\ by[d] = by[e] => d = e

RaceInv == NotYet /\ RootsDiffer /\ DevicesDiffer

LEMMA RootRace ==
  ASSUME SecTypes, RaceInv, NEW c \in Callers, InsertRoot(c)
  PROVE  RaceInv'
<1>1. PICK r \in RootIds \ roots :
        roots' = roots \cup {r} /\ by' = [by EXCEPT ![r] = c]
          /\ at' = [at EXCEPT ![c] = "audit"] /\ holds' = [holds EXCEPT ![c] = r]
  BY DEF InsertRoot, Go
<1>2. at[c] = "bootstrap" /\ devices' = devices
  BY DEF InsertRoot
<1>3. /\ by'[r] = c /\ \A q \in roots : by'[q] = by[q] /\ by[q] # c
      /\ \A d \in DeviceIds : by'[d] = by[d]
  BY <1>1, <1>2, SecurityAssumption DEF SecTypes, SecTypeOK, RaceInv, NotYet
<1>4. NotYet'
  BY <1>1, <1>2, <1>3 DEF SecTypes, SecTypeOK, RaceInv, NotYet
<1>5. RootsDiffer' /\ DevicesDiffer'
  BY <1>1, <1>2, <1>3 DEF RaceInv, RootsDiffer, DevicesDiffer
<1> QED
  BY <1>4, <1>5 DEF RaceInv

LEMMA DeviceRace ==
  ASSUME SecTypes, RaceInv, NEW c \in Callers, InsertDevice(c)
  PROVE  RaceInv'
<1>1. PICK d \in DeviceIds :
        /\ devices[d] = NoDevice
        /\ devices' = [devices EXCEPT ![d] =
             [root |-> challenges[holds[c]].root, challenge |-> holds[c], trust |-> "TRUSTED"]]
        /\ by' = [by EXCEPT ![d] = c]
  BY DEF InsertDevice
<1>2. at[c] = "enroll" /\ at' = [at EXCEPT ![c] = "idle"] /\ holds' = [holds EXCEPT ![c] = Nobody]
      /\ roots' = roots
  BY DEF InsertDevice, Return, Go
<1>3. /\ by'[d] = c /\ devices'[d].challenge = holds[c]
      /\ \A e \in DeviceIds \ {d} : by'[e] = by[e] /\ devices'[e] = devices[e]
      /\ \A r \in roots : by'[r] = by[r]
  BY <1>1, SecurityAssumption DEF SecTypes, SecTypeOK
<1>4. \A e \in DeviceIds : devices[e] # NoDevice /\ devices[e].challenge = holds[c] => by[e] # c
  BY <1>2 DEF RaceInv, NotYet
<1>5. NotYet'
  BY <1>1, <1>2, <1>3 DEF SecTypes, SecTypeOK, RaceInv, NotYet
<1>6. DevicesDiffer'
  BY <1>1, <1>3, <1>4 DEF RaceInv, DevicesDiffer
<1>7. RootsDiffer'
  BY <1>2, <1>3 DEF RaceInv, RootsDiffer
<1> QED
  BY <1>5, <1>6, <1>7 DEF RaceInv

LEMMA RaceStep ==
  ASSUME SecTypes, RowsStand, RaceInv, [SecNext]_secVars
  PROVE  RaceInv'
<1> USE DEF SecTypes, SecTypeOK, Go, Return
<1>1. ASSUME NEW c \in Callers, CheckBootstrap(c) PROVE RaceInv'
  BY <1>1 DEF CheckBootstrap, secStore, RaceInv, NotYet, RootsDiffer, DevicesDiffer
<1>2. ASSUME NEW c \in Callers, CheckChallenge(c) PROVE RaceInv'
  <2>1. PICK i \in ChallengeIds : Open(i) /\ Go(c, "enroll", i)
    BY <1>2 DEF CheckChallenge
  <2>2. UNCHANGED <<roots, devices, by>>
    BY <1>2 DEF CheckChallenge, secStore
  <2>3. \A d \in DeviceIds : devices[d] # NoDevice => devices[d].challenge # i
    BY <2>1 DEF Open, RowsStand
  <2> QED
    BY <2>1, <2>2, <2>3 DEF RaceInv, NotYet, RootsDiffer, DevicesDiffer
<1>3. ASSUME NEW c \in Callers, RevokeDevice(c) PROVE RaceInv'
  <2>1. PICK d \in DeviceIds :
          devices[d] # NoDevice /\ devices' = [devices EXCEPT ![d].trust = "REVOKED"]
    BY <1>3 DEF RevokeDevice
  <2>2. UNCHANGED <<roots, at, holds, by>>
    BY <1>3 DEF RevokeDevice
  <2>3. \A e \in DeviceIds : /\ devices'[e].challenge = devices[e].challenge
                             /\ devices'[e] # NoDevice => devices[e] # NoDevice
    BY <2>1 DEF DeviceRows
  <2>4. NotYet'
    BY <2>2, <2>3 DEF RaceInv, NotYet
  <2>5. RootsDiffer'
    BY <2>2 DEF RaceInv, RootsDiffer
  <2>6. DevicesDiffer'
    BY <2>2, <2>3 DEF RaceInv, DevicesDiffer
  <2> QED
    BY <2>4, <2>5, <2>6 DEF RaceInv
<1>4. CASE UNCHANGED <<roots, devices, by>>
           /\ \A c \in Callers : at'[c] \in {"bootstrap", "enroll"} => at'[c] = at[c] /\ holds'[c] = holds[c]
  BY <1>4 DEF RaceInv, NotYet, RootsDiffer, DevicesDiffer
<1>5. ASSUME NEW b \in Callers,
             \/ AuditRoot(b) \/ create_challenge(b) \/ authenticate(b) \/ require_step_up(b)
      PROVE  RaceInv'
  BY <1>4, <1>5 DEF AuditRoot, create_challenge, authenticate, require_step_up, secStore
<1>6. ASSUME NEW b \in Callers,
             \/ CheckDevice(b) \/ InsertSession(b) \/ RevokeSession(b) \/ global_revoke(b)
      PROVE  RaceInv'
  BY <1>4, <1>6 DEF CheckDevice, InsertSession, RevokeSession, global_revoke, secStore
<1>7. ASSUME NEW b \in Callers, ValidateRequest(b) \/ PersistRequest(b) \/ RestartCaller(b)
      PROVE  RaceInv'
  BY <1>4, <1>7 DEF ValidateRequest, PersistRequest, RestartCaller, secStore
<1>8. Expire \/ UNCHANGED secVars => RaceInv'
  BY <1>4 DEF Expire, secVars, secStore
<1> QED
  BY <1>1, <1>2, <1>3, <1>5, <1>6, <1>7, <1>8, RootRace, DeviceRace DEF SecNext

(* Two roots, or two devices of one challenge, are the doing of two        *)
(* processes that had both passed their check, however many there are.     *)
THEOREM RacesBounded == SecSpec => []RaceBound
<1>1. SecInit => RaceInv
  BY DEF SecInit, RaceInv, NotYet, RootsDiffer, DevicesDiffer
<1>2. SecTypes /\ ChainInv /\ RaceInv /\ [SecNext]_secVars => RaceInv'
  BY RaceStep DEF ChainInv
<1>3. SecTypes /\ ChainInv /\ RaceInv => RaceBound
  <2> SUFFICES ASSUME SecTypes, RowsStand, RaceInv PROVE RaceBound
    BY DEF ChainInv
  <2>1. \A d, e \in DeviceIds :
          devices[d] # NoDevice /\ devices[d].challenge = devices[e].challenge => devices[e] # NoDevice
    BY SecurityAssumption DEF RowsStand, NoDevice
  <2> QED
    BY <2>1 DEF RaceInv, RootsDiffer, DevicesDiffer, RaceBound
<1> QED
  BY <1>1, <1>2, <1>3, ChainHolds, PTL DEF SecSpec

----------------------------------------------------------------------------
(* RootSecurity: commands persisted under a session that has ended.        *)

Ended(s) == sessions[s] # NoSession /\ ~ValidSession(s)

LateInv ==
  \A c \in Callers :
    /\ at[c] = "submit" => sessions[holds[c]] # NoSession /\ late[c][holds[c]] = 0
    /\ \A s \in SessionIds : late[c][s] <= 1 /\ (late[c][s] > 0 => Ended(s))

LEMMA EndedForGood ==
  ASSUME SecTypes, ChainStands, [SecNext]_secVars, NEW s \in SessionIds
  PROVE  /\ Ended(s) => Ended(s)'
         /\ sessions[s] # NoSession => sessions'[s] # NoSession
<1>0. StoreMoves
  BY StoreStep
<1>1. ASSUME sessions[s] # NoSession PROVE sessions'[s] # NoSession
  <2>1. sessions[s].root \in RootIds /\ NoSession.root \notin RootIds
    BY <1>1, SecurityAssumption DEF ChainStands, SecTypes, SecTypeOK, NoSession
  <2> QED
    BY <1>0, <1>1, <2>1 DEF StoreMoves
<1>2. ASSUME Ended(s) PROVE Ended(s)'
  <2>1. sessions[s] # NoSession
    BY <1>2 DEF Ended
  <2> DEFINE d == sessions[s].device
  <2>2. d \in DeviceIds /\ devices[d] # NoDevice
    BY <2>1 DEF ChainStands
  <2>3. /\ sessions'[s].device = d
        /\ sessions[s].revoked => sessions'[s].revoked
        /\ sessions[s].expired => sessions'[s].expired
    BY <1>0, <2>1 DEF StoreMoves
  <2>4. devices'[d].trust = "TRUSTED" => devices[d].trust = "TRUSTED"
    BY <1>0, <2>2 DEF StoreMoves
  <2>5. sessions'[s] # NoSession
    BY <1>1, <2>1
  <2> QED
    BY <1>2, <2>3, <2>4, <2>5 DEF Ended, ValidSession
<1> QED
  BY <1>1, <1>2

LEMMA LateStep ==
  ASSUME SecTypes, ChainStands, LateInv, [SecNext]_secVars
  PROVE  LateInv'
<1> USE DEF SecTypes, SecTypeOK, Go, Return
<1>1. CASE /\ late' = late
           /\ \A c \in Callers : at'[c] = "submit" => at[c] = "submit" /\ holds'[c] = holds[c]
  <2> SUFFICES ASSUME NEW c \in Callers
               PROVE  /\ at'[c] = "submit" => sessions'[holds'[c]] # NoSession /\ late'[c][holds'[c]] = 0
                      /\ \A s \in SessionIds : late'[c][s] <= 1 /\ (late'[c][s] > 0 => Ended(s)')
    BY DEF LateInv
  <2>1. at'[c] = "submit" => sessions'[holds'[c]] # NoSession /\ late'[c][holds'[c]] = 0
    BY <1>1, EndedForGood DEF LateInv, HoldsTyped
  <2>2. \A s \in SessionIds : late'[c][s] <= 1 /\ (late'[c][s] > 0 => Ended(s)')
    BY <1>1, EndedForGood DEF LateInv
  <2> QED
    BY <2>1, <2>2
<1>2. ASSUME NEW b \in Callers, ValidateRequest(b) PROVE LateInv'
  <2>1. PICK t \in SessionIds :
          ValidSession(t) /\ at' = [at EXCEPT ![b] = "submit"] /\ holds' = [holds EXCEPT ![b] = t]
    BY <1>2 DEF ValidateRequest
  <2>2. UNCHANGED <<sessions, devices, late>>
    BY <1>2 DEF ValidateRequest, secStore
  <2>3. sessions[t] # NoSession /\ late[b][t] = 0
    BY <2>1 DEF ValidSession, LateInv, Ended
  <2> QED
    BY <2>1, <2>2, <2>3 DEF LateInv, Ended, ValidSession
<1>3. ASSUME NEW b \in Callers, PersistRequest(b) PROVE LateInv'
  <2>1. /\ at[b] = "submit" /\ at' = [at EXCEPT ![b] = "idle"]
        /\ holds' = [holds EXCEPT ![b] = Nobody] /\ UNCHANGED <<sessions, devices>>
    BY <1>3 DEF PersistRequest, secStore
  <2> DEFINE h == holds[b]
  <2>2. h \in SessionIds /\ sessions[h] # NoSession /\ late[b][h] = 0
    BY <2>1 DEF HoldsTyped, LateInv
  <2>3. \A c \in Callers, s \in SessionIds :
          late'[c][s] = late[c][s] \/ (c = b /\ s = h /\ late'[c][s] = 1 /\ Ended(h))
    <3>1. CASE ValidSession(h)
      BY <1>3, <3>1 DEF PersistRequest
    <3>2. CASE ~ValidSession(h)
      <4>1. late' = [late EXCEPT ![b][h] = late[b][h] + 1]
        BY <1>3, <3>2 DEF PersistRequest
      <4> HIDE DEF h
      <4> QED
        BY <2>2, <3>2, <4>1 DEF Ended
    <3> QED
      BY <3>1, <3>2
  <2>4. \A s \in SessionIds : Ended(s)' <=> Ended(s)
    BY <2>1 DEF Ended, ValidSession
  <2>5. \A c \in Callers : at'[c] = "submit" => c # b /\ at[c] = "submit" /\ holds'[c] = holds[c]
    BY <2>1
  <2> HIDE DEF h
  <2> QED
    BY <2>1, <2>3, <2>4, <2>5 DEF LateInv, HoldsTyped
<1>4. ASSUME NEW b \in Callers,
             \/ CheckBootstrap(b) \/ InsertRoot(b) \/ AuditRoot(b) \/ create_challenge(b)
             \/ CheckChallenge(b) \/ InsertDevice(b) \/ RevokeDevice(b)
      PROVE  LateInv'
  BY <1>1, <1>4 DEF CheckBootstrap, InsertRoot, AuditRoot, create_challenge, CheckChallenge,
     InsertDevice, RevokeDevice
<1>5. ASSUME NEW b \in Callers,
             \/ authenticate(b) \/ require_step_up(b) \/ CheckDevice(b) \/ InsertSession(b)
             \/ RevokeSession(b) \/ global_revoke(b) \/ RestartCaller(b)
      PROVE  LateInv'
  BY <1>1, <1>5 DEF authenticate, require_step_up, CheckDevice, InsertSession, RevokeSession,
     global_revoke, RestartCaller
<1>6. Expire \/ UNCHANGED secVars => LateInv'
  BY <1>1 DEF Expire, secVars
<1> QED
  BY <1>2, <1>3, <1>4, <1>5, <1>6 DEF SecNext

(* No process persists two commands under a session after its end.         *)
THEOREM LateAtMostOnce == SecSpec => []LateOnce
<1>1. SecInit => LateInv
  BY DEF SecInit, LateInv
<1>2. SecTypes /\ ChainInv /\ LateInv /\ [SecNext]_secVars => LateInv'
  BY LateStep DEF ChainInv
<1>3. LateInv => LateOnce
  BY DEF LateInv, LateOnce
<1> QED
  BY <1>1, <1>2, <1>3, ChainHolds, PTL DEF SecSpec

----------------------------------------------------------------------------
(* RootSecurity: the secret of a root is handed over last.                 *)

(* Roots whose bootstrap was cut off before the caller got the secret.     *)
CutOff == {r \in roots : r \notin known /\ ~\E c \in Callers : at[c] = "audit" /\ holds[c] = r}

HandedInv == known = audited /\ IsFiniteSet(CutOff) /\ Cardinality(CutOff) <= secRestarts

LEMMA FewerCutOff ==
  ASSUME SecTypes, HandedInv, CutOff' \subseteq CutOff, secRestarts' = secRestarts
  PROVE  IsFiniteSet(CutOff') /\ Cardinality(CutOff') <= secRestarts'
<1>1. IsFiniteSet(CutOff') /\ Cardinality(CutOff') <= Cardinality(CutOff)
  BY FS_Subset DEF HandedInv
<1>2. Cardinality(CutOff) \in Nat /\ Cardinality(CutOff') \in Nat /\ secRestarts \in Nat
  BY <1>1, FS_CardinalityType DEF HandedInv, SecTypes, SecTypeOK
<1> QED
  BY <1>1, <1>2 DEF HandedInv

LEMMA HandedStep ==
  ASSUME SecTypes, HandedInv, [SecNext]_secVars
  PROVE  HandedInv'
<1> USE DEF SecTypes, SecTypeOK, Go, Return
<1>1. CASE /\ UNCHANGED <<roots, known, audited, secRestarts>>
           /\ \A c \in Callers : at[c] = "audit" => at'[c] = "audit" /\ holds'[c] = holds[c]
  <2>1. CutOff' \subseteq CutOff
    BY <1>1 DEF CutOff
  <2> QED
    BY <1>1, <2>1, FewerCutOff DEF HandedInv
<1>2. ASSUME NEW b \in Callers, InsertRoot(b) PROVE HandedInv'
  <2>1. PICK r \in RootIds \ roots :
          roots' = roots \cup {r} /\ at' = [at EXCEPT ![b] = "audit"] /\ holds' = [holds EXCEPT ![b] = r]
    BY <1>2 DEF InsertRoot
  <2>2. at[b] = "bootstrap" /\ UNCHANGED <<known, audited, secRestarts>>
    BY <1>2 DEF InsertRoot
  <2>3. CutOff' \subseteq CutOff
    BY <2>1, <2>2 DEF CutOff
  <2> QED
    BY <2>2, <2>3, FewerCutOff DEF HandedInv
<1>3. ASSUME NEW b \in Callers, AuditRoot(b) PROVE HandedInv'
  <2>1. /\ at[b] = "audit" /\ at' = [at EXCEPT ![b] = "idle"] /\ holds' = [holds EXCEPT ![b] = Nobody]
        /\ known' = known \cup {holds[b]} /\ audited' = audited \cup {holds[b]}
        /\ UNCHANGED <<roots, secRestarts>>
    BY <1>3 DEF AuditRoot
  <2>2. CutOff' \subseteq CutOff
    BY <2>1 DEF CutOff
  <2> QED
    BY <2>1, <2>2, FewerCutOff DEF HandedInv
<1>4. ASSUME NEW b \in Callers, RestartCaller(b) PROVE HandedInv'
  <2>1. /\ secRestarts' = secRestarts + 1 /\ UNCHANGED <<roots, known, audited>>
        /\ at' = [at EXCEPT ![b] = "idle"] /\ holds' = [holds EXCEPT ![b] = Nobody]
    BY <1>4 DEF RestartCaller, secStore
  <2> DEFINE more == CutOff \cup {holds[b]}
  <2>2. CutOff' \subseteq more
    BY <2>1 DEF CutOff
  <2>3. IsFiniteSet(more) /\ Cardinality(more) <= Cardinality(CutOff) + 1
    <3>1. Cardinality(CutOff) \in Nat
      BY FS_CardinalityType DEF HandedInv
    <3> DEFINE cut == CutOff
               x == holds[b]
    <3>2. IsFiniteSet(cut)
      BY DEF HandedInv
    <3> HIDE DEF cut, x
    <3>3. IsFiniteSet(cut \cup {x})
          /\ Cardinality(cut \cup {x}) = IF x \in cut THEN Cardinality(cut) ELSE Cardinality(cut) + 1
      BY <3>2, FS_AddElement
    <3> QED
      BY <3>1, <3>3 DEF cut, x
  <2> HIDE DEF more
  <2>4. IsFiniteSet(CutOff') /\ Cardinality(CutOff') <= Cardinality(more)
    BY <2>2, <2>3, FS_Subset
  <2>5. /\ Cardinality(CutOff) \in Nat /\ Cardinality(CutOff') \in Nat /\ Cardinality(more) \in Nat
        /\ secRestarts \in Nat
    BY <2>3, <2>4, FS_CardinalityType DEF HandedInv
  <2>6. Cardinality(CutOff') <= secRestarts'
    BY <2>1, <2>3, <2>4, <2>5 DEF HandedInv
  <2> QED
    BY <2>1, <2>4, <2>6 DEF HandedInv
<1>5. ASSUME NEW b \in Callers,
             \/ CheckBootstrap(b) \/ create_challenge(b) \/ CheckChallenge(b) \/ InsertDevice(b)
             \/ RevokeDevice(b)
      PROVE  HandedInv'
  BY <1>1, <1>5 DEF CheckBootstrap, create_challenge, CheckChallenge, InsertDevice, RevokeDevice, secStore
<1>6. ASSUME NEW b \in Callers,
             \/ authenticate(b) \/ require_step_up(b) \/ CheckDevice(b) \/ InsertSession(b)
      PROVE  HandedInv'
  BY <1>1, <1>6 DEF authenticate, require_step_up, CheckDevice, InsertSession, secStore
<1>7. ASSUME NEW b \in Callers,
             \/ RevokeSession(b) \/ global_revoke(b) \/ ValidateRequest(b) \/ PersistRequest(b)
      PROVE  HandedInv'
  BY <1>1, <1>7 DEF RevokeSession, global_revoke, ValidateRequest, PersistRequest, secStore
<1>8. Expire \/ UNCHANGED secVars => HandedInv'
  BY <1>1 DEF Expire, secVars, secStore
<1> QED
  BY <1>2, <1>3, <1>4, <1>5, <1>6, <1>7, <1>8 DEF SecNext

(* A root that has neither an audit row nor a secret in anybody's hands is *)
(* one whose bootstrap is under way or fell to a restart: one per restart. *)
THEOREM RootsHandedOver == SecSpec => []RootHandedOver
<1>1. SecInit => HandedInv
  <2> SUFFICES ASSUME SecInit PROVE HandedInv
    OBVIOUS
  <2>1. CutOff = {} /\ known = {} /\ audited = {} /\ secRestarts = 0
    BY DEF SecInit, CutOff
  <2> QED
    BY <2>1, FS_EmptySet DEF HandedInv
<1>2. SecTypes /\ HandedInv /\ [SecNext]_secVars => HandedInv'
  BY HandedStep
<1>3. HandedInv => RootHandedOver
  BY DEF HandedInv, CutOff, RootHandedOver
<1> QED
  BY <1>1, <1>2, <1>3, SecurityTypesHold, PTL DEF SecSpec

----------------------------------------------------------------------------
(* CommandRegistry.                                                        *)

----------------------------------------------------------------------------
(* The state machine and the records.                                      *)

LEMMA NextTyped == ASSUME NEW s \in Statuses PROVE NextStatuses(s) \subseteq Statuses
  BY DEF NextStatuses, Statuses, ALLOWED, Final

LEMMA SubmitFields ==
  ASSUME NEW r \in Submits PROVE r.key \in Keys /\ r.content \in Contents
  BY DEF Submits

LEMMA MoveFields ==
  ASSUME NEW m \in Moves
  PROVE  m.key \in Keys /\ m.expected \in 1 .. MaxVersion /\ m.previous \in Statuses /\ m.next \in Statuses
  BY DEF Moves

LEMMA MovePacked ==
  ASSUME NEW k \in Keys, NEW v \in 1 .. MaxVersion, NEW s \in Statuses, NEW n \in Statuses
  PROVE  LET m == [key |-> k, expected |-> v, previous |-> s, next |-> n] IN
         m \in Moves /\ m.key = k /\ m.expected = v /\ m.previous = s /\ m.next = n
  BY DEF Moves

LEMMA LogAppend ==
  ASSUME NEW l \in Seq(Statuses), NEW s \in Statuses
  PROVE  /\ Append(l, s) \in Seq(Statuses)
         /\ Len(Append(l, s)) = Len(l) + 1
         /\ Append(l, s)[Len(l) + 1] = s
         /\ \A i \in 1 .. Len(l) : Append(l, s)[i] = l[i]
  OBVIOUS

----------------------------------------------------------------------------
(* The type invariant with its strengthening.                              *)

LEMMA InitTypeInv == Init => TypeInv
<1> SUFFICES ASSUME Init PROVE TypeInv
  OBVIOUS
<1>1. "RECEIVED" \in Statuses
  BY DEF Statuses, ALLOWED
<1>2. TypeOK
  BY <1>1, RegistryAssumption DEF Init, TypeOK
<1>3. ThreadsHold
  BY DEF Init, ThreadsHold, SubmitHolds, MoveHolds
<1>4. LogHolds
  BY DEF Init, LogHolds
<1> QED
  BY <1>2, <1>3, <1>4 DEF TypeInv

(* A step of a thread that leaves the tables and the log alone keeps what  *)
(* the other threads hold.                                                 *)
LEMMA OthersHold ==
  ASSUME TypeInv, NEW t \in Threads,
         UNCHANGED <<status, version, content, log>>,
         \A u \in Threads \ {t} : pc'[u] = pc[u] /\ submit'[u] = submit[u] /\ move'[u] = move[u]
  PROVE  LogHolds' /\ \A u \in Threads \ {t} : SubmitHolds(u)' /\ MoveHolds(u)'
  BY DEF TypeInv, ThreadsHold, SubmitHolds, MoveHolds, LogHolds

LEMMA IntakeTyped ==
  ASSUME TypeInv, NEW t \in Threads,
         \/ \E r \in Submits : Submit(t, r)
         \/ PersistNew(t) \/ PersistDuplicate(t) \/ PersistConflict(t) \/ Receipt(t)
  PROVE  TypeInv'
<1> USE DEF TypeInv, GoTo
<1>1. ASSUME NEW r \in Submits, Submit(t, r) PROVE TypeInv'
  <2>1. TypeOK'
    BY <1>1 DEF Submit, TypeOK, tables, answers
  <2>2. LogHolds' /\ \A u \in Threads \ {t} : SubmitHolds(u)' /\ MoveHolds(u)'
    BY <1>1, OthersHold DEF Submit, TypeOK, tables
  <2>3. SubmitHolds(t)' /\ MoveHolds(t)'
    BY <1>1 DEF Submit, TypeOK, SubmitHolds, MoveHolds
  <2> QED
    BY <2>1, <2>2, <2>3 DEF ThreadsHold
<1>2. CASE PersistNew(t)
  <2>1. submit[t] \in Submits /\ submit[t].key \in Keys /\ submit[t].content \in Contents
    BY <1>2, SubmitFields DEF PersistNew, ThreadsHold, SubmitHolds
  <2>2. "RECEIVED" \in Statuses /\ 1 \in 0 .. MaxVersion
    BY RegistryAssumption DEF Statuses, ALLOWED
  <2>3. TypeOK'
    BY <1>2, <2>1, <2>2 DEF PersistNew, TypeOK, answers
  <2>4. LogHolds'
    BY <1>2, <2>1 DEF PersistNew, TypeOK, LogHolds
  <2>5. ASSUME NEW u \in Threads PROVE SubmitHolds(u)'
    <3>1. CASE u = t
      BY <1>2, <2>1, <3>1 DEF PersistNew, TypeOK, SubmitHolds
    <3>2. CASE u # t /\ pc[u] \in {"persist", "receipt"}
      <4>1. submit[u] \in Submits /\ submit[u].key \in Keys
        BY <3>2, SubmitFields DEF ThreadsHold, SubmitHolds
      <4> QED
        BY <1>2, <2>1, <3>2, <4>1 DEF PersistNew, TypeOK, ThreadsHold, SubmitHolds
    <3> QED
      BY <1>2, <3>1, <3>2 DEF PersistNew, TypeOK, SubmitHolds
  <2>6. ASSUME NEW u \in Threads PROVE MoveHolds(u)'
    <3>1. CASE pc[u] \in {"commit", "read_back"}
      <4>1. u # t /\ move[u] \in Moves /\ move[u].key \in Keys /\ move[u].expected \in 1 .. MaxVersion
        BY <1>2, <3>1, MoveFields DEF PersistNew, ThreadsHold, MoveHolds
      <4>2. version[move[u].key] > 0
        BY <3>1, <4>1 DEF ThreadsHold, MoveHolds, TypeOK
      <4>3. move[u].key # submit[t].key
        BY <1>2, <4>2 DEF PersistNew
      <4> QED
        BY <1>2, <2>1, <3>1, <4>1, <4>3 DEF PersistNew, TypeOK, ThreadsHold, MoveHolds
    <3> QED
      BY <1>2, <3>1 DEF PersistNew, TypeOK, MoveHolds
  <2> QED
    BY <2>3, <2>4, <2>5, <2>6 DEF ThreadsHold
<1>3. CASE PersistDuplicate(t)
  <2>1. TypeOK'
    BY <1>3 DEF PersistDuplicate, TypeOK, tables, answers
  <2>2. LogHolds' /\ \A u \in Threads \ {t} : SubmitHolds(u)' /\ MoveHolds(u)'
    BY <1>3, OthersHold DEF PersistDuplicate, TypeOK, tables
  <2>3. SubmitHolds(t)' /\ MoveHolds(t)'
    <3>1. submit[t] \in Submits /\ submit[t].key \in Keys
      BY <1>3, SubmitFields DEF PersistDuplicate, ThreadsHold, SubmitHolds
    <3> QED
      BY <1>3, <3>1 DEF PersistDuplicate, TypeOK, tables, SubmitHolds, MoveHolds
  <2> QED
    BY <2>1, <2>2, <2>3 DEF ThreadsHold
<1>4. CASE PersistConflict(t)
  <2>1. TypeOK'
    BY <1>4 DEF PersistConflict, TypeOK, tables, answers
  <2>2. LogHolds' /\ \A u \in Threads \ {t} : SubmitHolds(u)' /\ MoveHolds(u)'
    BY <1>4, OthersHold DEF PersistConflict, TypeOK, tables
  <2>3. SubmitHolds(t)' /\ MoveHolds(t)'
    BY <1>4 DEF PersistConflict, TypeOK, SubmitHolds, MoveHolds
  <2> QED
    BY <2>1, <2>2, <2>3 DEF ThreadsHold
<1>5. CASE Receipt(t)
  <2>1. submit[t] \in Submits
    BY <1>5 DEF Receipt, ThreadsHold, SubmitHolds
  <2>2. TypeOK'
    BY <1>5, <2>1 DEF Receipt, TypeOK, tables
  <2>3. LogHolds' /\ \A u \in Threads \ {t} : SubmitHolds(u)' /\ MoveHolds(u)'
    BY <1>5, OthersHold DEF Receipt, TypeOK, tables
  <2>4. SubmitHolds(t)' /\ MoveHolds(t)'
    BY <1>5 DEF Receipt, TypeOK, SubmitHolds, MoveHolds
  <2> QED
    BY <2>2, <2>3, <2>4 DEF ThreadsHold
<1> QED
  BY <1>1, <1>2, <1>3, <1>4, <1>5

LEMMA MoveTyped ==
  ASSUME TypeInv, NEW t \in Threads,
         \/ \E k \in Keys, v \in 1 .. MaxVersion, s \in Statuses : Get(t, k, v, s)
         \/ Commit(t) \/ StaleVersion(t) \/ ReadBack(t)
  PROVE  TypeInv'
<1> USE DEF TypeInv, GoTo
<1>1. ASSUME NEW k \in Keys, NEW v \in 1 .. MaxVersion, NEW s \in Statuses, Get(t, k, v, s)
      PROVE  TypeInv'
  <2> DEFINE m == [key |-> k, expected |-> v, previous |-> status[k], next |-> s]
  <2>1. m \in Moves /\ m.key = k /\ m.expected = v /\ m.previous = status[k] /\ m.next = s
    BY <1>1, MovePacked DEF TypeOK
  <2>2. move' = [move EXCEPT ![t] = m]
    BY <1>1 DEF Get
  <2> HIDE DEF m
  <2>3. TypeOK'
    BY <1>1, <2>1, <2>2 DEF Get, TypeOK, tables, answers
  <2>4. LogHolds' /\ \A u \in Threads \ {t} : SubmitHolds(u)' /\ MoveHolds(u)'
    BY <1>1, <2>2, OthersHold DEF Get, TypeOK, tables
  <2>5. SubmitHolds(t)' /\ MoveHolds(t)'
    BY <1>1, <2>1, <2>2 DEF Get, TypeOK, tables, SubmitHolds, MoveHolds
  <2> QED
    BY <2>3, <2>4, <2>5 DEF ThreadsHold
<1>2. CASE Commit(t)
  <2> DEFINE m == move[t]
  <2>1. /\ m \in Moves /\ m.key \in Keys /\ m.expected \in 1 .. MaxVersion /\ m.next \in Statuses
        /\ m.expected < MaxVersion /\ m.next \in NextStatuses(m.previous)
        /\ version[m.key] = m.expected /\ m.previous = status[m.key]
    BY <1>2, MoveFields DEF Commit, ThreadsHold, MoveHolds
  <2>2. log[m.key] \in Seq(Statuses) /\ Len(log[m.key]) = m.expected /\ log[m.key][m.expected] = status[m.key]
    BY <2>1 DEF TypeOK, LogHolds
  <2>3. /\ status' = [status EXCEPT ![m.key] = m.next]
        /\ version' = [version EXCEPT ![m.key] = m.expected + 1]
        /\ log' = [log EXCEPT ![m.key] = Append(log[m.key], m.next)]
        /\ pc[t] = "commit" /\ pc' = [pc EXCEPT ![t] = "read_back"]
        /\ UNCHANGED <<content, op_payload, op_ref, submit, move, audit, answers, restarts>>
    BY <1>2, <2>1 DEF Commit
  <2>4. /\ log'[m.key] \in Seq(Statuses) /\ Len(log'[m.key]) = m.expected + 1
        /\ log'[m.key][m.expected + 1] = m.next
        /\ \A i \in 1 .. m.expected : log'[m.key][i] = log[m.key][i]
    BY <2>1, <2>2, <2>3, LogAppend DEF TypeOK
  <2> HIDE DEF m
  <2>5. TypeOK'
    BY <2>1, <2>3, <2>4, RegistryAssumption DEF TypeOK, answers
  <2>6. LogHolds'
    BY <2>1, <2>3, <2>4 DEF TypeOK, LogHolds
  <2>7. ASSUME NEW u \in Threads PROVE SubmitHolds(u)'
    <3>1. CASE pc[u] \in {"persist", "receipt"}
      <4>1. u # t /\ submit[u] \in Submits /\ submit[u].key \in Keys
        BY <2>3, <3>1, SubmitFields DEF ThreadsHold, SubmitHolds
      <4> QED
        BY <2>1, <2>3, <3>1, <4>1 DEF TypeOK, ThreadsHold, SubmitHolds
    <3> QED
      BY <2>3, <3>1 DEF TypeOK, SubmitHolds
  <2>8. MoveHolds(t)'
    BY <2>1, <2>2, <2>3, <2>4 DEF TypeOK, MoveHolds, m
  <2>9. ASSUME NEW u \in Threads, u # t PROVE MoveHolds(u)'
    <3>1. CASE pc[u] \in {"commit", "read_back"}
      <4>1. move[u] \in Moves /\ move[u].key \in Keys /\ move[u].expected \in 1 .. MaxVersion
        BY <3>1, MoveFields DEF ThreadsHold, MoveHolds
      <4>2. pc'[u] = pc[u] /\ move'[u] = move[u]
        BY <2>3, <2>9 DEF TypeOK
      <4>3. CASE move[u].key # m.key
        BY <2>1, <2>3, <3>1, <4>1, <4>2, <4>3 DEF TypeOK, ThreadsHold, MoveHolds
      <4>4. CASE move[u].key = m.key /\ pc[u] = "commit"
        <5>1. move[u].expected <= m.expected /\ version'[m.key] = m.expected + 1
          BY <2>1, <2>3, <3>1, <4>4 DEF TypeOK, ThreadsHold, MoveHolds
        <5> QED
          BY <2>1, <3>1, <4>1, <4>2, <4>4, <5>1 DEF ThreadsHold, MoveHolds
      <4>5. CASE move[u].key = m.key /\ pc[u] = "read_back"
        <5>1. /\ move[u].expected < m.expected /\ version'[m.key] = m.expected + 1
              /\ log[m.key][move[u].expected] = move[u].previous
              /\ log[m.key][move[u].expected + 1] = move[u].next
          BY <2>1, <2>3, <3>1, <4>5 DEF TypeOK, ThreadsHold, MoveHolds
        <5>2. move[u].expected \in 1 .. m.expected /\ move[u].expected + 1 \in 1 .. m.expected
          BY <2>1, <4>1, <5>1
        <5>3. /\ log'[m.key][move[u].expected] = move[u].previous
              /\ log'[m.key][move[u].expected + 1] = move[u].next
          BY <2>4, <5>1, <5>2
        <5>4. /\ move[u].expected < MaxVersion /\ move[u].next \in NextStatuses(move[u].previous)
              /\ move[u].expected < version'[m.key]
          BY <2>1, <3>1, <4>1, <5>1 DEF ThreadsHold, MoveHolds
        <5> QED
          BY <3>1, <4>1, <4>2, <4>5, <5>3, <5>4 DEF MoveHolds
      <4> QED
        BY <3>1, <4>3, <4>4, <4>5
    <3> QED
      BY <2>3, <2>9, <3>1 DEF TypeOK, MoveHolds
  <2> QED
    BY <2>5, <2>6, <2>7, <2>8, <2>9 DEF ThreadsHold
<1>3. CASE StaleVersion(t)
  <2>1. TypeOK'
    BY <1>3 DEF StaleVersion, TypeOK, tables, answers
  <2>2. LogHolds' /\ \A u \in Threads \ {t} : SubmitHolds(u)' /\ MoveHolds(u)'
    BY <1>3, OthersHold DEF StaleVersion, TypeOK, tables
  <2>3. SubmitHolds(t)' /\ MoveHolds(t)'
    BY <1>3 DEF StaleVersion, TypeOK, SubmitHolds, MoveHolds
  <2> QED
    BY <2>1, <2>2, <2>3 DEF ThreadsHold
<1>4. CASE ReadBack(t)
  <2>1. EvidenceOf(t) \in Evidence
    <3>1. /\ move[t] \in Moves /\ move[t].key \in Keys /\ move[t].expected \in 1 .. MaxVersion
          /\ move[t].previous \in Statuses /\ move[t].next \in Statuses
          /\ move[t].expected < version[move[t].key]
      BY <1>4, MoveFields DEF ReadBack, ThreadsHold, MoveHolds
    <3>2. version[move[t].key] \in 1 .. MaxVersion
      BY <3>1 DEF TypeOK
    <3> QED
      BY <3>1, <3>2 DEF EvidenceOf, Evidence
  <2>2. TypeOK'
    BY <1>4, <2>1 DEF ReadBack, TypeOK, tables, answers
  <2>3. LogHolds' /\ \A u \in Threads \ {t} : SubmitHolds(u)' /\ MoveHolds(u)'
    BY <1>4, OthersHold DEF ReadBack, TypeOK, tables
  <2>4. SubmitHolds(t)' /\ MoveHolds(t)'
    BY <1>4 DEF ReadBack, TypeOK, SubmitHolds, MoveHolds
  <2> QED
    BY <2>2, <2>3, <2>4 DEF ThreadsHold
<1> QED
  BY <1>1, <1>2, <1>3, <1>4

LEMMA OperationTyped ==
  ASSUME TypeInv, NEW o \in Operations, NEW p \in Payloads, NEW r \in Refs,
         RecordOperation(o, p, r) \/ RepeatOperation(o, p, r)
  PROVE  TypeInv'
<1>1. /\ UNCHANGED <<status, version, content, threads, audit, log, receipts, restarts>>
  BY DEF RecordOperation, RepeatOperation, tables
<1>2. TypeOK'
  <2>1. CASE RecordOperation(o, p, r)
    BY <2>1, RegistryAssumption DEF RecordOperation, Answer, TypeInv, TypeOK, threads
  <2>2. CASE RepeatOperation(o, p, r)
    <3>1. op_ref[o] \in Refs
      BY <2>2 DEF RepeatOperation, TypeInv, TypeOK
    <3> QED
      BY <2>2, <3>1 DEF RepeatOperation, Answer, TypeInv, TypeOK, threads, tables
  <2> QED
    BY <2>1, <2>2
<1>3. ThreadsHold' /\ LogHolds'
  BY <1>1 DEF threads, TypeInv, ThreadsHold, SubmitHolds, MoveHolds, LogHolds
<1> QED
  BY <1>2, <1>3 DEF TypeInv

LEMMA RestartTyped == TypeInv /\ Restart => TypeInv'
<1> SUFFICES ASSUME TypeInv, Restart PROVE TypeInv'
  OBVIOUS
<1>1. TypeOK'
  BY RegistryAssumption DEF TypeInv, TypeOK, Restart, tables, answers
<1>2. ThreadsHold'
  BY DEF Restart, ThreadsHold, SubmitHolds, MoveHolds
<1>3. LogHolds'
  BY DEF TypeInv, LogHolds, Restart, tables
<1> QED
  BY <1>1, <1>2, <1>3 DEF TypeInv

LEMMA StepTyped == TypeInv /\ [Next]_vars => TypeInv'
<1> SUFFICES ASSUME TypeInv, [Next]_vars PROVE TypeInv'
  OBVIOUS
<1>1. ASSUME NEW t \in Threads, Step(t) PROVE TypeInv'
  BY <1>1, IntakeTyped, MoveTyped DEF Step
<1>2. CASE Restart
  BY <1>2, RestartTyped
<1>3. CASE UNCHANGED vars
  BY <1>3 DEF vars, tables, threads, answers, TypeInv, TypeOK, ThreadsHold, SubmitHolds, MoveHolds,
              LogHolds
<1> QED
  BY <1>1, <1>2, <1>3, OperationTyped DEF Next

LEMMA TypeInvariance == Spec => []TypeInv
  BY InitTypeInv, StepTyped, PTL DEF Spec

(* Every variable keeps its type.                                          *)
THEOREM RegistryTypeCorrect == Spec => []TypeOK
<1>1. TypeInv => TypeOK
  BY DEF TypeInv
<1> QED
  BY <1>1, TypeInvariance, PTL

----------------------------------------------------------------------------
(* What the steps do to the log: nothing, a first entry, or one entry that *)
(* is an edge of ALLOWED.                                                  *)

LEMMA CommitLog ==
  ASSUME TypeInv, NEW t \in Threads, Commit(t)
  PROVE  LET m == move[t] l == log[m.key] IN
         /\ m \in Moves /\ m.key \in Keys /\ m.expected \in 1 .. MaxVersion /\ m.next \in Statuses
         /\ l \in Seq(Statuses) /\ Len(l) = m.expected /\ l[m.expected] = m.previous
         /\ m.next \in NextStatuses(m.previous)
         /\ log' = [log EXCEPT ![m.key] = Append(l, m.next)]
         /\ Len(log'[m.key]) = m.expected + 1
         /\ log'[m.key][m.expected + 1] = m.next
         /\ \A i \in 1 .. m.expected : log'[m.key][i] = l[i]
         /\ \A k \in Keys \ {m.key} : log'[k] = log[k]
<1> DEFINE m == move[t]
<1>1. /\ m \in Moves /\ m.key \in Keys /\ m.expected \in 1 .. MaxVersion /\ m.next \in Statuses
      /\ m.next \in NextStatuses(m.previous)
      /\ version[m.key] = m.expected /\ m.previous = status[m.key]
  BY MoveFields DEF TypeInv, Commit, GoTo, ThreadsHold, MoveHolds
<1>2. log[m.key] \in Seq(Statuses) /\ Len(log[m.key]) = m.expected /\ log[m.key][m.expected] = m.previous
  BY <1>1 DEF TypeInv, TypeOK, LogHolds
<1>3. log' = [log EXCEPT ![m.key] = Append(log[m.key], m.next)]
  BY DEF Commit
<1> HIDE DEF m
<1>4. log'[m.key] = Append(log[m.key], m.next) /\ \A k \in Keys \ {m.key} : log'[k] = log[k]
  BY <1>1, <1>3 DEF TypeInv, TypeOK
<1>5. /\ Len(log'[m.key]) = m.expected + 1 /\ log'[m.key][m.expected + 1] = m.next
      /\ \A i \in 1 .. m.expected : log'[m.key][i] = log[m.key][i]
  BY <1>1, <1>2, <1>4, LogAppend
<1> QED
  BY <1>1, <1>2, <1>3, <1>4, <1>5 DEF m

LEMMA FirstLog ==
  ASSUME TypeInv, NEW t \in Threads, PersistNew(t)
  PROVE  LET k == submit[t].key IN
         /\ k \in Keys /\ version[k] = 0 /\ Len(log[k]) = 0
         /\ Len(log'[k]) = 1
         /\ \A j \in Keys \ {k} : log'[j] = log[j]
<1>1. submit[t].key \in Keys /\ version[submit[t].key] = 0
  BY SubmitFields DEF TypeInv, PersistNew, GoTo, ThreadsHold, SubmitHolds
<1>2. Len(log[submit[t].key]) = 0
  BY <1>1 DEF TypeInv, LogHolds
<1>3. log' = [log EXCEPT ![submit[t].key] = <<"RECEIVED">>]
  BY DEF PersistNew
<1> QED
  BY <1>1, <1>2, <1>3 DEF TypeInv, TypeOK

(* The other steps leave the log alone.                                    *)
LogKept ==
  \/ \E t \in Threads :
       \/ \E r \in Submits : Submit(t, r)
       \/ PersistDuplicate(t) \/ PersistConflict(t) \/ Receipt(t)
       \/ \E k \in Keys, v \in 1 .. MaxVersion, s \in Statuses : Get(t, k, v, s)
       \/ StaleVersion(t)
  \/ \E o \in Operations, p \in Payloads, r \in Refs :
       RecordOperation(o, p, r) \/ RepeatOperation(o, p, r)
  \/ UNCHANGED vars

LEMMA StepCases ==
  [Next]_vars => \/ \E t \in Threads : PersistNew(t) \/ Commit(t) \/ ReadBack(t)
                 \/ Restart
                 \/ LogKept
  BY DEF Next, Step, LogKept

(* ... and the audit, and whoever has still to append to it.               *)
LEMMA KeptSame ==
  ASSUME TypeInv, LogKept
  PROVE  /\ UNCHANGED <<log, audit, restarts>>
         /\ \A t \in Threads : /\ pc'[t] = "read_back" <=> pc[t] = "read_back"
                               /\ pc[t] = "read_back" => move'[t] = move[t]
<1> USE DEF TypeInv, TypeOK, GoTo
<1>1. ASSUME NEW t \in Threads, NEW r \in Submits, Submit(t, r)
      PROVE  /\ UNCHANGED <<log, audit, restarts>>
             /\ \A u \in Threads : /\ pc'[u] = "read_back" <=> pc[u] = "read_back"
                                   /\ pc[u] = "read_back" => move'[u] = move[u]
  BY <1>1 DEF Submit
<1>2. ASSUME NEW t \in Threads, PersistDuplicate(t) \/ PersistConflict(t) \/ Receipt(t)
      PROVE  /\ UNCHANGED <<log, audit, restarts>>
             /\ \A u \in Threads : /\ pc'[u] = "read_back" <=> pc[u] = "read_back"
                                   /\ pc[u] = "read_back" => move'[u] = move[u]
  BY <1>2 DEF PersistDuplicate, PersistConflict, Receipt
<1>3. ASSUME NEW t \in Threads, NEW k \in Keys, NEW v \in 1 .. MaxVersion, NEW s \in Statuses,
             Get(t, k, v, s)
      PROVE  /\ UNCHANGED <<log, audit, restarts>>
             /\ \A u \in Threads : /\ pc'[u] = "read_back" <=> pc[u] = "read_back"
                                   /\ pc[u] = "read_back" => move'[u] = move[u]
  BY <1>3 DEF Get
<1>4. ASSUME NEW t \in Threads, StaleVersion(t)
      PROVE  /\ UNCHANGED <<log, audit, restarts>>
             /\ \A u \in Threads : /\ pc'[u] = "read_back" <=> pc[u] = "read_back"
                                   /\ pc[u] = "read_back" => move'[u] = move[u]
  BY <1>4 DEF StaleVersion
<1>5. ASSUME NEW o \in Operations, NEW p \in Payloads, NEW r \in Refs,
             RecordOperation(o, p, r) \/ RepeatOperation(o, p, r)
      PROVE  UNCHANGED <<log, audit, restarts, pc, move>>
  BY <1>5 DEF RecordOperation, RepeatOperation, threads
<1>6. CASE UNCHANGED vars
  BY <1>6 DEF vars, threads
<1> QED
  BY <1>1, <1>2, <1>3, <1>4, <1>5, <1>6 DEF LogKept

----------------------------------------------------------------------------
(* Every committed change of status is an edge of ALLOWED, for any number  *)
(* of threads racing with statuses and versions read at different times.   *)
THEOREM AllowedEdgesOnly == Spec => []OnlyAllowedEdges
<1>1. Init => OnlyAllowedEdges
  BY DEF Init, OnlyAllowedEdges
<1>2. TypeInv /\ OnlyAllowedEdges /\ [Next]_vars => OnlyAllowedEdges'
  <2> SUFFICES ASSUME TypeInv, OnlyAllowedEdges, [Next]_vars, NEW k \in Keys,
                      NEW i \in 1 .. Len(log'[k]) - 1
               PROVE  log'[k][i + 1] \in NextStatuses(log'[k][i])
    BY DEF OnlyAllowedEdges
  <2>1. ASSUME NEW t \in Threads, Commit(t) PROVE log'[k][i + 1] \in NextStatuses(log'[k][i])
    <3> DEFINE m == move[t]
    <3>1. /\ m.key \in Keys /\ m.expected \in 1 .. MaxVersion
          /\ Len(log[m.key]) = m.expected /\ log[m.key][m.expected] = m.previous
          /\ m.next \in NextStatuses(m.previous)
          /\ Len(log'[m.key]) = m.expected + 1 /\ log'[m.key][m.expected + 1] = m.next
          /\ \A n \in 1 .. m.expected : log'[m.key][n] = log[m.key][n]
          /\ \A n \in Keys \ {m.key} : log'[n] = log[n]
      BY <2>1, CommitLog
    <3> HIDE DEF m
    <3>2. CASE k # m.key
      BY <3>1, <3>2 DEF OnlyAllowedEdges
    <3>3. CASE k = m.key /\ i < m.expected
      <4>1. i \in 1 .. Len(log[k]) - 1 /\ i \in 1 .. m.expected /\ i + 1 \in 1 .. m.expected
        BY <3>1, <3>3
      <4> QED
        BY <3>1, <3>3, <4>1 DEF OnlyAllowedEdges
    <3>4. CASE k = m.key /\ i = m.expected
      BY <3>1, <3>4
    <3> QED
      BY <3>1, <3>2, <3>3, <3>4
  <2>2. ASSUME NEW t \in Threads, PersistNew(t) PROVE log'[k][i + 1] \in NextStatuses(log'[k][i])
    <3>1. Len(log'[submit[t].key]) = 1 /\ \A j \in Keys \ {submit[t].key} : log'[j] = log[j]
      BY <2>2, FirstLog
    <3>2. ASSUME k = submit[t].key PROVE FALSE
      <4>1. Len(log'[k]) = 1
        BY <3>1, <3>2
      <4>2. i \in 1 .. 0
        BY <4>1
      <4> QED
        BY <4>2
    <3> QED
      BY <3>1, <3>2 DEF OnlyAllowedEdges
  <2>3. ASSUME UNCHANGED log PROVE log'[k][i + 1] \in NextStatuses(log'[k][i])
    BY <2>3 DEF OnlyAllowedEdges
  <2>4. (\E t \in Threads : ReadBack(t)) \/ Restart => UNCHANGED log
    BY DEF ReadBack, Restart
  <2> QED
    BY <2>1, <2>2, <2>3, <2>4, StepCases, KeptSame
<1> QED
  BY <1>1, <1>2, TypeInvariance, PTL DEF Spec

----------------------------------------------------------------------------
(* The audit.                                                              *)

AuditInv == AuditIsTrue /\ LeftOnce

LEMMA EvidenceFields ==
  ASSUME TypeInv, NEW t \in Threads, ReadBack(t)
  PROVE  LET e == EvidenceOf(t) m == move[t] IN
         /\ e.key = m.key /\ e.previous_version = m.expected
         /\ e.previous_status = m.previous /\ e.next_status = m.next
         /\ audit' = audit \union {e}
         /\ m \in Moves /\ m.key \in Keys /\ m.expected \in 1 .. MaxVersion
         /\ m.expected < Len(log[m.key])
         /\ log[m.key][m.expected] = m.previous /\ log[m.key][m.expected + 1] = m.next
         /\ pc[t] = "read_back"
         /\ UNCHANGED <<log, restarts>>
         /\ \A u \in Threads : pc'[u] = "read_back" <=> u # t /\ pc[u] = "read_back"
         /\ \A u \in Threads \ {t} : move'[u] = move[u]
<1>1. pc[t] = "read_back" /\ audit' = audit \union {EvidenceOf(t)} /\ UNCHANGED <<log, restarts>>
  BY DEF ReadBack, GoTo
<1>2. /\ move[t] \in Moves /\ move[t].key \in Keys /\ move[t].expected \in 1 .. MaxVersion
      /\ move[t].expected < version[move[t].key]
      /\ log[move[t].key][move[t].expected] = move[t].previous
      /\ log[move[t].key][move[t].expected + 1] = move[t].next
  BY <1>1, MoveFields DEF TypeInv, ThreadsHold, MoveHolds
<1>3. Len(log[move[t].key]) = version[move[t].key]
  BY <1>2 DEF TypeInv, LogHolds
<1>4. /\ \A u \in Threads : pc'[u] = "read_back" <=> u # t /\ pc[u] = "read_back"
      /\ \A u \in Threads \ {t} : move'[u] = move[u]
  BY DEF ReadBack, GoTo, TypeInv, TypeOK
<1> QED
  BY <1>1, <1>2, <1>3, <1>4 DEF EvidenceOf

LEMMA CommitThreads ==
  ASSUME TypeInv, NEW t \in Threads, Commit(t)
  PROVE  /\ pc[t] = "commit"
         /\ \A u \in Threads : pc'[u] = "read_back" <=> u = t \/ pc[u] = "read_back"
         /\ UNCHANGED <<move, audit, restarts>>
  BY DEF Commit, GoTo, TypeInv, TypeOK

LEMMA ReadBackHolds ==
  ASSUME TypeInv, NEW u \in Threads, pc[u] = "read_back"
  PROVE  move[u].key \in Keys /\ move[u].expected \in 1 .. MaxVersion
         /\ move[u].expected < Len(log[move[u].key])
<1>1. move[u].key \in Keys /\ move[u].expected \in 1 .. MaxVersion /\ move[u].expected < version[move[u].key]
  BY MoveFields DEF TypeInv, ThreadsHold, MoveHolds
<1> QED
  BY <1>1 DEF TypeInv, LogHolds

LEMMA AuditStep == TypeInv /\ AuditInv /\ [Next]_vars => AuditInv'
<1> SUFFICES ASSUME TypeInv, AuditInv, [Next]_vars PROVE AuditInv'
  OBVIOUS
<1>0. \A e \in audit : e.key \in Keys /\ e.previous_version \in 1 .. MaxVersion
  BY DEF TypeInv, TypeOK, Evidence
<1>1. ASSUME NEW t \in Threads, Commit(t) PROVE AuditInv'
  <2> DEFINE m == move[t]
  <2>1. /\ m.key \in Keys /\ m.expected \in 1 .. MaxVersion
        /\ Len(log[m.key]) = m.expected
        /\ Len(log'[m.key]) = m.expected + 1
        /\ \A n \in 1 .. m.expected : log'[m.key][n] = log[m.key][n]
        /\ \A n \in Keys \ {m.key} : log'[n] = log[n]
    BY <1>1, CommitLog
  <2>2. /\ \A u \in Threads : pc'[u] = "read_back" <=> u = t \/ pc[u] = "read_back"
        /\ UNCHANGED <<move, audit, restarts>>
    BY <1>1, CommitThreads
  <2> HIDE DEF m
  <2>3. ASSUME NEW e \in audit
        PROVE  /\ e.previous_version < Len(log'[e.key])
               /\ log'[e.key][e.previous_version] = e.previous_status
               /\ log'[e.key][e.previous_version + 1] = e.next_status
    <3>1. /\ e.previous_version < Len(log[e.key])
          /\ log[e.key][e.previous_version] = e.previous_status
          /\ log[e.key][e.previous_version + 1] = e.next_status
      BY DEF AuditInv, AuditIsTrue
    <3>2. CASE e.key # m.key
      BY <1>0, <2>1, <3>1, <3>2
    <3>3. CASE e.key = m.key
      <4>1. e.previous_version \in 1 .. m.expected /\ e.previous_version + 1 \in 1 .. m.expected
        BY <1>0, <2>1, <3>1, <3>3
      <4>2. /\ log'[m.key][e.previous_version] = log[m.key][e.previous_version]
            /\ log'[m.key][e.previous_version + 1] = log[m.key][e.previous_version + 1]
        BY <2>1, <4>1
      <4>3. e.previous_version < Len(log'[m.key])
        BY <2>1, <4>1
      <4> QED
        BY <3>1, <3>3, <4>2, <4>3
    <3> QED
      BY <3>2, <3>3
  <2>4. \A e \in audit : e.key = m.key => e.previous_version # m.expected
    BY <1>0, <2>1 DEF AuditInv, AuditIsTrue
  <2>5. \A u \in Threads : pc[u] = "read_back" /\ move[u].key = m.key => move[u].expected # m.expected
    BY <2>1, ReadBackHolds
  <2>6. LeftOnce'
    BY <2>2, <2>4, <2>5 DEF AuditInv, LeftOnce, m
  <2> QED
    BY <2>2, <2>3, <2>6 DEF AuditInv, AuditIsTrue
<1>2. ASSUME NEW t \in Threads, PersistNew(t) PROVE AuditInv'
  <2>1. LET k == submit[t].key IN
        k \in Keys /\ Len(log[k]) = 0 /\ \A j \in Keys \ {k} : log'[j] = log[j]
    BY <1>2, FirstLog
  <2>2. UNCHANGED <<audit, move>> /\ \A u \in Threads : pc'[u] = "read_back" <=> pc[u] = "read_back"
    BY <1>2 DEF PersistNew, GoTo, TypeInv, TypeOK
  <2>3. \A e \in audit : e.key # submit[t].key
    BY <1>0, <2>1 DEF AuditInv, AuditIsTrue
  <2> QED
    BY <1>0, <2>1, <2>2, <2>3 DEF AuditInv, AuditIsTrue, LeftOnce
<1>3. ASSUME NEW t \in Threads, ReadBack(t) PROVE AuditInv'
  <2> DEFINE e == EvidenceOf(t) m == move[t]
  <2>1. /\ e.key = m.key /\ e.previous_version = m.expected
        /\ e.previous_status = m.previous /\ e.next_status = m.next
        /\ audit' = audit \union {e}
        /\ m.expected < Len(log[m.key])
        /\ log[m.key][m.expected] = m.previous /\ log[m.key][m.expected + 1] = m.next
        /\ pc[t] = "read_back"
        /\ UNCHANGED log
        /\ \A u \in Threads : pc'[u] = "read_back" <=> u # t /\ pc[u] = "read_back"
        /\ \A u \in Threads \ {t} : move'[u] = move[u]
    BY <1>3, EvidenceFields
  <2>2. \A f \in audit : f.key = m.key => f.previous_version # m.expected
    BY <2>1 DEF AuditInv, LeftOnce
  <2>3. \A u \in Threads \ {t} : pc[u] = "read_back" /\ move[u].key = m.key => move[u].expected # m.expected
    BY <2>1 DEF AuditInv, LeftOnce
  <2> HIDE DEF e, m
  <2>4. AuditIsTrue'
    BY <2>1, <2>2 DEF AuditInv, AuditIsTrue
  <2>5. LeftOnce'
    BY <2>1, <2>3 DEF AuditInv, LeftOnce
  <2> QED
    BY <2>4, <2>5 DEF AuditInv
<1>4. CASE Restart
  BY <1>4 DEF Restart, AuditInv, AuditIsTrue, LeftOnce
<1>5. CASE LogKept
  BY <1>5, KeptSame DEF AuditInv, AuditIsTrue, LeftOnce
<1> QED
  BY <1>1, <1>2, <1>3, <1>4, <1>5, StepCases

(* What the audit says happened is what was committed, once per version.   *)
THEOREM AuditTrue == Spec => []AuditIsTrue
<1>1. Init => AuditInv
  BY DEF Init, AuditInv, AuditIsTrue, LeftOnce
<1>2. AuditInv => AuditIsTrue
  BY DEF AuditInv
<1> QED
  BY <1>1, <1>2, AuditStep, TypeInvariance, PTL DEF Spec

(* No committed transition is missing from the audit of a process that has *)
(* not been restarted, once its thread is through.                         *)
THEOREM AuditComplete == Spec => []AuditIsComplete
<1>1. Init => AuditIsComplete
  BY DEF Init, AuditIsComplete
<1>2. TypeInv /\ AuditIsComplete /\ [Next]_vars => AuditIsComplete'
  <2> SUFFICES ASSUME TypeInv, AuditIsComplete, [Next]_vars, restarts' = 0,
                      NEW k \in Keys, NEW v \in 1 .. Len(log'[k]) - 1
               PROVE  \/ \E e \in audit' : e.key = k /\ e.previous_version = v
                      \/ \E t \in Threads : pc'[t] = "read_back" /\ move'[t].key = k
                                             /\ move'[t].expected = v
    BY DEF AuditIsComplete
  <2> DEFINE Told == \/ \E e \in audit : e.key = k /\ e.previous_version = v
                     \/ \E t \in Threads : pc[t] = "read_back" /\ move[t].key = k
                                            /\ move[t].expected = v
  <2>1. ASSUME NEW t \in Threads, Commit(t) PROVE Told'
    <3> DEFINE m == move[t]
    <3>1. /\ m.key \in Keys /\ m.expected \in 1 .. MaxVersion
          /\ Len(log[m.key]) = m.expected /\ Len(log'[m.key]) = m.expected + 1
          /\ \A n \in Keys \ {m.key} : log'[n] = log[n]
      BY <2>1, CommitLog
    <3>2. /\ \A u \in Threads : pc'[u] = "read_back" <=> u = t \/ pc[u] = "read_back"
          /\ UNCHANGED <<move, audit, restarts>>
      BY <2>1, CommitThreads
    <3>3. CASE k = m.key /\ v = m.expected
      BY <3>2, <3>3
    <3>4. CASE ~(k = m.key /\ v = m.expected)
      <4>1. v \in 1 .. Len(log[k]) - 1
        BY <3>1, <3>4
      <4>2. Told
        BY <3>2, <4>1 DEF AuditIsComplete
      <4> QED
        BY <3>2, <4>2
    <3> QED
      BY <3>3, <3>4
  <2>2. ASSUME NEW t \in Threads, PersistNew(t) PROVE Told'
    <3>1. UNCHANGED <<audit, move, restarts>> /\ \A u \in Threads : pc'[u] = "read_back" <=> pc[u] = "read_back"
      BY <2>2 DEF PersistNew, GoTo, TypeInv, TypeOK, answers
    <3>2. v \in 1 .. Len(log[k]) - 1
      <4> DEFINE n == submit[t].key
      <4>1. Len(log'[n]) = 1 /\ \A j \in Keys \ {n} : log'[j] = log[j]
        BY <2>2, FirstLog
      <4> HIDE DEF n
      <4>2. ASSUME k = n PROVE FALSE
        <5>1. Len(log'[k]) = 1
          BY <4>1, <4>2
        <5>2. v \in 1 .. 1 - 1
          BY <5>1
        <5> QED
          BY <5>2
      <4> QED
        BY <4>1, <4>2
    <3> QED
      BY <3>1, <3>2 DEF AuditIsComplete
  <2>3. ASSUME NEW t \in Threads, ReadBack(t) PROVE Told'
    <3>1. /\ EvidenceOf(t).key = move[t].key /\ EvidenceOf(t).previous_version = move[t].expected
          /\ audit' = audit \union {EvidenceOf(t)}
          /\ UNCHANGED <<log, restarts>>
          /\ \A u \in Threads : pc'[u] = "read_back" <=> u # t /\ pc[u] = "read_back"
          /\ \A u \in Threads \ {t} : move'[u] = move[u]
      BY <2>3, EvidenceFields
    <3>2. Told
      BY <3>1 DEF AuditIsComplete
    <3> QED
      BY <3>1, <3>2
  <2>4. CASE Restart
    BY <2>4 DEF Restart, TypeInv, TypeOK
  <2>5. CASE LogKept
    <3>1. Told
      BY <2>5, KeptSame DEF AuditIsComplete
    <3> QED
      BY <2>5, <3>1, KeptSame
  <2> QED
    BY <2>1, <2>2, <2>3, <2>4, <2>5, StepCases
<1> QED
  BY <1>1, <1>2, TypeInvariance, PTL DEF Spec

----------------------------------------------------------------------------
(* Receipts and answers to operations stay true, through restarts.         *)
THEOREM AnswersStand == Spec => []AnswersAgree
<1>1. Init => AnswersAgree
  BY DEF Init, AnswersAgree
<1>2. TypeInv /\ AnswersAgree /\ [Next]_vars => AnswersAgree'
  <2> SUFFICES ASSUME TypeInv, AnswersAgree, [Next]_vars PROVE AnswersAgree'
    OBVIOUS
  <2> USE DEF TypeInv, TypeOK, AnswersAgree
  <2>1. ASSUME NEW t \in Threads, PersistNew(t) PROVE AnswersAgree'
    <3>1. submit[t].key \in Keys /\ version[submit[t].key] = 0
      BY <2>1, FirstLog
    <3>2. \A r \in receipts : r.key \in Keys /\ r.key # submit[t].key
      BY <3>1, SubmitFields
    <3> QED
      BY <2>1, <3>1, <3>2 DEF PersistNew, answers
  <2>2. ASSUME NEW t \in Threads, Receipt(t) PROVE AnswersAgree'
    <3>1. version[submit[t].key] > 0 /\ content[submit[t].key] = submit[t].content
      BY <2>2 DEF Receipt, GoTo, ThreadsHold, SubmitHolds
    <3> QED
      BY <2>2, <3>1 DEF Receipt, tables
  <2>3. ASSUME NEW t \in Threads, Commit(t) PROVE AnswersAgree'
    <3>1. move[t].key \in Keys /\ version' = [version EXCEPT ![move[t].key] = @ + 1]
      BY <2>3, CommitLog DEF Commit
    <3>2. \A k \in Keys : version[k] > 0 => version'[k] > 0
      BY <3>1
    <3>3. UNCHANGED <<content, op_payload, op_ref, answers>>
      BY <2>3 DEF Commit
    <3> QED
      BY <3>2, <3>3, SubmitFields DEF answers
  <2>4. ASSUME NEW o \in Operations, NEW p \in Payloads, NEW r \in Refs, RecordOperation(o, p, r)
        PROVE  AnswersAgree'
    <3>1. \A a \in op_answers : a[1] \in Operations /\ a[1] # o
      BY <2>4, RegistryAssumption DEF RecordOperation
    <3>2. op_payload'[o] = p /\ op_ref'[o] = r
      BY <2>4 DEF RecordOperation
    <3> QED
      BY <2>4, <3>1, <3>2 DEF RecordOperation, Answer
  <2>5. ASSUME NEW o \in Operations, NEW p \in Payloads, NEW r \in Refs, RepeatOperation(o, p, r)
        PROVE  AnswersAgree'
    BY <2>5 DEF RepeatOperation, Answer, tables
  <2>6. ASSUME UNCHANGED <<version, content, op_payload, op_ref, answers>> PROVE AnswersAgree'
    BY <2>6 DEF answers
  <2> QED
    BY <2>1, <2>2, <2>3, <2>4, <2>5, <2>6
       DEF Next, Step, Submit, PersistDuplicate, PersistConflict, Get, StaleVersion, ReadBack, Restart,
           vars, tables
<1> QED
  BY <1>1, <1>2, TypeInvariance, PTL DEF Spec
=============================================================================
