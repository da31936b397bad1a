---------------------------- MODULE MCRootControl ----------------------------
(* One instance for the parts of root control: identities and sessions,    *)
(* the command registry, the approval workflow and the authority           *)
(* envelopes.  No two of them share state, so a behaviour runs one of them *)
(* and the states add up instead of multiplying.                           *)
EXTENDS CommandRegistry, AuthorityEnvelopes, ApprovalWorkflow, RootSecurity, TLC

CONSTANTS c1, c2, r1, r2, d1, d2

VARIABLE part

registryVars == vars
RegistryInit == Init
RegistryNext == Next

RiskBySubject == [x \in Subjects |-> IF x = "AGENT_01" THEN 1 ELSE 0]

(* The threads of the registry are the callers of the security services,   *)
(* the keys of decisions the device ids: model values permute together.    *)
Symmetry ==
  Permutations(Callers) \union Permutations(RootIds) \union Permutations(DeviceIds)

PartsInit ==
  /\ RegistryInit /\ EnvelopeInit /\ ApprovalInit /\ SecInit
  /\ part \in {"registry", "envelopes", "approvals", "security"}

PartsNext ==
  \/ /\ part = "registry" /\ RegistryNext
     /\ UNCHANGED <<envelopeVars, approvalVars, secVars, part>>
  \/ /\ part = "envelopes" /\ EnvelopeNext
     /\ UNCHANGED <<registryVars, approvalVars, secVars, part>>
  \/ /\ part = "approvals" /\ ApprovalNext
     /\ UNCHANGED <<registryVars, envelopeVars, secVars, part>>
  \/ /\ part = "security" /\ SecNext
     /\ UNCHANGED <<registryVars, envelopeVars, approvalVars, part>>

PartsSpec ==
  PartsInit /\ [][PartsNext]_<<registryVars, envelopeVars, approvalVars, secVars, part>>
=============================================================================
