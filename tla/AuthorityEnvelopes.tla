-------------------------- MODULE AuthorityEnvelopes --------------------------
(***************************************************************************)
(* The authority envelopes of root control: bounded grants that are        *)
(* created once, used up to a limit, expire and can be revoked.  The       *)
(* registry is one object in memory; each method runs to its end.          *)
(*                                                                         *)
(* Times are the callers' (now_value, revoked_at): calls may come with an  *)
(* earlier time than the call before.  Abstracted: purpose, context,       *)
(* tests, prohibitions, issuer, issued_at and time_limit_seconds are one   *)
(* field "other" (validate_schema wants them present, create compares      *)
(* them, nothing else reads them); one resource with a limit, and one that *)
(* the envelope does not declare.                                          *)
(***************************************************************************)
EXTENDS Naturals, Sequences

CONSTANTS
  Ids,               \* envelope ids
  Subjects, OperationTypes, Resources, Environments, Others,
  allowed_subjects, allowed_operations, protected_assets,
  max_risk_by_subject,  \* RISK_ORDER of the largest risk of each subject
  UsageIds,          \* usage ids
  MaxLimit,          \* bound: usage limits
  MaxAmount,         \* bound: resource limits and requests
  MaxTime,           \* bound: times
  Actors,            \* who revokes, with the reason and time given
  NoRecord           \* no record

RiskOrder == 0 .. 4    \* RISK_ORDER: NONE, LOW, MEDIUM, HIGH, CRITICAL
Times == 0 .. MaxTime

Envelopes ==
  [subject : Subjects, operation : OperationTypes, resource : Resources,
   environment : Environments, other : Others, risk_limit : RiskOrder,
   usage_limit : 1 .. MaxLimit, limit : 0 .. MaxAmount, expires_at : Times]

(* A request names an amount of the declared resource, or of another one.  *)
Requests == [amount : 0 .. MaxAmount, declared : BOOLEAN]

Uses ==
  [usage_id : UsageIds, subject : Subjects, operation : OperationTypes, resource : Resources,
   risk : RiskOrder, resource_request : Requests, observed_at : Times]

ASSUME EnvelopeAssumption ==
  /\ MaxLimit \in Nat /\ MaxAmount \in Nat /\ MaxTime \in Nat
  /\ max_risk_by_subject \in [Subjects -> RiskOrder]
  /\ allowed_subjects \subseteq Subjects
  /\ NoRecord \notin Envelopes \union Actors

VARIABLES
  records,      \* _records: the envelope of each id, or NoRecord
  usage,        \* _usage: the uses recorded, in order
  revocations,  \* _revocations: the revocation record, or NoRecord
  used_before   \* history: how many uses an envelope had when it was revoked

envelopeVars == <<records, usage, revocations, used_before>>

EnvelopeInit ==
  /\ records = [e \in Ids |-> NoRecord]
  /\ usage = [e \in Ids |-> <<>>]
  /\ revocations = [e \in Ids |-> NoRecord]
  /\ used_before = [e \in Ids |-> 0]

validate_constitution(d) ==
  /\ d.subject \in allowed_subjects
  /\ d.operation \in allowed_operations
  /\ d.risk_limit <= max_risk_by_subject[d.subject]
  /\ ~(d.resource \in protected_assets /\ d.environment = "PRODUCTION_RUNTIME")

(* Mutant: a second envelope under an id replaces the first.               *)
Mut_create(e, d) ==
  /\ validate_constitution(d)
  /\ records' = [records EXCEPT ![e] = d]
  /\ UNCHANGED <<usage, revocations, used_before>>

(* The same envelope again is answered with the old one; another one under *)
(* the same id raises IMMUTABLE_ENVELOPE_ID_CONFLICT.                      *)
create(e, d) ==
  /\ validate_constitution(d)
  /\ records[e] = NoRecord
  /\ records' = [records EXCEPT ![e] = d]
  /\ usage' = [usage EXCEPT ![e] = <<>>]
  /\ UNCHANGED <<revocations, used_before>>

(* A repetition is answered with the old record, another one is refused.   *)
revoke(e, a) ==
  /\ records[e] # NoRecord /\ revocations[e] = NoRecord
  /\ revocations' = [revocations EXCEPT ![e] = a]
  /\ used_before' = [used_before EXCEPT ![e] = Len(usage[e])]
  /\ UNCHANGED <<records, usage>>

envelope_status(e, now) ==
  CASE revocations[e] # NoRecord -> "REVOKED"
    [] revocations[e] = NoRecord /\ now >= records[e].expires_at -> "EXPIRED"
    [] revocations[e] = NoRecord /\ now < records[e].expires_at
         /\ Len(usage[e]) >= records[e].usage_limit -> "USAGE_EXHAUSTED"
    [] OTHER -> "ACTIVE"

(* The scope and resource checks of authorize_use.                         *)
InScope(e, u) ==
  LET env == records[e] IN
  /\ u.subject = env.subject /\ u.operation = env.operation /\ u.resource = env.resource
  /\ u.risk <= env.risk_limit
  /\ u.resource_request.declared /\ u.resource_request.amount <= env.limit

Recorded(e, id) == \E i \in DOMAIN usage[e] : usage[e][i].usage_id = id

(* What authorize_use answers: an error, the use recorded under the id, or *)
(* the new use.                                                            *)
UsageAnswer(e, u) ==
  IF envelope_status(e, u.observed_at) # "ACTIVE" \/ ~InScope(e, u) THEN "refused"
  ELSE IF Recorded(e, u.usage_id) THEN "duplicate"
  ELSE "recorded"

(* Only a use that is recorded changes anything.                           *)
authorize_use(e, u) ==
  /\ records[e] # NoRecord
  /\ UsageAnswer(e, u) = "recorded"
  /\ usage' = [usage EXCEPT ![e] = Append(@, u)]
  /\ UNCHANGED <<records, revocations, used_before>>

EnvelopeNext ==
  \E e \in Ids :
    \/ \E d \in Envelopes : create(e, d)
    \/ \E a \in Actors : revoke(e, a)
    \/ \E u \in Uses : authorize_use(e, u)

EnvelopeSpec == EnvelopeInit /\ [][EnvelopeNext]_envelopeVars

-----------------------------------------------------------------------------
EnvelopeTypeOK ==
  /\ records \in [Ids -> Envelopes \union {NoRecord}]
  /\ usage \in [Ids -> Seq(Uses)]
  /\ revocations \in [Ids -> Actors \union {NoRecord}]
  /\ used_before \in [Ids -> 0 .. MaxLimit]

(* The evidence of uses never exceeds the grant that is on record: every   *)
(* use is in scope, before the expiry, under an id of its own, and there   *)
(* are no more of them than the limit, whatever was created, repeated or   *)
(* revoked in between.                                                     *)
UsesWithinGrant ==
  \A e \in Ids : records[e] # NoRecord =>
    /\ Len(usage[e]) <= records[e].usage_limit
    /\ \A i \in DOMAIN usage[e] :
         /\ InScope(e, usage[e][i])
         /\ usage[e][i].observed_at < records[e].expires_at
    /\ \A i, j \in DOMAIN usage[e] : usage[e][i].usage_id = usage[e][j].usage_id => i = j

(* A revocation is immediate and for good: nothing is recorded after it,   *)
(* with whatever time the caller comes.                                    *)
RevocationFinal == \A e \in Ids : revocations[e] # NoRecord => Len(usage[e]) = used_before[e]
=============================================================================
