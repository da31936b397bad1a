----------------------------- MODULE EventJournal -----------------------------
(* The rows of events/world_event_journal.sqlite3 and everything the code      *)
(* computes from them: what WorldEventJournal.append inserts, what its         *)
(* verify_integrity accepts, what ReplayRebuildEngine rebuilds and accepts.    *)
(* A journal is the sequence of its rows in the order of their sequence        *)
(* numbers, the only order in which the code reads them.  Event type,          *)
(* domain, cycle and payload are carried by the event's world: nothing here    *)
(* tells them apart in another way.                                            *)
EXTENDS Integers, Sequences, FiniteSetsExt

CONSTANTS
    Worlds,       \* the values of world_id
    NoHash        \* the previous_hash (NULL) of the first row

(* SHA-256 over the canonical body, without collisions: the hash of a body is  *)
(* the body, which holds the hash of the row before it.                        *)
HashBody(body) == body

LastSequence(journal) ==
    IF journal = <<>> THEN 0 ELSE journal[Len(journal)].body.sequence_number

(* The columns of world_events.                                                *)
Columns == {"sequence_number", "event_id", "world_id", "domain_id", "cycle_id",
            "event_type", "payload_json", "artifact_refs_json", "created_unix",
            "previous_hash", "content_hash"}

(* The row that append inserts behind the last one, in one transaction.        *)
NewRow(journal, eid, world, refs) ==
    LET body == [sequence_number |-> LastSequence(journal) + 1,
                 event_id        |-> eid,
                 world_id        |-> world,
                 artifact_refs   |-> refs,
                 previous_hash   |-> IF journal = <<>> THEN NoHash
                                     ELSE journal[Len(journal)].content_hash]
    IN  [body |-> body, content_hash |-> HashBody(body)]

(* SELECT ... WHERE sequence_number > after ORDER BY sequence_number LIMIT:    *)
(* the rows are in that order, so that the later ones are all behind the first.*)
ListEvents(journal, after, limit) ==
    LET later == {i \in DOMAIN journal : journal[i].body.sequence_number > after}
    IN  IF later = {} THEN <<>>
        ELSE SubSeq(journal, Min(later), Min({Min(later) + limit - 1, Len(journal)}))

------------------------------------------------------------------------------
(* WorldEventJournal.verify_integrity: the i-th row has number i, carries the  *)
(* content hash of the row before it and hashes to its own content hash.       *)
Mut_VerifyHash(row) == TRUE

VerifyHash(row) == row.content_hash = HashBody(row.body)

FollowsHash(journal, i) ==
    journal[i].body.previous_hash = (IF i = 1 THEN NoHash ELSE journal[i - 1].content_hash)

JournalValid(journal) ==
    \A i \in DOMAIN journal : /\ journal[i].body.sequence_number = i
                              /\ FollowsHash(journal, i)
                              /\ VerifyHash(journal[i])

------------------------------------------------------------------------------
(* ReplayRebuildEngine._verify_event_chain: after a gap the expected number    *)
(* is set to the one found; the hash of the row before is compared only when   *)
(* the row has a column previous_content_hash.                                 *)
(* A plausible slip: the first row is taken as it comes.                       *)
Mut_SequenceGap(rows, i) ==
    i > 1 /\ rows[i].body.sequence_number # rows[i - 1].body.sequence_number + 1

SequenceGap(rows, i) ==
    rows[i].body.sequence_number # (IF i = 1 THEN 0 ELSE rows[i - 1].body.sequence_number) + 1

PreviousMismatch(rows, i) ==
    /\ "previous_content_hash" \in Columns
    /\ i > 1
    /\ ~FollowsHash(rows, i)

ChainErrors(rows) ==
    {i \in DOMAIN rows : SequenceGap(rows, i) \/ PreviousMismatch(rows, i)}

RebuildState(rows) ==
    [status |-> IF ChainErrors(rows) = {} THEN "VALID" ELSE "INVALID",
     worlds |-> [w \in Worlds |-> Cardinality({i \in DOMAIN rows : rows[i].body.world_id = w})],
     last_sequence_number |-> LastSequence(rows),
     event_count |-> Len(rows)]

(* verify_determinism of two rebuilds.                                         *)
Deterministic(first, second) ==
    /\ first.status = "VALID" /\ second.status = "VALID"
    /\ first.worlds = second.worlds
    /\ first.last_sequence_number = second.last_sequence_number

SummaryStatus(rebuilt, first, second) ==
    IF rebuilt.status = "VALID" /\ Deterministic(first, second) THEN "READY" ELSE "INVALID"

=============================================================================
