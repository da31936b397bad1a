---------------------------- MODULE WorldContinuity ----------------------------
(* The durable evidence of the worlds and its readers.  Cycles register        *)
(* artifacts (file first, row second) and append events that refer to them;    *)
(* directors catch up with the journal through a shared checkpoint; a replay   *)
(* rebuilds the state from three readings of the journal.  Processes may die   *)
(* between any two of their steps, and the files may be damaged: a row altered *)
(* or missing, the journal restored from an older copy, an artifact file gone, *)
(* which is what the checks of these classes are for.                          *)
EXTENDS EventJournal

CONSTANTS
    Cycles,       \* processes that run cycles
    IdsOf,        \* [Cycles -> SUBSET ids]: the artifact ids a cycle uses
    Contents,     \* contents of artifacts
    Directors,    \* processes that call catch_up_once
    Limits,       \* their values of limit
    MaxEvents,    \* bound: events ever appended
    MaxMishaps     \* bound: deaths inside an operation and damages, together

ASSUME ContinuityAssumption ==
    /\ Limits \subseteq Nat \ {0}
    /\ MaxEvents \in Nat /\ MaxMishaps \in Nat
    /\ \A c, d \in Cycles : c # d => IdsOf[c] \cap IdsOf[d] = {}

VARIABLES
    journal,      \* the rows of world_events
    minted,       \* number of event ids given out
    storage,        \* [path -> "none" | "part" | "full"]: the storage directory
    artifacts,    \* the rows of artifacts: <<artifact_id, content>>
    cpc, task,    \* [Cycles -> ...]: where a cycle is, the artifact it is at
    checkpoint,   \* last_event_sequence of DIRECTOR_MAIN, 0 without a row
    dpc, batch,   \* [Directors -> ...]: where a director is, what it has read
    readings,     \* the rebuilds of the replay under way
    report,       \* the last summary: its status, whether it counted as many
                  \* events as its last sequence number says, and (history)
                  \* whether each row of its last reading had its content hash
    mishaps,
    truth,        \* history: <<event_id, world_id>> as appended
    read,         \* history: event ids some director has read
    restored,     \* history: the journal was restored from an older copy
    gone          \* history: paths of files that were lost

journalVars == <<journal, minted, truth>>
storeVars   == <<storage, artifacts>>
cycleVars   == <<cpc, task>>
dirVars     == <<checkpoint, dpc, batch, read>>
replayVars  == <<readings, report>>
mishapVars   == <<mishaps, restored, gone>>
continuityVars == <<journalVars, storeVars, cycleVars, dirVars, replayVars,
                    mishapVars>>

Ids   == UNION {IdsOf[c] : c \in Cycles}
Paths == Ids \X Contents       \* the file name has id and content hash
NoTask  == <<>>
NoBatch == [seen |-> 0, max |-> 0]
NoReport == [status |-> "NONE"]

ContinuityTypeOK ==
    /\ minted \in 0..MaxEvents /\ Len(journal) <= minted
    /\ storage \in [Paths -> {"none", "part", "full"}]
    /\ artifacts \subseteq Paths
    /\ cpc \in [Cycles -> {"idle", "look", "open", "fill", "insert", "append"}]
    /\ dpc \in [Directors -> {"idle", "select", "check", "upsert"}]
    /\ checkpoint \in 0..MaxEvents
    /\ read \subseteq 1..minted
    /\ Len(readings) <= 2

ContinuityInit ==
    /\ journal = <<>> /\ minted = 0 /\ truth = <<>>
    /\ storage = [p \in Paths |-> "none"] /\ artifacts = {}
    /\ cpc = [c \in Cycles |-> "idle"]
    /\ task = [c \in Cycles |-> NoTask]
    /\ checkpoint = 0 /\ dpc = [d \in Directors |-> "idle"]
    /\ batch = [d \in Directors |-> NoBatch] /\ read = {}
    /\ readings = <<>> /\ report = NoReport
    /\ mishaps = 0 /\ restored = FALSE /\ gone = {}

------------------------------------------------------------------------------
(* A cycle: ArtifactRegistry.register_bytes, then WorldEventJournal.append.    *)

RegisterBytes(c) ==
    /\ cpc[c] = "idle" /\ minted < MaxEvents
    /\ cpc' = [cpc EXCEPT ![c] = "look"]
    /\ \E i \in IdsOf[c], x \in Contents : task' = [task EXCEPT ![c] = <<i, x>>]
    /\ UNCHANGED <<journalVars, storeVars, dirVars, replayVars, mishapVars>>

(* if path.exists(): the hash of what is there must be the one of the data     *)
(* (else: Immutable artifact path collision).                                  *)
(* A plausible slip: whatever is there is taken for the artifact.              *)
Mut_PathOutcome(path) == IF storage[path] = "none" THEN "open" ELSE "insert"

PathOutcome(path) ==
    CASE storage[path] = "none" -> "open"
      [] storage[path] = "full" -> "insert"
      [] storage[path] = "part" -> "idle"

LookAtPath(c) ==
    /\ cpc[c] = "look"
    /\ cpc' = [cpc EXCEPT ![c] = PathOutcome(task[c])]
    /\ task' = [task EXCEPT ![c] = IF cpc'[c] = "idle" THEN NoTask ELSE @]
    /\ UNCHANGED <<journalVars, storeVars, dirVars, replayVars, mishapVars>>

(* path.write_bytes opens (and truncates) the file, then fills it.             *)
OpenFile(c) ==
    /\ cpc[c] = "open"
    /\ storage' = [storage EXCEPT ![task[c]] = "part"]
    /\ cpc' = [cpc EXCEPT ![c] = "fill"]
    /\ UNCHANGED <<journalVars, artifacts, task, dirVars, replayVars, mishapVars>>

FillFile(c) ==
    /\ cpc[c] = "fill"
    /\ storage' = [storage EXCEPT ![task[c]] = "full"]
    /\ cpc' = [cpc EXCEPT ![c] = "insert"]
    /\ UNCHANGED <<journalVars, artifacts, task, dirVars, replayVars, mishapVars>>

(* The INSERT: artifact_id is the primary key, a second row of it raises.      *)
InsertArtifact(c) ==
    /\ cpc[c] = "insert"
    /\ IF \E a \in artifacts : a[1] = task[c][1]
       THEN /\ cpc' = [cpc EXCEPT ![c] = "idle"]
            /\ task' = [task EXCEPT ![c] = NoTask]
            /\ UNCHANGED artifacts
       ELSE /\ artifacts' = artifacts \cup {task[c]}
            /\ cpc' = [cpc EXCEPT ![c] = "append"]
            /\ UNCHANGED task
    /\ UNCHANGED <<journalVars, storage, dirVars, replayVars, mishapVars>>

(* append: one transaction reads the last row and inserts the next.            *)
AppendRow(world, refs) ==
    /\ minted < MaxEvents
    /\ minted' = minted + 1
    /\ journal' = Append(journal, NewRow(journal, minted + 1, world, refs))
    /\ truth' = Append(truth, <<minted + 1, world>>)

AppendWithRef(c) ==
    /\ cpc[c] = "append"
    /\ \E w \in Worlds : AppendRow(w, {task[c]})
    /\ cpc' = [cpc EXCEPT ![c] = "idle"]
    /\ task' = [task EXCEPT ![c] = NoTask]
    /\ UNCHANGED <<storeVars, dirVars, replayVars, mishapVars>>

AppendPlain(c) ==
    /\ cpc[c] = "idle"
    /\ \E w \in Worlds : AppendRow(w, {})
    /\ UNCHANGED <<storeVars, cycleVars, dirVars, replayVars, mishapVars>>

------------------------------------------------------------------------------
(* A director: catch_up_once(limit, advance).                                  *)

ReadCheckpoint(d) ==
    /\ dpc[d] = "idle"
    /\ batch' = [batch EXCEPT ![d] = [seen |-> checkpoint, max |-> checkpoint]]
    /\ dpc' = [dpc EXCEPT ![d] = "select"]
    /\ UNCHANGED <<journalVars, storeVars, cycleVars, checkpoint, read,
                   replayVars, mishapVars>>

(* max_sequence of a batch: the greatest number among its events.              *)
(* A plausible slip: the end of the journal, whatever the limit cut off.       *)
Mut_MaxSequence(events, seen) == IF events = <<>> THEN seen ELSE LastSequence(journal)

MaxSequence(events, seen) == IF events = <<>> THEN seen ELSE LastSequence(events)

SelectEvents(d) ==
    /\ dpc[d] = "select"
    /\ \E limit \in Limits, advance \in BOOLEAN :
         LET events == ListEvents(journal, batch[d].seen, limit)
         IN  /\ read' = read \cup {events[i].body.event_id : i \in DOMAIN events}
             /\ IF advance /\ events # <<>>
                THEN /\ batch' = [batch EXCEPT ![d].max = MaxSequence(events, @)]
                     /\ dpc' = [dpc EXCEPT ![d] = "check"]
                ELSE /\ batch' = [batch EXCEPT ![d] = NoBatch]
                     /\ dpc' = [dpc EXCEPT ![d] = "idle"]
    /\ UNCHANGED <<journalVars, storeVars, cycleVars, checkpoint, replayVars,
                   mishapVars>>

(* advance_checkpoint: the check and the upsert are two statements.            *)
CheckAdvance(d) ==
    /\ dpc[d] = "check"
    /\ IF batch[d].max < checkpoint
       THEN /\ dpc' = [dpc EXCEPT ![d] = "idle"]
            /\ batch' = [batch EXCEPT ![d] = NoBatch]
       ELSE /\ dpc' = [dpc EXCEPT ![d] = "upsert"]
            /\ UNCHANGED batch
    /\ UNCHANGED <<journalVars, storeVars, cycleVars, checkpoint, read,
                   replayVars, mishapVars>>

UpsertCheckpoint(d) ==
    /\ dpc[d] = "upsert"
    /\ checkpoint' = batch[d].max
    /\ dpc' = [dpc EXCEPT ![d] = "idle"]
    /\ batch' = [batch EXCEPT ![d] = NoBatch]
    /\ UNCHANGED <<journalVars, storeVars, cycleVars, read, replayVars,
                   mishapVars>>

------------------------------------------------------------------------------
(* ReplayRebuildEngine.summary reads the journal three times; the newest       *)
(* report is kept.                                                             *)
Replay ==
    /\ LET now == RebuildState(journal)
       IN  IF Len(readings) < 2
           THEN /\ readings' = Append(readings, now)
                /\ report' = NoReport
           ELSE /\ readings' = <<>>
                /\ report' = [status |-> SummaryStatus(readings[1], readings[2], now),
                              counted |-> readings[1].event_count
                                            = readings[1].last_sequence_number,
                              hashes  |-> \A i \in DOMAIN journal :
                                            VerifyHash(journal[i])]
    /\ UNCHANGED <<journalVars, storeVars, cycleVars, dirVars, mishapVars>>

------------------------------------------------------------------------------
(* The environment: deaths and damage.                                         *)
Death ==
    /\ mishaps < MaxMishaps
    /\ mishaps' = mishaps + 1
    /\ \/ \E c \in Cycles : /\ cpc[c] # "idle"
                            /\ cpc' = [cpc EXCEPT ![c] = "idle"]
                            /\ task' = [task EXCEPT ![c] = NoTask]
                            /\ UNCHANGED <<dpc, batch>>
       \/ \E d \in Directors : /\ dpc[d] # "idle"
                               /\ dpc' = [dpc EXCEPT ![d] = "idle"]
                               /\ batch' = [batch EXCEPT ![d] = NoBatch]
                               /\ UNCHANGED cycleVars
    /\ UNCHANGED <<journalVars, storeVars, checkpoint, read,
                   replayVars, restored, gone>>

RowAltered(i, w) ==
    /\ w # journal[i].body.world_id
    /\ journal' = [journal EXCEPT ![i].body.world_id = w]
    /\ UNCHANGED <<minted, truth, restored, storage, gone>>

RowMissing(i) ==
    /\ i < Len(journal)
    /\ journal' = SubSeq(journal, 1, i - 1) \o SubSeq(journal, i + 1, Len(journal))
    /\ UNCHANGED <<minted, truth, restored, storage, gone>>

OlderCopy(i) ==
    /\ journal' = SubSeq(journal, 1, i - 1)
    /\ truth' = SubSeq(truth, 1, LastSequence(SubSeq(journal, 1, i - 1)))
    /\ restored' = TRUE
    /\ UNCHANGED <<minted, storage, gone>>

FileGone(p) ==
    /\ storage[p] = "full"
    /\ storage' = [storage EXCEPT ![p] = "none"]
    /\ gone' = gone \cup {p}
    /\ UNCHANGED <<journalVars, restored>>

Damage ==
    /\ mishaps < MaxMishaps
    /\ mishaps' = mishaps + 1
    /\ \/ \E i \in DOMAIN journal : \/ \E w \in Worlds : RowAltered(i, w)
                                    \/ RowMissing(i)
                                    \/ OlderCopy(i)
       \/ \E p \in Paths : FileGone(p)
    /\ UNCHANGED <<artifacts, cycleVars, dirVars, replayVars>>

ContinuityNext ==
    \/ \E c \in Cycles : \/ RegisterBytes(c) \/ LookAtPath(c) \/ OpenFile(c)
                         \/ FillFile(c) \/ InsertArtifact(c)
                         \/ AppendWithRef(c) \/ AppendPlain(c)
    \/ \E d \in Directors : \/ ReadCheckpoint(d) \/ SelectEvents(d)
                            \/ CheckAdvance(d) \/ UpsertCheckpoint(d)
    \/ Replay
    \/ Death \/ Damage

ContinuitySpec == ContinuityInit /\ [][ContinuityNext]_continuityVars

------------------------------------------------------------------------------
(* Every artifact an event of the journal refers to is registered, and its     *)
(* file is whole unless the file itself was lost afterwards: a writer that     *)
(* died half way through a file, retried with the same id, never gets a torn   *)
(* file into the registry (registry.py:186-191, manual_cycle.py:86-107).       *)
RefsStand ==
    \A i \in DOMAIN journal : \A a \in journal[i].body.artifact_refs :
        a \in artifacts /\ (storage[a] = "full" \/ a \in gone)

(* A journal that verify_integrity calls VALID holds exactly the events that   *)
(* were appended, in their order, whatever happened to its rows and whatever   *)
(* was appended behind a damaged one; only an older copy of the whole file is  *)
(* taken for the journal (journal.py:188-211).                                 *)
VerifySound ==
    JournalValid(journal) =>
        [i \in DOMAIN journal |-> <<journal[i].body.event_id, journal[i].body.world_id>>] = truth

(* A replay that reports READY has counted every event up to its last sequence *)
(* number: no row was missing from the journal it read, although it resyncs    *)
(* its expected number at a gap and other processes append between its three   *)
(* readings (engine.py:65-157).                                                *)
ReplayCountsAll == report.status = "READY" => report.counted

(* No event up to the shared checkpoint was left unread: with directors that   *)
(* overlap, move the checkpoint back or die, and with a limit that cuts a      *)
(* batch short, a director has read each of them (catchup.py:61-167), unless   *)
(* the journal is an older copy that gives the numbers out again.              *)
NothingSkipped ==
    ~restored => \A i \in DOMAIN journal :
        journal[i].body.sequence_number <= checkpoint => journal[i].body.event_id \in read

(* What the replay's docstring says (engine.py:41): event order and content    *)
(* hashes are verified before applying state, so a READY replay has read rows  *)
(* that hash to their content hash.                                            *)
ReplayVerifiesContent == report.status = "READY" => report.hashes
=============================================================================
