------------------------ MODULE WorldContinuity_proofs ------------------------
(* Proofs about WorldContinuity: what holds of the journal, the artifacts, the *)
(* shared checkpoint and the replay for any number of cycles, directors,       *)
(* events, deaths and damages.                                                 *)
EXTENDS WorldContinuity, WellFoundedInduction, SequenceTheorems, FiniteSetTheorems, TLAPS

(* A set of numbers has a least one; the two-element minimum of ListEvents.    *)
LEMMA Least ==
    ASSUME NEW S \in SUBSET Nat, S # {}
    PROVE  Min(S) \in S /\ \A y \in S : Min(S) <= y
<1>1. \E m \in S : \A y \in S : ~(<<y, m>> \in OpToRel(<, Nat))
  BY NatLessThanWellFounded, WFMin, Zenon
<1>2. \E m \in S : \A y \in S : ~(m \in Nat /\ y \in Nat /\ y < m)
  BY <1>1, Zenon DEF OpToRel
<1>3. \E m \in S : \A y \in S : m <= y
  BY <1>2
<1> QED  BY <1>3 DEF Min

LEMMA MinOfTwo ==
    ASSUME NEW a \in Nat, NEW b \in Nat
    PROVE  Min({a, b}) = IF a <= b THEN a ELSE b
<1>1. Min({a, b}) \in {a, b} /\ \A y \in {a, b} : Min({a, b}) <= y
  BY Least
<1> QED  BY <1>1

------------------------------------------------------------------------------
(* The rows of a journal whose hashes are taken from H.                        *)
Bodies(H) == [sequence_number : Nat, event_id : Nat, world_id : Worlds,
              artifact_refs : SUBSET Paths, previous_hash : H]
Rows(H)   == [body : Bodies(H), content_hash : Bodies(H)]

(* A journal keeps its order; each row still tells, by its number, its event   *)
(* and its content hash, which event was appended there.                       *)
RowsTyped == \E H : journal \in Seq(Rows(H))

RowsInOrder ==
    /\ \A i \in DOMAIN journal : i <= journal[i].body.sequence_number
    /\ \A i, j \in DOMAIN journal :
         i < j => journal[i].body.sequence_number < journal[j].body.sequence_number

RowIsTrue(i) ==
    LET n == journal[i].body.sequence_number
        h == journal[i].content_hash
    IN  /\ n \in 1..Len(truth)
        /\ h.sequence_number = n
        /\ h.event_id = journal[i].body.event_id
        /\ truth[n] = <<h.event_id, h.world_id>>

TruthTyped ==
    /\ truth \in Seq((1..minted) \X Worlds)
    /\ minted \in 0..MaxEvents
    /\ Len(truth) <= minted
    /\ Len(truth) = LastSequence(journal)

JournalInv ==
    /\ RowsTyped /\ TruthTyped
    /\ RowsInOrder /\ \A i \in DOMAIN journal : RowIsTrue(i)

(* What a damage leaves of the rows: each is an earlier one, at its place or   *)
(* further on, with another world at most, and the order stays.                *)
Thinned ==
    /\ \A H : journal \in Seq(Rows(H)) => journal' \in Seq(Rows(H))
    /\ \E f \in [DOMAIN journal' -> DOMAIN journal] :
         /\ \A i \in DOMAIN journal' :
              /\ i <= f[i]
              /\ journal'[i].body.sequence_number = journal[f[i]].body.sequence_number
              /\ journal'[i].body.event_id = journal[f[i]].body.event_id
              /\ journal'[i].body.artifact_refs = journal[f[i]].body.artifact_refs
              /\ journal'[i].content_hash = journal[f[i]].content_hash
         /\ \A i, j \in DOMAIN journal' : i < j => f[i] < f[j]

LEMMA AlteredThins ==
    ASSUME NEW i \in DOMAIN journal, NEW w \in Worlds, RowsTyped, RowAltered(i, w)
    PROVE  Thinned /\ LastSequence(journal') = LastSequence(journal)
<1> DEFINE b == [journal[i].body EXCEPT !.world_id = w]
           r == [journal[i] EXCEPT !.body = b]
<1>1. journal' = [journal EXCEPT ![i] = r]
  BY DEF RowAltered
<1>2. PICK G : journal \in Seq(Rows(G))
  BY DEF RowsTyped
<1>3. ASSUME NEW H, journal \in Seq(Rows(H))
      PROVE  /\ journal' \in Seq(Rows(H))
             /\ DOMAIN journal' = DOMAIN journal /\ Len(journal') = Len(journal)
  <2>1. journal[i] \in Rows(H)
    BY <1>3
  <2>2. b \in Bodies(H) /\ r \in Rows(H)
    BY <2>1 DEF Rows, Bodies
  <2> QED  BY <1>1, <1>3, <2>2
<1>4. ASSUME NEW k \in DOMAIN journal
      PROVE  /\ journal'[k].body.sequence_number = journal[k].body.sequence_number
             /\ journal'[k].body.event_id = journal[k].body.event_id
             /\ journal'[k].body.artifact_refs = journal[k].body.artifact_refs
             /\ journal'[k].content_hash = journal[k].content_hash
  <2>1. journal[k] \in Rows(G) /\ journal[i] \in Rows(G)
    BY <1>2
  <2>2. CASE k # i
    BY <2>2, <1>1, <1>2
  <2>3. CASE k = i
    <3>1. journal'[k] = r
      BY <2>3, <1>1, <1>2
    <3> QED  BY <3>1, <2>1, <2>3 DEF Rows, Bodies
  <2> QED  BY <2>2, <2>3
<1>5. Thinned
  <2> DEFINE f == [k \in DOMAIN journal' |-> k]
  <2>1. f \in [DOMAIN journal' -> DOMAIN journal]
    BY <1>2, <1>3
  <2>2. DOMAIN journal' = DOMAIN journal /\ DOMAIN journal \subseteq Nat
    BY <1>2, <1>3
  <2>3. \A k \in DOMAIN journal' : f[k] = k
    OBVIOUS
  <2> HIDE DEF f
  <2>4. /\ \A k \in DOMAIN journal' :
             /\ k <= f[k]
             /\ journal'[k].body.sequence_number = journal[f[k]].body.sequence_number
             /\ journal'[k].body.event_id = journal[f[k]].body.event_id
             /\ journal'[k].body.artifact_refs = journal[f[k]].body.artifact_refs
             /\ journal'[k].content_hash = journal[f[k]].content_hash
        /\ \A k, l \in DOMAIN journal' : k < l => f[k] < f[l]
    BY <1>4, <2>2, <2>3
  <2>5. \A H : journal \in Seq(Rows(H)) => journal' \in Seq(Rows(H))
    BY <1>3
  <2> QED  BY <2>1, <2>4, <2>5, Zenon DEF Thinned
<1>6. LastSequence(journal') = LastSequence(journal)
  BY <1>2, <1>3, <1>4 DEF LastSequence
<1> QED  BY <1>5, <1>6

LEMMA MissingThins ==
    ASSUME NEW i \in DOMAIN journal, RowsTyped, RowMissing(i)
    PROVE  Thinned /\ LastSequence(journal') = LastSequence(journal)
<1> DEFINE f == [k \in DOMAIN journal' |-> IF k < i THEN k ELSE k + 1]
<1>1. PICK G : journal \in Seq(Rows(G))
  BY DEF RowsTyped
<1>2. i \in 1..Len(journal) /\ i < Len(journal)
      /\ journal' = SubSeq(journal, 1, i - 1) \o SubSeq(journal, i + 1, Len(journal))
  BY <1>1 DEF RowMissing
<1>3. ASSUME NEW H, journal \in Seq(Rows(H))
      PROVE  /\ journal' \in Seq(Rows(H))
             /\ Len(journal') = Len(journal) - 1
             /\ DOMAIN journal' = 1..(Len(journal) - 1)
             /\ \A k \in 1..(Len(journal) - 1) : journal'[k] = journal[f[k]]
  <2> DEFINE a == SubSeq(journal, 1, i - 1)
             b == SubSeq(journal, i + 1, Len(journal))
  <2>1. a \in Seq(Rows(H)) /\ Len(a) = i - 1 /\ \A k \in 1..(i - 1) : a[k] = journal[k]
    BY <1>2, <1>3
  <2>2. /\ b \in Seq(Rows(H)) /\ Len(b) = Len(journal) - i
        /\ \A k \in 1..(Len(journal) - i) : b[k] = journal[i + k]
    BY <1>2, <1>3
  <2>3. journal' = a \o b
    BY <1>2
  <2>4. /\ journal' \in Seq(Rows(H)) /\ Len(journal') = Len(journal) - 1
        /\ DOMAIN journal' = 1..(Len(journal) - 1)
        /\ \A k \in 1..(Len(journal) - 1) :
             journal'[k] = IF k <= i - 1 THEN a[k] ELSE b[k - (i - 1)]
    <3> HIDE DEF a, b
    <3>1. /\ journal' \in Seq(Rows(H)) /\ Len(journal') = Len(a) + Len(b)
          /\ \A k \in 1..(Len(a) + Len(b)) :
               journal'[k] = IF k <= Len(a) THEN a[k] ELSE b[k - Len(a)]
      BY <2>1, <2>2, <2>3, ConcatProperties
    <3>2. Len(a) + Len(b) = Len(journal) - 1
      BY <1>2, <1>3, <2>1, <2>2
    <3> QED  BY <2>1, <3>1, <3>2, LenProperties
  <2>5. ASSUME NEW k \in 1..(Len(journal) - 1)
        PROVE  journal'[k] = journal[f[k]]
    <3>1. f[k] = IF k < i THEN k ELSE k + 1
      BY <2>4
    <3> HIDE DEF a, b, f
    <3>2. CASE k < i
      BY <1>2, <1>3, <2>1, <2>4, <3>1, <3>2
    <3>3. CASE ~(k < i)
      <4>1. journal'[k] = b[k - (i - 1)]
        <5>1. i \in Nat /\ k \in Nat /\ ~(k <= i - 1)
          BY <1>2, <1>3, <3>3
        <5> QED  BY <5>1, <2>4
      <4>2. k - (i - 1) \in 1..(Len(journal) - i) /\ i + (k - (i - 1)) = k + 1
        BY <1>2, <1>3, <3>3
      <4>3. b[k - (i - 1)] = journal[k + 1]
        BY <4>2, <2>2
      <4> QED  BY <3>1, <3>3, <4>1, <4>3, <1>2, <1>3
    <3> QED  BY <3>2, <3>3
  <2> QED  BY <2>4, <2>5
<1>4. /\ f \in [DOMAIN journal' -> DOMAIN journal]
      /\ \A k \in DOMAIN journal' : f[k] = IF k < i THEN k ELSE k + 1
  BY <1>1, <1>2, <1>3
<1>5. DOMAIN journal' \subseteq Nat /\ Len(journal') = Len(journal) - 1
  BY <1>1, <1>3
<1>6. \A k \in DOMAIN journal' : journal'[k] = journal[f[k]]
  BY <1>1, <1>3
<1> HIDE DEF f
<1>7. /\ \A k \in DOMAIN journal' : k <= f[k]
      /\ \A k, l \in DOMAIN journal' : k < l => f[k] < f[l]
  <2>1. i \in Nat
    BY <1>2
  <2> QED  BY <2>1, <1>4, <1>5
<1>8. Thinned
  BY <1>3, <1>4, <1>6, <1>7 DEF Thinned
<1>9. LastSequence(journal') = LastSequence(journal)
  <2>1. Len(journal) - 1 \in DOMAIN journal' /\ f[Len(journal) - 1] = Len(journal)
    <3>1. Len(journal) \in Nat /\ DOMAIN journal' = 1..(Len(journal) - 1)
      BY <1>1, <1>3
    <3>2. i \in Nat \ {0} /\ i < Len(journal)
      BY <1>2, <3>1
    <3> QED  BY <1>4, <3>1, <3>2
  <2>2. journal'[Len(journal')] = journal[Len(journal)]
    BY <2>1, <1>5, <1>6
  <2>3. journal' # <<>> /\ journal # <<>>
    BY <2>1, <1>1, <1>2
  <2> QED  BY <2>2, <2>3 DEF LastSequence
<1> QED  BY <1>8, <1>9

LEMMA OlderThins ==
    ASSUME NEW i \in DOMAIN journal, RowsTyped, OlderCopy(i)
    PROVE  Thinned
<1> DEFINE f == [k \in DOMAIN journal' |-> k]
<1>1. PICK G : journal \in Seq(Rows(G))
  BY DEF RowsTyped
<1>2. i \in 1..Len(journal) /\ journal' = SubSeq(journal, 1, i - 1)
  BY <1>1 DEF OlderCopy
<1>3. ASSUME NEW H, journal \in Seq(Rows(H))
      PROVE  /\ journal' \in Seq(Rows(H)) /\ DOMAIN journal' = 1..(i - 1)
             /\ \A k \in 1..(i - 1) : journal'[k] = journal[k]
  BY <1>2, <1>3
<1>4. f \in [DOMAIN journal' -> DOMAIN journal] /\ DOMAIN journal' \subseteq Nat
  BY <1>1, <1>2, <1>3
<1>5. \A k \in DOMAIN journal' : f[k] = k /\ journal'[k] = journal[k]
  BY <1>1, <1>3
<1> HIDE DEF f
<1>6. /\ \A k \in DOMAIN journal' : k <= f[k]
      /\ \A k, l \in DOMAIN journal' : k < l => f[k] < f[l]
  BY <1>4, <1>5
<1> QED  BY <1>3, <1>4, <1>5, <1>6 DEF Thinned

------------------------------------------------------------------------------
(* The last number is the number of events appended, and a row never has a     *)
(* place behind its number.                                                    *)
LEMMA LastRow ==
    ASSUME JournalInv
    PROVE  /\ Len(journal) \in Nat /\ DOMAIN journal = 1..Len(journal)
           /\ Len(truth) \in Nat /\ Len(journal) <= Len(truth)
           /\ journal # <<>> => /\ Len(journal) \in DOMAIN journal
                                /\ journal[Len(journal)].body.sequence_number = Len(truth)
           /\ journal = <<>> => Len(truth) = 0
<1>1. PICK H : journal \in Seq(Rows(H))
  BY DEF JournalInv, RowsTyped
<1>2. Len(truth) \in Nat /\ Len(truth) = LastSequence(journal)
  BY DEF JournalInv, TruthTyped
<1>3. Len(journal) \in Nat /\ DOMAIN journal = 1..Len(journal)
      /\ (journal # <<>> => Len(journal) \in DOMAIN journal)
  BY <1>1
<1>4. CASE journal = <<>>
  BY <1>2, <1>3, <1>4 DEF LastSequence
<1>5. CASE journal # <<>>
  BY <1>2, <1>3, <1>5 DEF LastSequence, JournalInv, RowsInOrder
<1> QED  BY <1>4, <1>5

(* What append leaves: the rows there were and one that holds the new event.   *)
LEMMA AppendedRow ==
    ASSUME JournalInv, NEW w \in Worlds, NEW refs \in SUBSET Paths, AppendRow(w, refs)
    PROVE  /\ RowsTyped' /\ DOMAIN journal' = 1..(Len(journal) + 1)
           /\ Len(journal') = Len(journal) + 1
           /\ \A k \in DOMAIN journal : k \in DOMAIN journal' /\ journal'[k] = journal[k]
           /\ LET row == journal'[Len(journal) + 1]
              IN  /\ row.body.sequence_number = Len(truth) + 1
                  /\ row.body.event_id = minted + 1 /\ row.body.world_id = w
                  /\ row.body.artifact_refs = refs /\ row.content_hash = row.body
<1> DEFINE row == NewRow(journal, minted + 1, w, refs)
<1>1. PICK H : journal \in Seq(Rows(H))
  BY DEF JournalInv, RowsTyped
<1>2. minted + 1 \in Nat /\ LastSequence(journal) = Len(truth) /\ LastSequence(journal) + 1 \in Nat
  BY ContinuityAssumption DEF JournalInv, TruthTyped
<1>3. journal' = Append(journal, row)
  BY DEF AppendRow
<1> DEFINE K == H \cup Bodies(H) \cup {NoHash}
<1>4. Bodies(H) \subseteq Bodies(K)
  BY DEF Bodies
<1>5. Rows(H) \subseteq Rows(K)
  BY <1>4 DEF Rows
<1>6. journal \in Seq(Rows(K))
  BY <1>1, <1>5, SeqMonotonic
<1> DEFINE previous == IF journal = <<>> THEN NoHash ELSE journal[Len(journal)].content_hash
<1>7. previous \in K
  <2>1. journal # <<>> => journal[Len(journal)] \in Rows(H)
    BY <1>1
  <2> QED  BY <2>1 DEF Rows
<1>8. row.body = [sequence_number |-> LastSequence(journal) + 1, event_id |-> minted + 1,
                  world_id |-> w, artifact_refs |-> refs, previous_hash |-> previous]
      /\ row = [body |-> row.body, content_hash |-> row.body]
  BY DEF NewRow, HashBody
<1> HIDE DEF row, previous
<1>9. row.body \in Bodies(K)
  BY <1>2, <1>7, <1>8 DEF Bodies
<1>10. row \in Rows(K)
  BY <1>8, <1>9 DEF Rows
<1> HIDE DEF K
<1>11. /\ journal' \in Seq(Rows(K)) /\ Len(journal') = Len(journal) + 1
       /\ DOMAIN journal' = 1..(Len(journal) + 1) /\ DOMAIN journal = 1..Len(journal)
       /\ Len(journal) \in Nat
       /\ journal'[Len(journal) + 1] = row
       /\ \A k \in DOMAIN journal : journal'[k] = journal[k]
  BY <1>3, <1>6, <1>10
<1>12. RowsTyped'
  BY <1>11 DEF RowsTyped
<1>13. \A k \in DOMAIN journal : k \in DOMAIN journal'
  BY <1>11
<1> QED  BY <1>2, <1>8, <1>11, <1>12, <1>13

LEMMA AppendKeeps ==
    ASSUME JournalInv, NEW w \in Worlds, NEW refs \in SUBSET Paths, AppendRow(w, refs)
    PROVE  JournalInv'
<1> DEFINE n == Len(journal) + 1
<1>1. /\ RowsTyped' /\ DOMAIN journal' = 1..n /\ Len(journal') = n
      /\ \A k \in DOMAIN journal : k \in DOMAIN journal' /\ journal'[k] = journal[k]
      /\ journal'[n].body.sequence_number = Len(truth) + 1
      /\ journal'[n].body.event_id = minted + 1 /\ journal'[n].body.world_id = w
      /\ journal'[n].content_hash = journal'[n].body
  BY AppendedRow
<1>2. /\ Len(journal) \in Nat /\ DOMAIN journal = 1..Len(journal)
      /\ Len(truth) \in Nat /\ Len(journal) <= Len(truth)
  BY LastRow
<1>3. /\ truth \in Seq((1..minted) \X Worlds) /\ minted \in 0..MaxEvents
      /\ Len(truth) <= minted /\ MaxEvents \in Nat
  BY ContinuityAssumption DEF JournalInv, TruthTyped
<1>4. /\ minted' = minted + 1 /\ minted < MaxEvents
      /\ truth' = Append(truth, <<minted + 1, w>>)
  BY DEF AppendRow
<1>5. TruthTyped'
  <2>1. (1..minted) \X Worlds \subseteq (1..minted') \X Worlds
        /\ <<minted + 1, w>> \in (1..minted') \X Worlds
    BY <1>3, <1>4
  <2>2. truth \in Seq((1..minted') \X Worlds)
    BY <2>1, <1>3, SeqMonotonic
  <2>3. truth' \in Seq((1..minted') \X Worlds) /\ Len(truth') = Len(truth) + 1
    BY <2>1, <2>2, <1>4
  <2>4. LastSequence(journal') = Len(truth) + 1
    <3>1. journal' # <<>>
      BY <1>1, <1>2
    <3> QED  BY <3>1, <1>1 DEF LastSequence
  <2> QED  BY <1>2, <1>3, <1>4, <2>3, <2>4 DEF TruthTyped
<1>6. \A k \in DOMAIN truth : k \in 1..Len(truth) /\ truth'[k] = truth[k]
  BY <1>3, <1>4
<1>7. Len(truth') = Len(truth) + 1 /\ truth'[Len(truth) + 1] = <<minted + 1, w>>
      /\ DOMAIN truth = 1..Len(truth)
  BY <1>3, <1>4
<1>8. ASSUME NEW k \in DOMAIN journal'
      PROVE  k \in DOMAIN journal \/ k = n
  BY <1>1, <1>2
<1>9. ASSUME NEW k \in DOMAIN journal
      PROVE  /\ k \in Nat /\ k <= journal[k].body.sequence_number /\ RowIsTrue(k)
             /\ journal[k].body.sequence_number \in 1..Len(truth)
  BY <1>2 DEF JournalInv, RowsInOrder, RowIsTrue
<1>10. RowsInOrder'
  <2>1. ASSUME NEW k \in DOMAIN journal'
        PROVE  k <= journal'[k].body.sequence_number
    <3>1. CASE k \in DOMAIN journal
      BY <3>1, <1>1, <1>9
    <3>2. CASE k = n
      BY <3>2, <1>1, <1>2
    <3> QED  BY <1>8, <3>1, <3>2
  <2>2. ASSUME NEW k \in DOMAIN journal', NEW l \in DOMAIN journal', k < l
        PROVE  journal'[k].body.sequence_number < journal'[l].body.sequence_number
    <3>1. k \in DOMAIN journal
      BY <2>2, <1>1, <1>2
    <3>2. CASE l \in DOMAIN journal
      BY <2>2, <3>1, <3>2, <1>1 DEF JournalInv, RowsInOrder
    <3>3. CASE l = n
      BY <3>1, <3>3, <1>1, <1>2, <1>9
    <3> QED  BY <1>8, <3>2, <3>3
  <2> QED  BY <2>1, <2>2 DEF RowsInOrder
<1>11. ASSUME NEW k \in DOMAIN journal'
       PROVE  RowIsTrue(k)'
  <2>1. CASE k \in DOMAIN journal
    <3>1. journal'[k] = journal[k] /\ RowIsTrue(k) /\ Len(truth) \in Nat
      BY <2>1, <1>1, <1>2, <1>9
    <3> QED  BY <3>1, <1>6, <1>7 DEF RowIsTrue
  <2>2. CASE k = n
    BY <2>2, <1>1, <1>2, <1>7 DEF RowIsTrue
  <2> QED  BY <1>8, <2>1, <2>2
<1> QED  BY <1>1, <1>5, <1>10, <1>11 DEF JournalInv

(* The rows of a thinned journal, against any truth that still has them.       *)
LEMMA ThinnedRows ==
    ASSUME JournalInv, Thinned
    PROVE  /\ RowsTyped' /\ RowsInOrder'
           /\ DOMAIN journal' \subseteq Nat
           /\ \A i \in DOMAIN journal' : \E k \in DOMAIN journal :
                /\ journal'[i].body.sequence_number = journal[k].body.sequence_number
                /\ journal'[i].body.event_id = journal[k].body.event_id
                /\ journal'[i].body.artifact_refs = journal[k].body.artifact_refs
                /\ journal'[i].content_hash = journal[k].content_hash
<1>1. PICK H : journal \in Seq(Rows(H))
  BY DEF JournalInv, RowsTyped
<1>2. journal' \in Seq(Rows(H))
  BY <1>1 DEF Thinned
<1>3. RowsTyped'
  BY <1>2 DEF RowsTyped
<1>4. PICK f \in [DOMAIN journal' -> DOMAIN journal] :
         /\ \A i \in DOMAIN journal' :
              /\ i <= f[i]
              /\ journal'[i].body.sequence_number = journal[f[i]].body.sequence_number
              /\ journal'[i].body.event_id = journal[f[i]].body.event_id
              /\ journal'[i].body.artifact_refs = journal[f[i]].body.artifact_refs
              /\ journal'[i].content_hash = journal[f[i]].content_hash
         /\ \A i, j \in DOMAIN journal' : i < j => f[i] < f[j]
  BY DEF Thinned
<1>5. DOMAIN journal' \subseteq Nat /\ DOMAIN journal \subseteq Nat
      /\ \A k \in DOMAIN journal : journal[k].body.sequence_number \in Nat
  <2>1. \A k \in DOMAIN journal : journal[k] \in Rows(H)
    BY <1>1
  <2>2. \A k \in DOMAIN journal : journal[k].body.sequence_number \in Nat
    BY <2>1 DEF Rows, Bodies
  <2> QED  BY <1>1, <1>2, <2>2
<1>6. RowsInOrder'
  <2>1. ASSUME NEW i \in DOMAIN journal'
        PROVE  i <= journal'[i].body.sequence_number
    <3>1. f[i] \in DOMAIN journal /\ f[i] <= journal[f[i]].body.sequence_number
      BY DEF JournalInv, RowsInOrder
    <3> QED  BY <3>1, <1>4, <1>5
  <2>2. ASSUME NEW i \in DOMAIN journal', NEW j \in DOMAIN journal', i < j
        PROVE  journal'[i].body.sequence_number < journal'[j].body.sequence_number
    BY <2>2, <1>4 DEF JournalInv, RowsInOrder
  <2> QED  BY <2>1, <2>2 DEF RowsInOrder
<1> QED  BY <1>3, <1>4, <1>5, <1>6

LEMMA ThinnedKeeps ==
    ASSUME JournalInv, Thinned, UNCHANGED <<minted, truth>>,
           LastSequence(journal') = LastSequence(journal)
    PROVE  JournalInv'
<1>1. ASSUME NEW i \in DOMAIN journal'
      PROVE  RowIsTrue(i)'
  <2>1. PICK k \in DOMAIN journal :
           /\ journal'[i].body.sequence_number = journal[k].body.sequence_number
           /\ journal'[i].body.event_id = journal[k].body.event_id
           /\ journal'[i].content_hash = journal[k].content_hash
    BY ThinnedRows
  <2>2. RowIsTrue(k)
    BY DEF JournalInv
  <2> QED  BY <2>1, <2>2 DEF RowIsTrue
<1>2. TruthTyped'
  BY DEF JournalInv, TruthTyped
<1> QED  BY <1>1, <1>2, ThinnedRows DEF JournalInv

LEMMA OlderKeeps ==
    ASSUME JournalInv, NEW i \in DOMAIN journal, OlderCopy(i)
    PROVE  JournalInv' /\ Len(truth') <= Len(truth)
<1> DEFINE n == LastSequence(journal')
<1>1. Thinned
  BY OlderThins DEF JournalInv
<1>2. journal' = SubSeq(journal, 1, i - 1) /\ truth' = SubSeq(truth, 1, n) /\ minted' = minted
  BY DEF OlderCopy
<1>3. /\ Len(journal) \in Nat /\ DOMAIN journal = 1..Len(journal) /\ Len(truth) \in Nat
  BY LastRow
<1>4. PICK H : journal \in Seq(Rows(H))
  BY DEF JournalInv, RowsTyped
<1>5. DOMAIN journal' = 1..(i - 1) /\ Len(journal') = i - 1
      /\ \A k \in 1..(i - 1) : k \in DOMAIN journal /\ journal'[k] = journal[k]
  BY <1>2, <1>3, <1>4
<1>6. n \in 0..Len(truth) /\ \A k \in DOMAIN journal' : journal'[k].body.sequence_number <= n
  <2>1. CASE i = 1
    BY <2>1, <1>2, <1>3, <1>5 DEF LastSequence
  <2>2. CASE i # 1
    <3>1. i - 1 \in DOMAIN journal' /\ journal' # <<>>
      BY <2>2, <1>2, <1>3, <1>4, <1>5
    <3>2. n = journal[i - 1].body.sequence_number
      BY <3>1, <1>5 DEF LastSequence
    <3>3. \A k \in DOMAIN journal : journal[k].body.sequence_number \in 1..Len(truth)
      BY DEF JournalInv, RowIsTrue
    <3>4. i - 1 \in DOMAIN journal
      BY <3>1, <1>5
    <3>5. ASSUME NEW k \in DOMAIN journal'
          PROVE  journal[k].body.sequence_number <= n
      <4>1. CASE k = i - 1
        BY <4>1, <3>2, <3>3, <3>4, <1>3
      <4>2. CASE k # i - 1
        <5>1. k \in DOMAIN journal /\ k < i - 1
          BY <4>2, <1>3, <1>5
        <5>2. journal[k].body.sequence_number < journal[i - 1].body.sequence_number
          BY <5>1, <3>4 DEF JournalInv, RowsInOrder
        <5> QED  BY <5>1, <5>2, <3>2, <3>3, <3>4, <1>3
      <4> QED  BY <4>1, <4>2
    <3> QED  BY <3>2, <3>3, <3>4, <3>5, <1>3, <1>5
  <2> QED  BY <2>1, <2>2
<1> HIDE DEF n
<1>7. /\ truth \in Seq((1..minted) \X Worlds) /\ minted \in 0..MaxEvents
      /\ Len(truth) <= minted /\ MaxEvents \in Nat
  BY ContinuityAssumption DEF JournalInv, TruthTyped
<1>8. /\ truth' \in Seq((1..minted) \X Worlds) /\ Len(truth') = n
      /\ \A k \in 1..n : truth'[k] = truth[k]
  BY <1>2, <1>3, <1>6, <1>7
<1>9. TruthTyped'
  BY <1>2, <1>3, <1>6, <1>7, <1>8 DEF TruthTyped, n
<1>10. ASSUME NEW k \in DOMAIN journal'
       PROVE  RowIsTrue(k)'
  <2>1. k \in DOMAIN journal /\ journal'[k] = journal[k]
    BY <1>5
  <2>2. RowIsTrue(k)
    BY <2>1 DEF JournalInv
  <2>3. journal[k].body.sequence_number \in 1..n
    BY <2>1, <2>2, <1>3, <1>6 DEF RowIsTrue
  <2> QED  BY <2>1, <2>2, <2>3, <1>8 DEF RowIsTrue
<1> QED  BY <1>1, <1>3, <1>6, <1>8, <1>9, <1>10, ThinnedRows DEF JournalInv

------------------------------------------------------------------------------
(* The artifacts: a registered one is whole or was lost, and what a cycle is   *)
(* about to insert or to refer to is so as well; a file that a cycle writes    *)
(* anew is not that of a registered artifact that still stands.                *)
Stands(a) == storage[a] = "full" \/ a \in gone

CycleHolds(c) ==
    /\ cpc[c] # "idle" => task[c] \in IdsOf[c] \X Contents
    /\ cpc[c] \in {"open", "fill"} => (task[c] \in artifacts => task[c] \in gone)
    /\ cpc[c] = "insert" => Stands(task[c])
    /\ cpc[c] = "append" => task[c] \in artifacts

StoreInv ==
    /\ storage \in [Paths -> {"none", "part", "full"}]
    /\ artifacts \subseteq Paths
    /\ cpc \in [Cycles -> {"idle", "look", "open", "fill", "insert", "append"}]
    /\ task \in [Cycles -> Paths \cup {NoTask}]
    /\ \A a \in artifacts : Stands(a)
    /\ \A c \in Cycles : CycleHolds(c)

RefsKnown == \A i \in DOMAIN journal : journal[i].body.artifact_refs \subseteq artifacts

(* Two cycles never work on the same path.                                     *)
LEMMA PathsApart ==
    ASSUME StoreInv, NEW c \in Cycles, cpc[c] # "idle"
    PROVE  /\ task[c] \in Paths
           /\ \A d \in Cycles : d # c /\ cpc[d] # "idle" => task[d] # task[c]
<1>1. \A d \in Cycles : cpc[d] # "idle" => task[d] \in IdsOf[d] \X Contents
  BY DEF StoreInv, CycleHolds
<1>2. \A d \in Cycles : d # c => IdsOf[d] \cap IdsOf[c] = {}
  BY ContinuityAssumption
<1>3. IdsOf[c] \subseteq Ids
  BY DEF Ids
<1> QED  BY <1>1, <1>2, <1>3 DEF Paths

LEMMA StoreStep ==
    ASSUME StoreInv, [ContinuityNext]_continuityVars
    PROVE  StoreInv'
<1>1. ASSUME NEW c \in Cycles, RegisterBytes(c)
      PROVE  StoreInv'
  <2>1. PICK i \in IdsOf[c], x \in Contents : task' = [task EXCEPT ![c] = <<i, x>>]
    BY <1>1 DEF RegisterBytes
  <2>2. i \in Ids
    BY DEF Ids
  <2>3. cpc' = [cpc EXCEPT ![c] = "look"] /\ UNCHANGED <<storage, artifacts, gone>>
    BY <1>1 DEF RegisterBytes, storeVars, mishapVars
  <2>4. task' \in [Cycles -> Paths \cup {NoTask}]
        /\ cpc' \in [Cycles -> {"idle", "look", "open", "fill", "insert", "append"}]
    BY <2>1, <2>2, <2>3 DEF StoreInv, Paths
  <2>5. \A d \in Cycles : CycleHolds(d)'
    BY <2>1, <2>3 DEF StoreInv, CycleHolds, Stands
  <2> QED  BY <2>3, <2>4, <2>5 DEF StoreInv, Stands
<1>2. ASSUME NEW c \in Cycles, LookAtPath(c)
      PROVE  StoreInv'
  <2>1. UNCHANGED <<storage, artifacts, gone>> /\ cpc[c] = "look" /\ task[c] \in Paths
    BY <1>2, PathsApart DEF LookAtPath, storeVars, mishapVars
  <2>2. PathOutcome(task[c]) = IF storage[task[c]] = "none" THEN "open"
                               ELSE IF storage[task[c]] = "full" THEN "insert" ELSE "idle"
    BY <2>1 DEF StoreInv, PathOutcome
  <2>3. cpc' = [cpc EXCEPT ![c] = PathOutcome(task[c])]
    BY <1>2 DEF LookAtPath
  <2>4. task' = [task EXCEPT ![c] = IF PathOutcome(task[c]) = "idle" THEN NoTask ELSE task[c]]
    BY <1>2, <2>3 DEF LookAtPath, StoreInv
  <2>5. task' \in [Cycles -> Paths \cup {NoTask}]
        /\ cpc' \in [Cycles -> {"idle", "look", "open", "fill", "insert", "append"}]
    BY <2>1, <2>2, <2>3, <2>4 DEF StoreInv
  <2>6. CycleHolds(c)'
    <3>1. cpc'[c] = PathOutcome(task[c]) /\ (cpc'[c] # "idle" => task'[c] = task[c])
      BY <2>3, <2>4 DEF StoreInv
    <3>2. task[c] \in artifacts => Stands(task[c])
      BY DEF StoreInv
    <3> QED  BY <2>1, <2>2, <3>1, <3>2 DEF StoreInv, CycleHolds, Stands
  <2>7. \A d \in Cycles : d # c => CycleHolds(d)'
    BY <2>1, <2>3, <2>4 DEF StoreInv, CycleHolds, Stands
  <2> QED  BY <2>1, <2>5, <2>6, <2>7 DEF StoreInv, Stands
<1>3. ASSUME NEW c \in Cycles, OpenFile(c)
      PROVE  StoreInv'
  <2>1. /\ UNCHANGED <<artifacts, task, gone>> /\ cpc[c] = "open"
        /\ storage' = [storage EXCEPT ![task[c]] = "part"] /\ cpc' = [cpc EXCEPT ![c] = "fill"]
    BY <1>3 DEF OpenFile, mishapVars
  <2>2. task[c] \in Paths /\ \A d \in Cycles : d # c /\ cpc[d] # "idle" => task[d] # task[c]
    BY <2>1, PathsApart
  <2>3. task[c] \in artifacts => task[c] \in gone
    BY <2>1 DEF StoreInv, CycleHolds
  <2>4. \A a \in artifacts : Stands(a)'
    BY <2>1, <2>2, <2>3 DEF StoreInv, Stands
  <2>5. ASSUME NEW d \in Cycles
        PROVE  CycleHolds(d)'
    <3>1. CASE d = c
      BY <3>1, <2>1, <2>3 DEF StoreInv, CycleHolds
    <3>2. CASE d # c
      <4>1. cpc'[d] = cpc[d] /\ task'[d] = task[d] /\ CycleHolds(d)
        BY <3>2, <2>1 DEF StoreInv
      <4>2. cpc[d] = "insert" => storage'[task[d]] = storage[task[d]]
        <5>1. ASSUME cpc[d] = "insert" PROVE task[d] \in Paths /\ task[d] # task[c]
          BY <5>1, <3>2, <2>2, PathsApart
        <5> QED  BY <5>1, <2>1 DEF StoreInv
      <4> QED  BY <2>1, <4>1, <4>2 DEF CycleHolds, Stands
    <3> QED  BY <3>1, <3>2
  <2> QED  BY <2>1, <2>4, <2>5 DEF StoreInv
<1>4. ASSUME NEW c \in Cycles, FillFile(c)
      PROVE  StoreInv'
  <2>1. /\ UNCHANGED <<artifacts, task, gone>> /\ cpc[c] = "fill"
        /\ storage' = [storage EXCEPT ![task[c]] = "full"] /\ cpc' = [cpc EXCEPT ![c] = "insert"]
    BY <1>4 DEF FillFile, mishapVars
  <2>2. task[c] \in Paths /\ storage'[task[c]] = "full"
    BY <2>1, PathsApart DEF StoreInv
  <2>3. \A a \in Paths : Stands(a) => Stands(a)'
    BY <2>1 DEF StoreInv, Stands
  <2>4. \A a \in artifacts : Stands(a)'
    BY <2>1, <2>3 DEF StoreInv
  <2>5. ASSUME NEW d \in Cycles
        PROVE  CycleHolds(d)'
    <3>1. CASE d = c
      BY <3>1, <2>1, <2>2 DEF StoreInv, CycleHolds, Stands
    <3>2. CASE d # c
      <4>1. cpc'[d] = cpc[d] /\ task'[d] = task[d] /\ CycleHolds(d)
        BY <3>2, <2>1 DEF StoreInv
      <4>2. cpc[d] = "insert" => task[d] \in Paths
        BY PathsApart
      <4> QED  BY <2>1, <2>3, <4>1, <4>2 DEF CycleHolds
    <3> QED  BY <3>1, <3>2
  <2> QED  BY <2>1, <2>4, <2>5 DEF StoreInv
<1>5. ASSUME NEW c \in Cycles, InsertArtifact(c)
      PROVE  StoreInv'
  <2>1. UNCHANGED <<storage, gone>> /\ cpc[c] = "insert"
    BY <1>5 DEF InsertArtifact, mishapVars
  <2>2. /\ task[c] \in Paths /\ Stands(task[c])
        /\ \A d \in Cycles : d # c /\ cpc[d] # "idle" => task[d] # task[c]
    BY <2>1, PathsApart DEF StoreInv, CycleHolds
  <2>3. CASE \E a \in artifacts : a[1] = task[c][1]
    <3>1. /\ artifacts' = artifacts /\ cpc' = [cpc EXCEPT ![c] = "idle"]
          /\ task' = [task EXCEPT ![c] = NoTask]
      BY <1>5, <2>3 DEF InsertArtifact
    <3>2. task' \in [Cycles -> Paths \cup {NoTask}]
          /\ cpc' \in [Cycles -> {"idle", "look", "open", "fill", "insert", "append"}]
      BY <3>1 DEF StoreInv
    <3>3. \A d \in Cycles : CycleHolds(d)'
      BY <2>1, <3>1 DEF StoreInv, CycleHolds, Stands
    <3> QED  BY <2>1, <3>1, <3>2, <3>3 DEF StoreInv, Stands
  <2>4. CASE ~\E a \in artifacts : a[1] = task[c][1]
    <3>1. /\ artifacts' = artifacts \cup {task[c]} /\ cpc' = [cpc EXCEPT ![c] = "append"]
          /\ task' = task
      BY <1>5, <2>4 DEF InsertArtifact
    <3>2. cpc' \in [Cycles -> {"idle", "look", "open", "fill", "insert", "append"}]
      BY <3>1 DEF StoreInv
    <3>3. \A d \in Cycles : CycleHolds(d)'
      BY <2>1, <2>2, <3>1 DEF StoreInv, CycleHolds, Stands
    <3>4. \A a \in artifacts' : Stands(a)'
      BY <2>1, <2>2, <3>1 DEF StoreInv, Stands
    <3> QED  BY <2>1, <2>2, <3>1, <3>2, <3>3, <3>4 DEF StoreInv
  <2> QED  BY <2>3, <2>4
<1>6. ASSUME NEW c \in Cycles, AppendWithRef(c)
      PROVE  StoreInv'
  <2>1. UNCHANGED <<storage, artifacts, gone>> /\ cpc' = [cpc EXCEPT ![c] = "idle"]
        /\ task' = [task EXCEPT ![c] = NoTask]
    BY <1>6 DEF AppendWithRef, storeVars, mishapVars
  <2>2. task' \in [Cycles -> Paths \cup {NoTask}]
        /\ cpc' \in [Cycles -> {"idle", "look", "open", "fill", "insert", "append"}]
    BY <2>1 DEF StoreInv
  <2>3. \A d \in Cycles : CycleHolds(d)'
    BY <2>1 DEF StoreInv, CycleHolds, Stands
  <2> QED  BY <2>1, <2>2, <2>3 DEF StoreInv, Stands
<1>7. ASSUME Death
      PROVE  StoreInv'
  <2>1. UNCHANGED <<storage, artifacts, gone>>
    BY <1>7 DEF Death, storeVars
  <2>2. CASE UNCHANGED cycleVars
    BY <2>1, <2>2 DEF StoreInv, CycleHolds, Stands, cycleVars
  <2>3. ASSUME NEW c \in Cycles, cpc' = [cpc EXCEPT ![c] = "idle"],
               task' = [task EXCEPT ![c] = NoTask]
        PROVE  StoreInv'
    <3>1. task' \in [Cycles -> Paths \cup {NoTask}]
          /\ cpc' \in [Cycles -> {"idle", "look", "open", "fill", "insert", "append"}]
      BY <2>3 DEF StoreInv
    <3>2. \A d \in Cycles : CycleHolds(d)'
      BY <2>1, <2>3 DEF StoreInv, CycleHolds, Stands
    <3> QED  BY <2>1, <3>1, <3>2 DEF StoreInv, Stands
  <2> QED  BY <1>7, <2>2, <2>3 DEF Death
<1>8. ASSUME Damage
      PROVE  StoreInv'
  <2>1. UNCHANGED <<artifacts, cpc, task>>
    BY <1>8 DEF Damage, cycleVars
  <2>2. CASE UNCHANGED <<storage, gone>>
    BY <2>1, <2>2 DEF StoreInv, CycleHolds, Stands
  <2>3. ASSUME NEW p \in Paths, FileGone(p)
        PROVE  StoreInv'
    <3>1. storage' = [storage EXCEPT ![p] = "none"] /\ gone' = gone \cup {p}
      BY <2>3 DEF FileGone
    <3>2. \A a \in Paths : Stands(a) => Stands(a)'
      BY <3>1 DEF StoreInv, Stands
    <3>3. ASSUME NEW d \in Cycles
          PROVE  CycleHolds(d)'
      <4>1. cpc[d] = "insert" => task[d] \in Paths
        BY PathsApart
      <4> QED  BY <2>1, <3>1, <3>2, <4>1 DEF StoreInv, CycleHolds
    <3> QED  BY <2>1, <3>1, <3>2, <3>3 DEF StoreInv
  <2> QED  BY <1>8, <2>2, <2>3 DEF Damage, RowAltered, RowMissing, OlderCopy
<1>9. CASE UNCHANGED <<storage, artifacts, cpc, task, gone>>
  BY <1>9 DEF StoreInv, CycleHolds, Stands
<1> QED
  <2>1. ASSUME NEW c \in Cycles, AppendPlain(c)
        PROVE  StoreInv'
    BY <2>1, <1>9 DEF AppendPlain, storeVars, cycleVars, mishapVars
  <2>2. ASSUME NEW d \in Directors,
               ReadCheckpoint(d) \/ SelectEvents(d) \/ CheckAdvance(d) \/ UpsertCheckpoint(d)
        PROVE  StoreInv'
    BY <2>2, <1>9 DEF ReadCheckpoint, SelectEvents, CheckAdvance, UpsertCheckpoint,
                      storeVars, cycleVars, mishapVars
  <2>3. CASE Replay
    BY <2>3, <1>9 DEF Replay, storeVars, cycleVars, mishapVars
  <2>4. CASE UNCHANGED continuityVars
    BY <2>4, <1>9 DEF continuityVars, storeVars, cycleVars, mishapVars
  <2> QED  BY <1>1, <1>2, <1>3, <1>4, <1>5, <1>6, <1>7, <1>8, <2>1, <2>2, <2>3, <2>4
           DEF ContinuityNext

------------------------------------------------------------------------------
(* The four ways a step may touch the journal.                                 *)
JournalRests == UNCHANGED journalVars
JournalGrows == \E w \in Worlds, refs \in SUBSET artifacts : AppendRow(w, refs)
JournalThins == /\ Thinned /\ UNCHANGED <<minted, truth>>
                /\ LastSequence(journal') = LastSequence(journal)
JournalFalls == /\ restored'
                /\ \E i \in DOMAIN journal : OlderCopy(i)

LEMMA JournalMoves ==
    ASSUME JournalInv, StoreInv, [ContinuityNext]_continuityVars
    PROVE  JournalRests \/ JournalGrows \/ JournalThins \/ JournalFalls
<1>1. ASSUME NEW c \in Cycles, AppendWithRef(c)
      PROVE  JournalGrows
  <2>1. cpc[c] = "append" /\ \E w \in Worlds : AppendRow(w, {task[c]})
    BY <1>1 DEF AppendWithRef
  <2>2. {task[c]} \in SUBSET artifacts
    BY <2>1 DEF StoreInv, CycleHolds
  <2> QED  BY <2>1, <2>2 DEF JournalGrows
<1>2. ASSUME NEW c \in Cycles, AppendPlain(c)
      PROVE  JournalGrows
  <2>1. \E w \in Worlds : AppendRow(w, {})
    BY <1>2 DEF AppendPlain
  <2> QED  BY <2>1 DEF JournalGrows
<1>3. ASSUME Damage
      PROVE  JournalRests \/ JournalThins \/ JournalFalls
  <2>1. ASSUME NEW i \in DOMAIN journal, NEW w \in Worlds, RowAltered(i, w)
        PROVE  JournalThins
    <3>1. Thinned /\ LastSequence(journal') = LastSequence(journal)
      BY <2>1, AlteredThins DEF JournalInv
    <3> QED  BY <2>1, <3>1 DEF JournalThins, RowAltered
  <2>2. ASSUME NEW i \in DOMAIN journal, RowMissing(i)
        PROVE  JournalThins
    <3>1. Thinned /\ LastSequence(journal') = LastSequence(journal)
      BY <2>2, MissingThins DEF JournalInv
    <3> QED  BY <2>2, <3>1 DEF JournalThins, RowMissing
  <2>3. ASSUME NEW i \in DOMAIN journal, OlderCopy(i)
        PROVE  JournalFalls
    <3>1. restored'
      BY <2>3 DEF OlderCopy
    <3> QED  BY <2>3, <3>1 DEF JournalFalls
  <2>4. ASSUME NEW p \in Paths, FileGone(p)
        PROVE  JournalRests
    BY <2>4 DEF FileGone, JournalRests
  <2> QED  BY <1>3, <2>1, <2>2, <2>3, <2>4 DEF Damage
<1>4. ASSUME NEW c \in Cycles,
             RegisterBytes(c) \/ LookAtPath(c) \/ OpenFile(c) \/ FillFile(c) \/ InsertArtifact(c)
      PROVE  JournalRests
  BY <1>4 DEF RegisterBytes, LookAtPath, OpenFile, FillFile, InsertArtifact, JournalRests
<1>5. ASSUME NEW d \in Directors,
             ReadCheckpoint(d) \/ SelectEvents(d) \/ CheckAdvance(d) \/ UpsertCheckpoint(d)
      PROVE  JournalRests
  BY <1>5 DEF ReadCheckpoint, SelectEvents, CheckAdvance, UpsertCheckpoint, JournalRests
<1>6. ASSUME Replay \/ Death
      PROVE  JournalRests
  BY <1>6 DEF Replay, Death, JournalRests
<1>7. CASE UNCHANGED continuityVars
  BY <1>7 DEF continuityVars, JournalRests
<1> QED  BY <1>1, <1>2, <1>3, <1>4, <1>5, <1>6, <1>7 DEF ContinuityNext

LEMMA JournalStep ==
    ASSUME JournalInv, StoreInv, [ContinuityNext]_continuityVars
    PROVE  JournalInv'
<1>1. CASE JournalRests
  BY <1>1 DEF JournalRests, journalVars, JournalInv, RowsTyped, TruthTyped, RowsInOrder, RowIsTrue
<1>2. CASE JournalGrows
  <2>1. PICK w \in Worlds, refs \in SUBSET artifacts : AppendRow(w, refs)
    BY <1>2 DEF JournalGrows
  <2>2. refs \in SUBSET Paths
    BY DEF StoreInv
  <2> QED  BY <2>1, <2>2, AppendKeeps
<1>3. CASE JournalThins
  BY <1>3, ThinnedKeeps DEF JournalThins
<1>4. CASE JournalFalls
  BY <1>4, OlderKeeps DEF JournalFalls
<1> QED  BY <1>1, <1>2, <1>3, <1>4, JournalMoves

LEMMA ArtifactsStay ==
    ASSUME StoreInv, [ContinuityNext]_continuityVars
    PROVE  artifacts \subseteq artifacts'
<1>1. ASSUME NEW c \in Cycles, InsertArtifact(c)
      PROVE  artifacts \subseteq artifacts'
  BY <1>1 DEF InsertArtifact
<1>2. ASSUME NEW c \in Cycles, RegisterBytes(c) \/ LookAtPath(c) \/ OpenFile(c) \/ FillFile(c)
                               \/ AppendWithRef(c) \/ AppendPlain(c)
      PROVE  artifacts' = artifacts
  BY <1>2 DEF RegisterBytes, LookAtPath, OpenFile, FillFile, AppendWithRef, AppendPlain, storeVars
<1>3. ASSUME NEW d \in Directors,
             ReadCheckpoint(d) \/ SelectEvents(d) \/ CheckAdvance(d) \/ UpsertCheckpoint(d)
      PROVE  artifacts' = artifacts
  BY <1>3 DEF ReadCheckpoint, SelectEvents, CheckAdvance, UpsertCheckpoint, storeVars
<1>4. ASSUME Replay \/ Death \/ Damage
      PROVE  artifacts' = artifacts
  BY <1>4 DEF Replay, Death, Damage, storeVars
<1>5. CASE UNCHANGED continuityVars
  BY <1>5 DEF continuityVars, storeVars
<1> QED  BY <1>1, <1>2, <1>3, <1>4, <1>5 DEF ContinuityNext

LEMMA RefsStep ==
    ASSUME JournalInv, StoreInv, RefsKnown, [ContinuityNext]_continuityVars
    PROVE  RefsKnown'
<1>1. artifacts \subseteq artifacts'
  BY ArtifactsStay
<1>2. ASSUME NEW i \in DOMAIN journal'
      PROVE  journal'[i].body.artifact_refs \subseteq artifacts
  <2>1. CASE JournalRests
    BY <2>1 DEF JournalRests, journalVars, RefsKnown
  <2>2. CASE JournalGrows
    <3>1. PICK w \in Worlds, refs \in SUBSET artifacts : AppendRow(w, refs)
      BY <2>2 DEF JournalGrows
    <3>2. refs \in SUBSET Paths
      BY DEF StoreInv
    <3>3. /\ DOMAIN journal' = 1..(Len(journal) + 1)
          /\ \A k \in DOMAIN journal : journal'[k] = journal[k]
          /\ journal'[Len(journal) + 1].body.artifact_refs = refs
      BY <3>1, <3>2, AppendedRow
    <3>4. i \in DOMAIN journal \/ i = Len(journal) + 1
      BY <3>3, LastRow
    <3> QED  BY <3>3, <3>4 DEF RefsKnown
  <2>3. CASE Thinned
    <3>1. PICK k \in DOMAIN journal :
             journal'[i].body.artifact_refs = journal[k].body.artifact_refs
      BY <2>3, ThinnedRows
    <3> QED  BY <3>1 DEF RefsKnown
  <2>4. JournalFalls => Thinned
    BY OlderThins DEF JournalFalls, JournalInv
  <2> QED  BY <2>1, <2>2, <2>3, <2>4, JournalMoves DEF JournalThins
<1> QED  BY <1>1, <1>2 DEF RefsKnown

(* A journal that verifies has each event in its place.                        *)
LEMMA ValidJournalIsTrue ==
    ASSUME JournalInv, JournalValid(journal)
    PROVE  [i \in DOMAIN journal |-> <<journal[i].body.event_id, journal[i].body.world_id>>]
             = truth
<1>1. /\ Len(journal) \in Nat /\ DOMAIN journal = 1..Len(journal)
      /\ Len(truth) \in Nat
      /\ journal # <<>> => /\ Len(journal) \in DOMAIN journal
                           /\ journal[Len(journal)].body.sequence_number = Len(truth)
      /\ journal = <<>> => Len(truth) = 0
  BY LastRow
<1>2. \A i \in DOMAIN journal : journal[i].body.sequence_number = i
                                /\ journal[i].content_hash = journal[i].body
  BY DEF JournalValid, VerifyHash, HashBody
<1>3. Len(journal) = Len(truth)
  BY <1>1, <1>2
<1>4. truth \in Seq((1..minted) \X Worlds)
  BY DEF JournalInv, TruthTyped
<1>5. DOMAIN truth = DOMAIN journal
  BY <1>1, <1>3, <1>4
<1>6. \A i \in DOMAIN journal :
        truth[i] = <<journal[i].body.event_id, journal[i].body.world_id>>
  BY <1>2 DEF JournalInv, RowIsTrue
<1>7. truth = [i \in DOMAIN truth |-> truth[i]]
  BY <1>4
<1> QED  BY <1>5, <1>6, <1>7

------------------------------------------------------------------------------
(* The directors: every number they hold is one the journal has reached, and   *)
(* all events up to it were read, unless an older copy took its place.         *)
ReadUpTo(n) == \A i \in DOMAIN journal :
    journal[i].body.sequence_number <= n => journal[i].body.event_id \in read

Reached(n) == ~restored => n <= Len(truth)

DirectorsTyped ==
    /\ dpc \in [Directors -> {"idle", "select", "check", "upsert"}]
    /\ batch \in [Directors -> [seen : Nat, max : Nat]]
    /\ checkpoint \in 0..minted
    /\ \A d \in Directors : batch[d].seen <= minted /\ batch[d].max <= minted
    /\ read \subseteq 1..minted

DirectorHolds(d) ==
    /\ dpc[d] = "select" => Reached(batch[d].seen) /\ (~restored => ReadUpTo(batch[d].seen))
    /\ dpc[d] \in {"check", "upsert"} =>
         Reached(batch[d].max) /\ (~restored => ReadUpTo(batch[d].max))

DirectorInv ==
    /\ DirectorsTyped
    /\ Reached(checkpoint) /\ (~restored => ReadUpTo(checkpoint))
    /\ \A d \in Directors : DirectorHolds(d)

(* The events of a batch are rows without a gap; no row before them is new.    *)
LEMMA ListedEvents ==
    ASSUME JournalInv, NEW after \in Nat, NEW limit \in Nat \ {0},
           NEW events, events = ListEvents(journal, after, limit), events # <<>>
    PROVE  \E m, n \in DOMAIN journal :
             /\ m <= n
             /\ Len(events) = n - m + 1
             /\ DOMAIN events = 1..(n - m + 1)
             /\ \A k \in 1..(n - m + 1) : events[k] = journal[m + k - 1]
             /\ \A i \in DOMAIN journal : i < m => journal[i].body.sequence_number <= after
<1> DEFINE later == {i \in DOMAIN journal : journal[i].body.sequence_number > after}
           m == Min(later)
           n == Min({m + limit - 1, Len(journal)})
<1>1. PICK H : journal \in Seq(Rows(H))
  BY DEF JournalInv, RowsTyped
<1>2. Len(journal) \in Nat /\ DOMAIN journal = 1..Len(journal) /\ Len(truth) \in Nat
  BY LastRow
<1>3. \A i \in DOMAIN journal : journal[i].body.sequence_number \in Nat
  BY <1>2 DEF JournalInv, RowIsTrue
<1>4. later # {} /\ events = SubSeq(journal, m, n)
  BY DEF ListEvents
<1>5. m \in later /\ \A i \in later : m <= i
  <2>1. later \in SUBSET Nat
    BY <1>2
  <2> HIDE DEF later
  <2> QED  BY <1>4, <2>1, Least
<1>6. m \in DOMAIN journal /\ m \in Nat /\ m + limit - 1 \in Nat
  BY <1>2, <1>5
<1>7. n = IF m + limit - 1 <= Len(journal) THEN m + limit - 1 ELSE Len(journal)
  <2> HIDE DEF m
  <2> QED  BY <1>2, <1>6, MinOfTwo
<1>8. \A i \in DOMAIN journal : i < m => journal[i].body.sequence_number <= after
  <2>1. ASSUME NEW i \in DOMAIN journal, i < m
        PROVE  journal[i].body.sequence_number <= after
    <3>1. i \notin later
      <4> HIDE DEF m, later
      <4> QED  BY <2>1, <1>2, <1>5, <1>6
    <3> QED  BY <3>1, <1>3
  <2> QED  BY <2>1
<1> HIDE DEF m, n, later
<1>9. n \in DOMAIN journal /\ n \in Nat /\ m <= n
  <2>1. m \in 1..Len(journal)
    BY <1>2, <1>6
  <2>2. CASE m + limit - 1 <= Len(journal)
    BY <2>1, <2>2, <1>2, <1>6, <1>7
  <2>3. CASE ~(m + limit - 1 <= Len(journal))
    BY <2>1, <2>3, <1>2, <1>7
  <2> QED  BY <2>2, <2>3
<1>10. /\ Len(events) = n - m + 1 /\ DOMAIN events = 1..(n - m + 1)
       /\ \A k \in 1..(n - m + 1) : events[k] = journal[m + k - 1]
  BY <1>1, <1>2, <1>4, <1>6, <1>9
<1> QED  BY <1>6, <1>8, <1>9, <1>10

(* A batch reads all up to its last number; the last number is one of a row.   *)
LEMMA BatchReads ==
    ASSUME JournalInv, DirectorsTyped, NEW after \in Nat, NEW limit \in Nat \ {0},
           NEW events, events = ListEvents(journal, after, limit), events # <<>>,
           read' = read \cup {events[i].body.event_id : i \in DOMAIN events}
    PROVE  /\ LastSequence(events) \in 1..Len(truth)
           /\ read' \subseteq 1..minted
           /\ ReadUpTo(after) => \A i \in DOMAIN journal :
                journal[i].body.sequence_number <= LastSequence(events)
                  => journal[i].body.event_id \in read'
<1>1. PICK m \in DOMAIN journal, n \in DOMAIN journal :
             /\ m <= n
             /\ Len(events) = n - m + 1
             /\ DOMAIN events = 1..(n - m + 1)
             /\ \A k \in 1..(n - m + 1) : events[k] = journal[m + k - 1]
             /\ \A i \in DOMAIN journal : i < m => journal[i].body.sequence_number <= after
  BY ListedEvents
<1>2. /\ Len(journal) \in Nat /\ DOMAIN journal = 1..Len(journal) /\ Len(truth) \in Nat
  BY LastRow
<1>3. /\ m \in Nat /\ n \in Nat
      /\ \A k \in 1..(n - m + 1) : m + k - 1 \in DOMAIN journal
  BY <1>1, <1>2
<1>4. LastSequence(events) = journal[n].body.sequence_number
  <2>1. n - m + 1 \in 1..(n - m + 1) /\ m + (n - m + 1) - 1 = n
    BY <1>1, <1>3
  <2>2. events[Len(events)] = journal[n]
    BY <1>1, <2>1
  <2> QED  BY <2>2 DEF LastSequence
<1>5. \A i \in DOMAIN journal : journal[i].body.sequence_number \in 1..Len(truth)
  BY DEF JournalInv, RowIsTrue
<1>6. \A i \in DOMAIN journal : journal[i].body.event_id \in 1..minted
  <2>1. ASSUME NEW i \in DOMAIN journal
        PROVE  journal[i].body.event_id \in 1..minted
    <3>1. RowIsTrue(i) /\ truth \in Seq((1..minted) \X Worlds)
      BY DEF JournalInv, TruthTyped
    <3>2. truth[journal[i].body.sequence_number] \in (1..minted) \X Worlds
      BY <3>1, ElementOfSeq DEF RowIsTrue
    <3> QED  BY <3>1, <3>2 DEF RowIsTrue
  <2> QED  BY <2>1
<1>7. read' \subseteq 1..minted
  <2>1. \A k \in DOMAIN events : events[k].body.event_id \in 1..minted
    BY <1>1, <1>3, <1>6
  <2> QED  BY <2>1 DEF DirectorsTyped
<1>8. ASSUME ReadUpTo(after), NEW i \in DOMAIN journal,
             journal[i].body.sequence_number <= LastSequence(events)
      PROVE  journal[i].body.event_id \in read'
  <2>1. CASE i < m
    BY <2>1, <1>1, <1>8 DEF ReadUpTo
  <2>2. CASE ~(i < m)
    <3>1. i <= n
      <4>1. n < i => journal[n].body.sequence_number < journal[i].body.sequence_number
        BY DEF JournalInv, RowsInOrder
      <4>2. /\ journal[n].body.sequence_number \in Nat
            /\ journal[i].body.sequence_number \in Nat
        BY <1>2, <1>5
      <4> QED  BY <4>1, <4>2, <1>2, <1>3, <1>4, <1>8
    <3>2. i - m + 1 \in 1..(n - m + 1) /\ m + (i - m + 1) - 1 = i
      BY <2>2, <3>1, <1>2, <1>3
    <3>3. events[i - m + 1] = journal[i] /\ i - m + 1 \in DOMAIN events
      BY <3>2, <1>1
    <3> QED  BY <3>3
  <2> QED  BY <2>1, <2>2
<1> QED  BY <1>4, <1>5, <1>7, <1>8

(* While the journal only grows or thins, what was reached and read stays so.  *)
LEMMA ReachedStays ==
    ASSUME JournalInv, StoreInv, UNCHANGED restored,
           JournalRests \/ JournalGrows \/ JournalThins,
           NEW n \in Int, Reached(n)
    PROVE  /\ minted' >= minted /\ minted \in Nat /\ minted' \in Nat
           /\ Reached(n)'
           /\ (~restored => ReadUpTo(n)) /\ read \subseteq read'
                => (~restored => ReadUpTo(n))'
<1>0. Len(truth) \in Nat /\ minted \in Nat
  BY LastRow, ContinuityAssumption DEF JournalInv, TruthTyped
<1>1. CASE JournalRests
  BY <1>0, <1>1 DEF JournalRests, journalVars, Reached, ReadUpTo
<1>2. CASE JournalGrows
  <2>1. PICK w \in Worlds, refs \in SUBSET artifacts : AppendRow(w, refs)
    BY <1>2 DEF JournalGrows
  <2>2. refs \in SUBSET Paths
    BY DEF StoreInv
  <2>3. /\ DOMAIN journal' = 1..(Len(journal) + 1)
        /\ \A k \in DOMAIN journal : journal'[k] = journal[k]
        /\ journal'[Len(journal) + 1].body.sequence_number = Len(truth) + 1
    BY <2>1, <2>2, AppendedRow
  <2>4. \A i \in DOMAIN journal' : i \in DOMAIN journal \/ i = Len(journal) + 1
    BY <2>3, LastRow
  <2>5. Len(truth') = Len(truth) + 1 /\ minted' = minted + 1
    <3>1. truth \in Seq((1..minted) \X Worlds)
      BY DEF JournalInv, TruthTyped
    <3> QED  BY <2>1, <3>1 DEF AppendRow
  <2>6. Reached(n)'
    BY <1>0, <2>5 DEF Reached
  <2>7. ASSUME ~restored, ReadUpTo(n), read \subseteq read', NEW i \in DOMAIN journal',
               journal'[i].body.sequence_number <= n
        PROVE  journal'[i].body.event_id \in read'
    <3>1. CASE i \in DOMAIN journal
      BY <3>1, <2>3, <2>7 DEF ReadUpTo
    <3>2. CASE i = Len(journal) + 1
      BY <3>2, <1>0, <2>3, <2>7 DEF Reached
    <3> QED  BY <2>4, <3>1, <3>2
  <2> QED  BY <1>0, <2>5, <2>6, <2>7 DEF ReadUpTo
<1>3. CASE JournalThins
  <2>1. Thinned /\ UNCHANGED <<minted, truth>>
    BY <1>3 DEF JournalThins
  <2>2. \A i \in DOMAIN journal' : \E k \in DOMAIN journal :
          /\ journal'[i].body.sequence_number = journal[k].body.sequence_number
          /\ journal'[i].body.event_id = journal[k].body.event_id
    BY <2>1, ThinnedRows
  <2> QED  BY <1>0, <2>1, <2>2 DEF Reached, ReadUpTo
<1> QED  BY <1>1, <1>2, <1>3

LEMMA NumbersStay ==
    ASSUME JournalInv, StoreInv, DirectorInv, UNCHANGED restored,
           JournalRests \/ JournalGrows \/ JournalThins,
           UNCHANGED dirVars
    PROVE  DirectorInv'
<1>1. /\ checkpoint \in Int
      /\ \A d \in Directors : batch[d].seen \in Int /\ batch[d].max \in Int
  BY DEF DirectorInv, DirectorsTyped
<1>2. Reached(checkpoint) /\ (~restored => ReadUpTo(checkpoint))
  BY DEF DirectorInv
<1>3. UNCHANGED <<checkpoint, dpc, batch, read>>
  BY DEF dirVars
<1>4. minted' >= minted /\ minted \in Nat /\ minted' \in Nat
      /\ Reached(checkpoint)' /\ (~restored => ReadUpTo(checkpoint))'
  BY <1>1, <1>2, <1>3, ReachedStays
<1>5. DirectorsTyped'
  BY <1>3, <1>4 DEF DirectorInv, DirectorsTyped
<1>6. ASSUME NEW d \in Directors
      PROVE  DirectorHolds(d)'
  <2>1. CASE dpc[d] = "select"
    <3>1. Reached(batch[d].seen) /\ (~restored => ReadUpTo(batch[d].seen))
      BY <2>1 DEF DirectorInv, DirectorHolds
    <3>2. Reached(batch[d].seen)' /\ (~restored => ReadUpTo(batch[d].seen))'
      BY <1>1, <1>3, <3>1, ReachedStays
    <3> QED  BY <1>3, <2>1, <3>2 DEF DirectorHolds
  <2>2. CASE dpc[d] \in {"check", "upsert"}
    <3>1. Reached(batch[d].max) /\ (~restored => ReadUpTo(batch[d].max))
      BY <2>2 DEF DirectorInv, DirectorHolds
    <3>2. Reached(batch[d].max)' /\ (~restored => ReadUpTo(batch[d].max))'
      BY <1>1, <1>3, <3>1, ReachedStays
    <3> QED  BY <1>3, <2>2, <3>2 DEF DirectorHolds
  <2>3. CASE dpc[d] \notin {"select", "check", "upsert"}
    BY <1>3, <2>3 DEF DirectorHolds
  <2> QED  BY <2>1, <2>2, <2>3
<1> QED  BY <1>3, <1>4, <1>5, <1>6 DEF DirectorInv

LEMMA DirectorMoves ==
    ASSUME JournalInv, DirectorInv, NEW d \in Directors,
           ReadCheckpoint(d) \/ SelectEvents(d) \/ CheckAdvance(d) \/ UpsertCheckpoint(d)
    PROVE  DirectorInv'
<1>1. UNCHANGED <<journal, minted, truth, restored>>
  BY DEF ReadCheckpoint, SelectEvents, CheckAdvance, UpsertCheckpoint, journalVars, mishapVars
<1>2. Len(truth) \in Nat /\ minted \in Nat /\ Len(truth) <= minted
  BY LastRow, ContinuityAssumption DEF JournalInv, TruthTyped
<1>3. \A n : Reached(n) => Reached(n)'
  BY <1>1 DEF Reached
<1>4. ASSUME UNCHANGED <<checkpoint, read>>,
             NEW b \in [seen : Nat, max : Nat], batch' = [batch EXCEPT ![d] = b],
             NEW q \in {"idle", "select", "check", "upsert"}, dpc' = [dpc EXCEPT ![d] = q],
             b.seen <= minted, b.max <= minted, DirectorHolds(d)'
      PROVE  DirectorInv'
  <2>1. DirectorsTyped'
    BY <1>1, <1>4 DEF DirectorInv, DirectorsTyped
  <2>2. \A e \in Directors : e # d => dpc'[e] = dpc[e] /\ batch'[e] = batch[e]
    BY <1>4 DEF DirectorInv, DirectorsTyped
  <2>3. \A e \in Directors : e # d => DirectorHolds(e)'
    BY <1>1, <1>4, <2>2 DEF DirectorInv, DirectorHolds, Reached, ReadUpTo
  <2>4. /\ Reached(checkpoint)' /\ (~restored => ReadUpTo(checkpoint))'
    BY <1>1, <1>4 DEF DirectorInv, Reached, ReadUpTo
  <2> QED  BY <1>4, <2>1, <2>3, <2>4 DEF DirectorInv
<1>5. NoBatch \in [seen : Nat, max : Nat] /\ NoBatch.seen <= minted /\ NoBatch.max <= minted
  BY <1>2 DEF NoBatch
<1>6. CASE ReadCheckpoint(d)
  <2> DEFINE b == [seen |-> checkpoint, max |-> checkpoint]
  <2>1. /\ UNCHANGED <<checkpoint, read>> /\ batch' = [batch EXCEPT ![d] = b]
        /\ dpc' = [dpc EXCEPT ![d] = "select"]
    BY <1>6 DEF ReadCheckpoint
  <2>2. checkpoint \in Nat /\ checkpoint <= minted
    BY <1>2 DEF DirectorInv, DirectorsTyped
  <2>3. b \in [seen : Nat, max : Nat] /\ b.seen = checkpoint /\ b.max = checkpoint
    BY <2>2
  <2>4. dpc'[d] = "select" /\ batch'[d].seen = checkpoint
    BY <2>1 DEF DirectorInv, DirectorsTyped
  <2>5. DirectorHolds(d)'
    BY <1>1, <2>1, <2>4 DEF DirectorInv, DirectorHolds, Reached, ReadUpTo
  <2> HIDE DEF b
  <2> QED  BY <1>4, <2>1, <2>2, <2>3, <2>5
<1>7. CASE SelectEvents(d)
  <2>0. dpc[d] = "select" /\ checkpoint' = checkpoint
    BY <1>7 DEF SelectEvents
  <2>1. PICK limit \in Limits, advance \in BOOLEAN :
          LET events == ListEvents(journal, batch[d].seen, limit)
          IN  /\ read' = read \cup {events[i].body.event_id : i \in DOMAIN events}
              /\ IF advance /\ events # <<>>
                 THEN /\ batch' = [batch EXCEPT ![d].max = MaxSequence(events, @)]
                      /\ dpc' = [dpc EXCEPT ![d] = "check"]
                 ELSE /\ batch' = [batch EXCEPT ![d] = NoBatch]
                      /\ dpc' = [dpc EXCEPT ![d] = "idle"]
    BY <1>7 DEF SelectEvents
  <2> DEFINE after == batch[d].seen
             events == ListEvents(journal, after, limit)
  <2>2. after \in Nat /\ limit \in Nat \ {0} /\ after <= minted /\ batch[d] \in [seen : Nat, max : Nat]
    BY ContinuityAssumption DEF DirectorInv, DirectorsTyped
  <2>3. Reached(after) /\ (~restored => ReadUpTo(after))
    BY <2>0 DEF DirectorInv, DirectorHolds
  <2>4. read \subseteq read'
    BY <2>1
  <2>5. read' \subseteq 1..minted
    <3>1. CASE events = <<>>
      <4>1. DOMAIN events = {}
        BY <3>1
      <4> HIDE DEF events
      <4> QED  BY <2>1, <4>1 DEF DirectorInv, DirectorsTyped, events
    <3>2. CASE events # <<>>
      <4> HIDE DEF after
      <4> QED  BY <2>1, <2>2, <3>2, BatchReads DEF DirectorInv, after
    <3> QED  BY <3>1, <3>2
  <2>6. /\ Reached(checkpoint)' /\ (~restored => ReadUpTo(checkpoint))'
    BY <1>1, <2>0, <2>4 DEF DirectorInv, Reached, ReadUpTo
  <2>7. ASSUME NEW b \in [seen : Nat, max : Nat], batch' = [batch EXCEPT ![d] = b],
               NEW q \in {"idle", "check"}, dpc' = [dpc EXCEPT ![d] = q],
               b.seen <= minted, b.max <= minted, DirectorHolds(d)'
        PROVE  DirectorInv'
    <3>1. DirectorsTyped'
      BY <1>1, <2>0, <2>5, <2>7 DEF DirectorInv, DirectorsTyped
    <3>2. \A e \in Directors : e # d => dpc'[e] = dpc[e] /\ batch'[e] = batch[e]
      BY <2>7 DEF DirectorInv, DirectorsTyped
    <3>3. \A e \in Directors : e # d => DirectorHolds(e)'
      BY <1>1, <2>4, <3>2 DEF DirectorInv, DirectorHolds, Reached, ReadUpTo
    <3> QED  BY <2>6, <2>7, <3>1, <3>3 DEF DirectorInv
  <2>8. CASE advance /\ events # <<>>
    <3> DEFINE last == LastSequence(events)
               b == [batch[d] EXCEPT !.max = last]
    <3>1. /\ last \in 1..Len(truth)
          /\ ReadUpTo(after) => \A i \in DOMAIN journal :
               journal[i].body.sequence_number <= last => journal[i].body.event_id \in read'
      <4>1. read' = read \cup {events[i].body.event_id : i \in DOMAIN events}
        BY <2>1
      <4> HIDE DEF events, after
      <4> QED  BY <2>2, <2>8, <4>1, BatchReads DEF DirectorInv, events, after
    <3>2. batch' = [batch EXCEPT ![d] = b] /\ dpc' = [dpc EXCEPT ![d] = "check"]
      BY <2>1, <2>8 DEF MaxSequence
    <3>3. b \in [seen : Nat, max : Nat] /\ b.seen = after /\ b.max = last
      <4> HIDE DEF last
      <4> QED  BY <1>2, <2>2, <3>1
    <3> HIDE DEF b, last, events, after
    <3>4. dpc'[d] = "check" /\ batch'[d].max = last
      BY <3>2, <3>3 DEF DirectorInv, DirectorsTyped
    <3>5. ~restored => \A i \in DOMAIN journal :
            journal[i].body.sequence_number <= last => journal[i].body.event_id \in read'
      BY <2>3, <3>1
    <3>6. Reached(batch[d].max)'
      BY <1>1, <1>2, <3>1, <3>4 DEF Reached
    <3>7. (~restored => ReadUpTo(batch[d].max))'
      BY <1>1, <3>4, <3>5 DEF ReadUpTo
    <3>8. DirectorHolds(d)'
      BY <3>4, <3>6, <3>7 DEF DirectorHolds
    <3>9. b.seen <= minted /\ b.max <= minted
      BY <1>2, <2>2, <3>1, <3>3
    <3> QED  BY <2>7, <3>2, <3>3, <3>8, <3>9
  <2>9. CASE ~(advance /\ events # <<>>)
    <3>1. batch' = [batch EXCEPT ![d] = NoBatch] /\ dpc' = [dpc EXCEPT ![d] = "idle"]
      BY <2>1, <2>9
    <3>2. DirectorHolds(d)'
      BY <3>1 DEF DirectorInv, DirectorsTyped, DirectorHolds
    <3> QED  BY <1>5, <2>7, <3>1, <3>2
  <2> QED  BY <2>8, <2>9
<1>8. CASE CheckAdvance(d)
  <2>1. UNCHANGED <<checkpoint, read>> /\ dpc[d] = "check"
    BY <1>8 DEF CheckAdvance
  <2>2. CASE batch[d].max < checkpoint
    <3>1. batch' = [batch EXCEPT ![d] = NoBatch] /\ dpc' = [dpc EXCEPT ![d] = "idle"]
      BY <1>8, <2>2 DEF CheckAdvance
    <3>2. DirectorHolds(d)'
      BY <3>1 DEF DirectorInv, DirectorsTyped, DirectorHolds
    <3> QED  BY <1>4, <1>5, <2>1, <3>1, <3>2
  <2>3. CASE ~(batch[d].max < checkpoint)
    <3>1. batch' = [batch EXCEPT ![d] = batch[d]] /\ dpc' = [dpc EXCEPT ![d] = "upsert"]
      BY <1>8, <2>3 DEF CheckAdvance, DirectorInv, DirectorsTyped
    <3>2. batch[d] \in [seen : Nat, max : Nat] /\ batch[d].seen <= minted /\ batch[d].max <= minted
      BY DEF DirectorInv, DirectorsTyped
    <3>3. batch'[d] = batch[d] /\ dpc'[d] = "upsert"
      BY <3>1 DEF DirectorInv, DirectorsTyped
    <3>4. DirectorHolds(d)'
      BY <1>1, <2>1, <3>3 DEF DirectorInv, DirectorHolds, Reached, ReadUpTo
    <3> QED  BY <1>4, <2>1, <3>1, <3>2, <3>4
  <2> QED  BY <2>2, <2>3
<1>9. CASE UpsertCheckpoint(d)
  <2>1. /\ dpc[d] = "upsert" /\ checkpoint' = batch[d].max /\ read' = read
        /\ batch' = [batch EXCEPT ![d] = NoBatch] /\ dpc' = [dpc EXCEPT ![d] = "idle"]
    BY <1>9 DEF UpsertCheckpoint
  <2>2. Reached(batch[d].max) /\ (~restored => ReadUpTo(batch[d].max))
    BY <2>1 DEF DirectorInv, DirectorHolds
  <2>3. DirectorsTyped'
    BY <1>1, <1>2, <1>5, <2>1 DEF DirectorInv, DirectorsTyped
  <2>4. \A e \in Directors : DirectorHolds(e)'
    BY <1>1, <2>1 DEF DirectorInv, DirectorsTyped, DirectorHolds, Reached, ReadUpTo
  <2>5. /\ Reached(checkpoint)' /\ (~restored => ReadUpTo(checkpoint))'
    BY <1>1, <2>1, <2>2 DEF DirectorInv, Reached, ReadUpTo
  <2> QED  BY <2>3, <2>4, <2>5 DEF DirectorInv
<1> QED  BY <1>6, <1>7, <1>8, <1>9

LEMMA DirectorStep ==
    ASSUME JournalInv, StoreInv, DirectorInv, [ContinuityNext]_continuityVars
    PROVE  DirectorInv'
<1>1. ASSUME NEW c \in Cycles,
             RegisterBytes(c) \/ LookAtPath(c) \/ OpenFile(c) \/ FillFile(c) \/ InsertArtifact(c)
               \/ AppendWithRef(c) \/ AppendPlain(c)
      PROVE  DirectorInv'
  <2>1. UNCHANGED <<dirVars, restored>>
    BY <1>1 DEF RegisterBytes, LookAtPath, OpenFile, FillFile, InsertArtifact, AppendWithRef,
                AppendPlain, mishapVars
  <2>2. JournalRests \/ JournalGrows
    <3>1. CASE AppendWithRef(c)
      <4>1. cpc[c] = "append" /\ \E w \in Worlds : AppendRow(w, {task[c]})
        BY <3>1 DEF AppendWithRef
      <4>2. {task[c]} \in SUBSET artifacts
        BY <4>1 DEF StoreInv, CycleHolds
      <4> QED  BY <4>1, <4>2 DEF JournalGrows
    <3>2. CASE AppendPlain(c)
      BY <3>2 DEF AppendPlain, JournalGrows
    <3>3. CASE RegisterBytes(c) \/ LookAtPath(c) \/ OpenFile(c) \/ FillFile(c) \/ InsertArtifact(c)
      BY <3>3 DEF RegisterBytes, LookAtPath, OpenFile, FillFile, InsertArtifact, JournalRests
    <3> QED  BY <1>1, <3>1, <3>2, <3>3
  <2> QED  BY <2>1, <2>2, NumbersStay
<1>2. ASSUME NEW d \in Directors,
             ReadCheckpoint(d) \/ SelectEvents(d) \/ CheckAdvance(d) \/ UpsertCheckpoint(d)
      PROVE  DirectorInv'
  BY <1>2, DirectorMoves
<1>3. CASE Replay
  <2>1. UNCHANGED <<journal, minted, truth, checkpoint, dpc, batch, read, restored>>
    BY <1>3 DEF Replay, journalVars, dirVars, mishapVars
  <2>2. /\ Reached(checkpoint)' /\ (~restored => ReadUpTo(checkpoint))'
        /\ \A d \in Directors : DirectorHolds(d)'
    BY <2>1 DEF DirectorInv, DirectorHolds, Reached, ReadUpTo
  <2>3. DirectorsTyped'
    BY <2>1 DEF DirectorInv, DirectorsTyped
  <2> QED  BY <2>2, <2>3 DEF DirectorInv
<1>4. CASE Death
  <2>1. UNCHANGED <<journal, minted, truth, checkpoint, read, restored>>
    BY <1>4 DEF Death, journalVars
  <2>2. \/ UNCHANGED <<dpc, batch>>
        \/ \E d \in Directors : /\ dpc' = [dpc EXCEPT ![d] = "idle"]
                                /\ batch' = [batch EXCEPT ![d] = NoBatch]
    BY <1>4 DEF Death
  <2>3. minted \in Nat
    BY ContinuityAssumption DEF JournalInv, TruthTyped
  <2>4. DirectorsTyped'
    BY <2>1, <2>2, <2>3 DEF DirectorInv, DirectorsTyped, NoBatch
  <2>5. \A d \in Directors : dpc'[d] = "idle" \/ (dpc'[d] = dpc[d] /\ batch'[d] = batch[d])
    BY <2>2 DEF DirectorInv, DirectorsTyped
  <2>6. /\ Reached(checkpoint)' /\ (~restored => ReadUpTo(checkpoint))'
        /\ \A d \in Directors : DirectorHolds(d)'
    BY <2>1, <2>5 DEF DirectorInv, DirectorHolds, Reached, ReadUpTo
  <2> QED  BY <2>4, <2>6 DEF DirectorInv
<1>5. CASE Damage
  <2>1. UNCHANGED dirVars
    BY <1>5 DEF Damage
  <2>2. CASE JournalFalls
    <3>1. restored' /\ minted' = minted
      BY <2>2 DEF JournalFalls, OlderCopy
    <3>2. DirectorsTyped'
      BY <2>1, <3>1 DEF DirectorInv, DirectorsTyped, dirVars
    <3>3. /\ Reached(checkpoint)' /\ (~restored => ReadUpTo(checkpoint))'
          /\ \A d \in Directors : DirectorHolds(d)'
      BY <3>1 DEF Reached, DirectorHolds
    <3> QED  BY <3>2, <3>3 DEF DirectorInv
  <2>3. CASE UNCHANGED restored
    <3>1. CASE JournalRests \/ JournalThins
      BY <2>1, <2>3, <3>1, NumbersStay
    <3>2. ~JournalGrows
      <4>1. minted \in Nat
        BY ContinuityAssumption DEF JournalInv, TruthTyped
      <4>2. UNCHANGED minted
        BY <1>5 DEF Damage, RowAltered, RowMissing, OlderCopy, FileGone, journalVars
      <4> QED  BY <4>1, <4>2 DEF JournalGrows, AppendRow
    <3> QED  BY <2>2, <3>1, <3>2, JournalMoves
  <2>4. UNCHANGED restored \/ JournalFalls
    <3>1. ASSUME NEW i \in DOMAIN journal, OlderCopy(i)
          PROVE  JournalFalls
      <4>1. restored'
        BY <3>1 DEF OlderCopy
      <4> QED  BY <3>1, <4>1 DEF JournalFalls
    <3> QED  BY <1>5, <3>1 DEF Damage, RowAltered, RowMissing, FileGone
  <2> QED  BY <2>2, <2>3, <2>4
<1>6. CASE UNCHANGED continuityVars
  BY <1>6, NumbersStay DEF continuityVars, mishapVars, JournalRests
<1> QED  BY <1>1, <1>2, <1>3, <1>4, <1>5, <1>6 DEF ContinuityNext

------------------------------------------------------------------------------
(* The replay: a journal without a gap has as many rows as its last number.    *)
LEMMA NoGapCounts ==
    ASSUME JournalInv, ChainErrors(journal) = {}
    PROVE  Len(journal) = LastSequence(journal)
<1> DEFINE S == {i \in DOMAIN journal : journal[i].body.sequence_number # i}
<1>1. /\ Len(journal) \in Nat /\ DOMAIN journal = 1..Len(journal)
      /\ journal # <<>> => Len(journal) \in DOMAIN journal
  BY LastRow
<1>2. \A i \in DOMAIN journal : ~SequenceGap(journal, i)
  BY DEF ChainErrors
<1>3. S = {}
  <2>1. SUFFICES ASSUME S # {} PROVE FALSE
    OBVIOUS
  <2> DEFINE m == Min(S)
  <2>2. m \in S /\ \A i \in S : m <= i
    <3>1. S \in SUBSET Nat
      BY <1>1
    <3> HIDE DEF S
    <3> QED  BY <2>1, <3>1, Least
  <2> HIDE DEF m
  <2>3. m \in 1..Len(journal) /\ journal[m].body.sequence_number # m
    BY <1>1, <2>2
  <2>4. CASE m = 1
    <3>1. ~SequenceGap(journal, 1)
      BY <1>1, <1>2, <2>3, <2>4
    <3>2. journal[1].body.sequence_number = 0 + 1
      BY <3>1 DEF SequenceGap
    <3> QED  BY <2>3, <2>4, <3>2
  <2>5. CASE m # 1
    <3>1. m - 1 \in DOMAIN journal /\ m - 1 < m
      BY <1>1, <2>3, <2>5
    <3>2. m - 1 \notin S
      <4> HIDE DEF S
      <4> QED  BY <1>1, <2>2, <2>3, <3>1
    <3>3. journal[m - 1].body.sequence_number = m - 1
      BY <3>1, <3>2
    <3>4. ~SequenceGap(journal, m)
      BY <1>1, <1>2, <2>3
    <3>5. journal[m].body.sequence_number = journal[m - 1].body.sequence_number + 1
      BY <2>5, <3>4 DEF SequenceGap
    <3> QED  BY <1>1, <2>3, <3>3, <3>5
  <2> QED  BY <2>4, <2>5
<1>4. CASE journal = <<>>
  BY <1>4 DEF LastSequence
<1>5. CASE journal # <<>>
  BY <1>1, <1>3, <1>5 DEF LastSequence
<1> QED  BY <1>4, <1>5

Readings == [status : {"VALID", "INVALID"}, worlds : [Worlds -> Nat],
             last_sequence_number : Nat, event_count : Nat]

Counts(reading) ==
    reading.status = "VALID" => reading.event_count = reading.last_sequence_number

ReplayInv ==
    /\ readings \in Seq(Readings) /\ Len(readings) <= 2
    /\ \A k \in DOMAIN readings : Counts(readings[k])
    /\ report.status = "READY" => report.counted

LEMMA ReadingCounts ==
    ASSUME JournalInv
    PROVE  RebuildState(journal) \in Readings /\ Counts(RebuildState(journal))
<1> DEFINE now == RebuildState(journal)
<1>1. Len(journal) \in Nat /\ DOMAIN journal = 1..Len(journal) /\ LastSequence(journal) \in Nat
  BY LastRow DEF JournalInv, TruthTyped
<1>2. ASSUME NEW w \in Worlds
      PROVE  Cardinality({i \in DOMAIN journal : journal[i].body.world_id = w}) \in Nat
  <2>1. IsFiniteSet(DOMAIN journal)
    BY <1>1, FS_Interval
  <2>2. {i \in DOMAIN journal : journal[i].body.world_id = w} \subseteq DOMAIN journal
    OBVIOUS
  <2> QED  BY <2>1, <2>2, FS_Subset, FS_CardinalityType
<1>3. [w \in Worlds |-> Cardinality({i \in DOMAIN journal : journal[i].body.world_id = w})]
        \in [Worlds -> Nat]
  BY <1>2
<1>4. now \in Readings
  BY <1>1, <1>3 DEF RebuildState, Readings
<1>5. Counts(now)
  BY NoGapCounts DEF Counts, RebuildState
<1> QED  BY <1>4, <1>5

LEMMA ReplayStep ==
    ASSUME JournalInv, ReplayInv, [ContinuityNext]_continuityVars
    PROVE  ReplayInv'
<1>1. CASE Replay
  <2> DEFINE now == RebuildState(journal)
  <2>1. now \in Readings /\ Counts(now)
    BY ReadingCounts
  <2>2. CASE Len(readings) < 2
    <3>1. readings' = Append(readings, now) /\ report' = NoReport
      BY <1>1, <2>2 DEF Replay
    <3> HIDE DEF now
    <3>2. /\ readings' \in Seq(Readings) /\ Len(readings') <= 2
          /\ \A k \in DOMAIN readings' : Counts(readings'[k])
      BY <2>1, <2>2, <3>1 DEF ReplayInv
    <3> QED  BY <3>1, <3>2 DEF ReplayInv, NoReport
  <2>3. CASE ~(Len(readings) < 2)
    <3>1. /\ readings' = <<>>
          /\ report' = [status |-> SummaryStatus(readings[1], readings[2], now),
                        counted |-> readings[1].event_count = readings[1].last_sequence_number,
                        hashes  |-> \A i \in DOMAIN journal : VerifyHash(journal[i])]
      BY <1>1, <2>3 DEF Replay
    <3>2. 1 \in DOMAIN readings
      BY <2>3 DEF ReplayInv
    <3>3. report'.status = "READY" => readings[1].status = "VALID"
      BY <3>1 DEF SummaryStatus
    <3>4. report'.status = "READY" => report'.counted
      BY <3>1, <3>2, <3>3 DEF ReplayInv, Counts
    <3> QED  BY <3>1, <3>4 DEF ReplayInv
  <2> QED  BY <2>2, <2>3
<1>2. CASE UNCHANGED replayVars
  BY <1>2 DEF ReplayInv, replayVars
<1> QED
  <2>1. ASSUME NEW c \in Cycles,
               RegisterBytes(c) \/ LookAtPath(c) \/ OpenFile(c) \/ FillFile(c) \/ InsertArtifact(c)
                 \/ AppendWithRef(c) \/ AppendPlain(c)
        PROVE  UNCHANGED replayVars
    BY <2>1 DEF RegisterBytes, LookAtPath, OpenFile, FillFile, InsertArtifact, AppendWithRef,
                AppendPlain
  <2>2. ASSUME NEW d \in Directors,
               ReadCheckpoint(d) \/ SelectEvents(d) \/ CheckAdvance(d) \/ UpsertCheckpoint(d)
        PROVE  UNCHANGED replayVars
    BY <2>2 DEF ReadCheckpoint, SelectEvents, CheckAdvance, UpsertCheckpoint
  <2>3. ASSUME Death \/ Damage
        PROVE  UNCHANGED replayVars
    BY <2>3 DEF Death, Damage
  <2>4. UNCHANGED continuityVars => UNCHANGED replayVars
    BY DEF continuityVars
  <2> QED  BY <1>1, <1>2, <2>1, <2>2, <2>3, <2>4 DEF ContinuityNext

------------------------------------------------------------------------------
ContinuityInv == JournalInv /\ StoreInv /\ RefsKnown /\ DirectorInv /\ ReplayInv

LEMMA InvHolds == ContinuitySpec => []ContinuityInv
<1>1. ContinuityInit => ContinuityInv
  <2>1. SUFFICES ASSUME ContinuityInit PROVE ContinuityInv
    OBVIOUS
  <2>2. journal \in Seq(Rows({}))
    BY <2>1 DEF ContinuityInit
  <2>3. JournalInv
    BY <2>1, <2>2, ContinuityAssumption
       DEF ContinuityInit, JournalInv, RowsTyped, TruthTyped, LastSequence, RowsInOrder
  <2>4. StoreInv
    BY <2>1 DEF ContinuityInit, StoreInv, CycleHolds
  <2>5. RefsKnown
    BY <2>1 DEF ContinuityInit, RefsKnown
  <2>6. DirectorInv
    BY <2>1 DEF ContinuityInit, DirectorInv, DirectorsTyped, DirectorHolds, Reached, ReadUpTo,
                NoBatch
  <2>7. ReplayInv
    BY <2>1 DEF ContinuityInit, ReplayInv, NoReport
  <2> QED  BY <2>3, <2>4, <2>5, <2>6, <2>7 DEF ContinuityInv
<1>2. ContinuityInv /\ [ContinuityNext]_continuityVars => ContinuityInv'
  BY JournalStep, StoreStep, RefsStep, DirectorStep, ReplayStep DEF ContinuityInv
<1> QED  BY <1>1, <1>2, PTL DEF ContinuitySpec

(* Every variable keeps its type, for any number of cycles, directors, events  *)
(* and mishaps (journal.py:120-162, registry.py:165-215, catchup.py:61-167).   *)
THEOREM ContinuityTyped == ContinuitySpec => []ContinuityTypeOK
<1>1. ContinuityInv => ContinuityTypeOK
  <2>1. SUFFICES ASSUME ContinuityInv PROVE ContinuityTypeOK
    OBVIOUS
  <2>2. /\ minted \in 0..MaxEvents /\ MaxEvents \in Nat
        /\ Len(truth) <= minted
    BY <2>1, ContinuityAssumption DEF ContinuityInv, JournalInv, TruthTyped
  <2>3. Len(journal) \in Nat /\ Len(truth) \in Nat /\ Len(journal) <= Len(truth)
    BY <2>1, LastRow DEF ContinuityInv
  <2>4. /\ checkpoint \in 0..MaxEvents /\ read \subseteq 1..minted
        /\ dpc \in [Directors -> {"idle", "select", "check", "upsert"}]
    BY <2>1, <2>2 DEF ContinuityInv, DirectorInv, DirectorsTyped
  <2>5. /\ storage \in [Paths -> {"none", "part", "full"}] /\ artifacts \subseteq Paths
        /\ cpc \in [Cycles -> {"idle", "look", "open", "fill", "insert", "append"}]
    BY <2>1 DEF ContinuityInv, StoreInv
  <2> QED  BY <2>1, <2>2, <2>3, <2>4, <2>5 DEF ContinuityTypeOK, ContinuityInv, ReplayInv
<1> QED  BY <1>1, InvHolds, PTL

(* Every artifact an event refers to is registered and whole, unless its file  *)
(* was lost afterwards, wherever a registration is cut off and repeated        *)
(* (registry.py:165-215).                                                      *)
THEOREM RefsAlwaysStand == ContinuitySpec => []RefsStand
<1>1. ContinuityInv => RefsStand
  BY DEF ContinuityInv, StoreInv, RefsKnown, Stands, RefsStand
<1> QED  BY <1>1, InvHolds, PTL

(* A journal that verifies holds what was appended, in its order, whatever was *)
(* altered, lost or appended behind a damaged row (journal.py:188-211).        *)
THEOREM VerifyIsSound == ContinuitySpec => []VerifySound
<1>1. ContinuityInv => VerifySound
  BY ValidJournalIsTrue DEF ContinuityInv, VerifySound
<1> QED  BY <1>1, InvHolds, PTL

(* A replay that reports READY counted every event up to its last number       *)
(* (engine.py:65-157).                                                         *)
THEOREM ReplayCounts == ContinuitySpec => []ReplayCountsAll
<1>1. ContinuityInv => ReplayCountsAll
  BY DEF ContinuityInv, ReplayInv, ReplayCountsAll
<1> QED  BY <1>1, InvHolds, PTL

(* No event up to the shared checkpoint stays unread, for any number of        *)
(* directors that overlap, stop early or die (catchup.py:61-167).              *)
THEOREM NothingIsSkipped == ContinuitySpec => []NothingSkipped
<1>1. ContinuityInv => NothingSkipped
  BY DEF ContinuityInv, DirectorInv, ReadUpTo, NothingSkipped
<1> QED  BY <1>1, InvHolds, PTL
=============================================================================
