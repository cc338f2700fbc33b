------------------------- MODULE ReplicationProofs --------------------------
(* What TLAPS proves of replication, for every set of nodes, workers,      *)
(* documents, blobs and values, for every batch limit and every bound.     *)
(* Typed, the invariant of all behaviours, gives the numbering of the      *)
(* logs and that the documents follow them. While one node leads, Led      *)
(* adds what the ticks in flight rely on, which gives that replicas hold   *)
(* beginnings of the leader's log, that no batch is refused, and that the  *)
(* system implements one abstract log.                                     *)
EXTENDS Replication, StengProofs

USE StengAssumption, ReplicationAssumption

(* No client asks for a shallow merge (run replication_shallow shows what  *)
(* happens when one does).                                                 *)
Deep == Kinds \subseteq {"deep"}

(* A row of a retention run or an import carries what it needs.            *)
RowOk(r) ==
  CASE r.kind = "retire" -> r.id \in DocId
    [] r.kind = "doc" -> r.id \in DocId /\ r.payload \in Value \cup {Dead}
    [] r.kind = "blob" -> r.id \in BlobId /\ r.payload \in Content
    [] r.kind \in {"restore", "merge", "cutoff"} -> r.payload \in Nat

Rows ==
  {r \in [kind : {"retire", "doc", "blob", "restore", "merge", "cutoff"},
          id : DocId \cup BlobId \cup {Absent},
          payload : Value \cup {Dead, Absent} \cup Content \cup Nat,
          conflict : {"none", "replace"} \cup {mode[2] : mode \in Modes}] : RowOk(r)}

PCs == {"idle", "visit", "read", "apply", "mark"}

(* The variables of the replication workers.                               *)
WorkersTyped ==
  /\ pc \in [Worker -> PCs]
  /\ todo \in [Worker -> SUBSET Node]
  /\ \A w \in Worker : pc[w] = "idle" <=> todo[w] = {}
  /\ after \in [Worker -> Nat] /\ mark \in [Worker -> Nat]
  /\ batch \in [Worker -> Seq(Entry)]

(* The inductive invariant of all behaviours.                              *)
Typed ==
  /\ table \in [Node -> Good(Deep)]
  /\ issued \subseteq DocId
  /\ leader \in led /\ led \subseteq Node /\ started \subseteq Node
  /\ job \in [Node -> Seq(Rows)]
  /\ writes \in Nat /\ moves \in Nat
  /\ WorkersTyped

-----------------------------------------------------------------------------
(* The first state is typed.                                               *)
LEMMA InitTyped == Init => Typed
<1> SUFFICES ASSUME Init PROVE Typed OBVIOUS
<1>1. NewTable \in Good(Deep) BY NewTableGood
<1>2. <<>> \in Seq(Rows) /\ <<>> \in Seq(Entry) OBVIOUS
<1>3. table \in [Node -> Good(Deep)] BY <1>1 DEF Init
<1>4. job \in [Node -> Seq(Rows)] BY <1>2 DEF Init
<1>5. WorkersTyped BY <1>2 DEF Init, WorkersTyped, PCs
<1> QED BY <1>3, <1>4, <1>5 DEF Init, Typed

(* A table after a step of its own node: an entry was written and logged,  *)
(* or nothing that readers or the log tell changed.                        *)
Changed(t, u) ==
  \/ Wrote(Deep, t, u)
  \/ u \in Good(Deep) /\ u.ops = t.ops /\ View(u) = View(t)

(* A client write appends one entry at a node that has led.                *)
LEMMA WriteStep ==
  ASSUME Typed, NEW n \in Node, Write(n)
  PROVE  /\ n \in led
         /\ \E u : Wrote(Deep, table[n], u) /\ table' = [table EXCEPT ![n] = u]
         /\ issued' \subseteq DocId /\ writes' \in Nat
         /\ UNCHANGED <<leader, led, started, job, moves, workerVars>>
<1> DEFINE Goal == /\ n \in led
                   /\ \E u : Wrote(Deep, table[n], u) /\ table' = [table EXCEPT ![n] = u]
                   /\ issued' \subseteq DocId /\ writes' \in Nat
                   /\ UNCHANGED <<leader, led, started, job, moves, workerVars>>
<1>1. table[n] \in Good(Deep) BY DEF Typed
<1>2. ASSUME NEW u, Commit(n, u), Wrote(Deep, table[n], u), issued' \subseteq DocId PROVE Goal
  <2>1. writes' \in Nat BY <1>2 DEF Commit, Typed
  <2> QED BY <1>2, <2>1, Zenon DEF Commit
<1> SUFFICES Goal OBVIOUS
<1> HIDE DEF Goal
<1>3. CASE AddObj(n)
  <2>1. PICK d \in DocId \ issued, v \in Inputs :
          Commit(n, add_objs(table[n], d, v)) /\ issued' = issued \cup {d}
    BY <1>3 DEF AddObj
  <2>2. Wrote(Deep, table[n], add_objs(table[n], d, v)) BY <1>1, AddGood
  <2>3. issued' \subseteq DocId BY <2>1 DEF Typed
  <2> QED BY <1>2, <2>1, <2>2, <2>3
<1>4. CASE UpdateObj(n)
  <2>1. PICK d \in Live(table[n]), v \in Inputs, kind \in Kinds :
          Commit(n, update_objs(table[n], d, v, kind)) /\ UNCHANGED issued
    BY <1>4 DEF UpdateObj
  <2>2. Deep => kind = "deep" BY DEF Deep
  <2>3. Wrote(Deep, table[n], update_objs(table[n], d, v, kind))
    BY <1>1, <2>2, UpdateGood
  <2>4. issued' \subseteq DocId BY <2>1 DEF Typed
  <2> QED BY <1>2, <2>1, <2>3, <2>4
<1>5. CASE ReplaceObj(n)
  <2>1. PICK d \in issued, v \in Inputs :
          Commit(n, replace_objs(table[n], d, v)) /\ UNCHANGED issued
    BY <1>5 DEF ReplaceObj
  <2>2. d \in DocId BY DEF Typed
  <2>3. Wrote(Deep, table[n], replace_objs(table[n], d, v)) BY <1>1, <2>2, AddGood
  <2>4. issued' \subseteq DocId BY <2>1 DEF Typed
  <2> QED BY <1>2, <2>1, <2>3, <2>4
<1>6. CASE DeleteObj(n)
  <2>1. PICK d \in issued : Commit(n, delete_objs(table[n], d)) /\ UNCHANGED issued
    BY <1>6 DEF DeleteObj
  <2>2. d \in DocId BY DEF Typed
  <2>3. Wrote(Deep, table[n], delete_objs(table[n], d)) BY <1>1, <2>2, DeleteGood
  <2>4. issued' \subseteq DocId BY <2>1 DEF Typed
  <2> QED BY <1>2, <2>1, <2>3, <2>4
<1>7. CASE AddBlob(n)
  <2>1. PICK b \in BlobId, c \in Content :
          Commit(n, add_blob(table[n], b, c)) /\ UNCHANGED issued
    BY <1>7 DEF AddBlob
  <2>2. Wrote(Deep, table[n], add_blob(table[n], b, c)) BY <1>1, BlobGood
  <2>3. issued' \subseteq DocId BY <2>1 DEF Typed
  <2> QED BY <1>2, <2>1, <2>2, <2>3
<1>8. CASE DeleteBlob(n)
  <2>1. PICK b \in BlobId : Commit(n, delete_blobs(table[n], b)) /\ UNCHANGED issued
    BY <1>8 DEF DeleteBlob
  <2>2. Wrote(Deep, table[n], delete_blobs(table[n], b)) BY <1>1, BlobGood
  <2>3. issued' \subseteq DocId BY <2>1 DEF Typed
  <2> QED BY <1>2, <2>1, <2>2, <2>3
<1> QED BY <1>3, <1>4, <1>5, <1>6, <1>7, <1>8 DEF Write

-----------------------------------------------------------------------------
(* SetToSeq lists a finite set.                                            *)
LEMMA SetToSeqType ==
  ASSUME NEW S, IsFiniteSet(S)
  PROVE  /\ SetToSeq(S) \in [1..Cardinality(S) -> S]
         /\ Cardinality(S) \in Nat
<1> DEFINE n == Cardinality(S)
<1>1. n \in Nat BY FS_CardinalityType
<1>2. PICK f : f \in Bijection(1..n, S)
  <2>1. ExistsBijection(1..n, S) BY FS_CardinalityType
  <2> QED BY <2>1 DEF ExistsBijection
<1>3. f \in [1..n -> S] /\ IsInjective(f)
  BY <1>2 DEF Bijection, Injection, IsInjective
<1>4. SetToSeq(S) \in [1..n -> S]
  <2> HIDE DEF n
  <2>1. \E g \in [1..n -> S] : IsInjective(g) BY <1>3
  <2>2. SetToSeq(S) = CHOOSE g \in [1..n -> S] : IsInjective(g) BY DEF SetToSeq, n
  <2> QED BY <2>1, <2>2
<1> QED BY <1>1, <1>4

(* Row makes rows.                                                         *)
LEMMA RowType ==
  ASSUME NEW kind \in {"retire", "doc", "blob", "restore", "merge", "cutoff"},
         NEW id \in DocId \cup BlobId \cup {Absent},
         NEW payload \in Value \cup {Dead, Absent} \cup Content \cup Nat,
         NEW conflict \in {"none", "replace"} \cup {mode[2] : mode \in Modes},
         CASE kind = "retire" -> id \in DocId
           [] kind = "doc" -> id \in DocId /\ payload \in Value \cup {Dead}
           [] kind = "blob" -> id \in BlobId /\ payload \in Content
           [] kind \in {"restore", "merge", "cutoff"} -> payload \in Nat
  PROVE  Row(kind, id, payload, conflict) \in Rows
BY DEF Row, Rows, RowOk

(* Every row of a job keeps the table good.                                *)
LEMMA AfterRowGood ==
  ASSUME NEW t \in Good(Deep), NEW r \in Rows
  PROVE  Changed(t, AfterRow(t, r))
<1>1. /\ RowOk(r)
      /\ r.kind \in {"retire", "doc", "blob", "restore", "merge", "cutoff"}
  BY DEF Rows
<1>2. t \in Tables /\ t.watermark \in Nat BY DEF Good, Tables, Shape
<1>3. ASSUME NEW n \in Nat PROVE Changed(t, [t EXCEPT !.watermark = n])
  BY WatermarkGood DEF Changed
<1>4. CASE r.kind = "retire"
  <2>1. AfterRow(t, r) = delete_objs(t, r.id) /\ r.id \in DocId
    BY <1>1, <1>4 DEF AfterRow, RowOk
  <2> QED BY <2>1, DeleteGood DEF Changed
<1>5. CASE r.kind = "doc"
  <2>1. /\ AfterRow(t, r) = importSnapshotDoc(t, r.id, r.payload)
        /\ r.id \in DocId /\ r.payload \in Value \cup {Dead}
    BY <1>1, <1>5 DEF AfterRow, RowOk
  <2> QED BY <2>1, ImportDocGood DEF Changed
<1>6. CASE r.kind = "blob"
  <2>1. /\ AfterRow(t, r) = add_blob(t, r.id, r.payload)
        /\ r.id \in BlobId /\ r.payload \in Content
    BY <1>1, <1>6 DEF AfterRow, RowOk, importSnapshotBlob
  <2> QED BY <2>1, BlobGood DEF Changed
<1>7. CASE r.kind = "restore"
  <2>1. AfterRow(t, r) = [t EXCEPT !.watermark = r.payload] /\ r.payload \in Nat
    BY <1>1, <1>7 DEF AfterRow, RowOk
  <2> QED BY <1>3, <2>1
<1>8. CASE r.kind = "merge"
  <2> DEFINE n == mergeWatermark(t.watermark, r.payload)
  <2>1. AfterRow(t, r) = [t EXCEPT !.watermark = n] /\ r.payload \in Nat
    BY <1>1, <1>8 DEF AfterRow, RowOk
  <2>2. n \in Nat BY <1>2, <2>1 DEF mergeWatermark
  <2> HIDE DEF n
  <2> QED BY <1>3, <2>1, <2>2
<1>9. CASE r.kind = "cutoff"
  <2> DEFINE n == IF r.conflict = "replace" \/ r.payload > t.watermark
                  THEN r.payload ELSE t.watermark
  <2>1. AfterRow(t, r) = [t EXCEPT !.watermark = n] /\ r.payload \in Nat
    BY <1>1, <1>9 DEF AfterRow, RowOk
  <2>2. n \in Nat BY <1>2, <2>1
  <2> HIDE DEF n
  <2> QED BY <1>3, <2>1, <2>2
<1> QED BY <1>1, <1>4, <1>5, <1>6, <1>7, <1>8, <1>9

(* A step of a job changes the table of its node alone.                    *)
LEMMA RowStep ==
  ASSUME Typed, NEW n \in Node, DoRow(n)
  PROVE  /\ job[n] # <<>>
         /\ \E u : Changed(table[n], u) /\ table' = [table EXCEPT ![n] = u]
         /\ \E rows \in Seq(Rows) : job' = [job EXCEPT ![n] = rows]
         /\ UNCHANGED <<issued, leader, led, started, writes, moves, workerVars>>
<1> DEFINE r == Head(job[n])
           clash == Stumbles(table[n], r)
           x == AfterRow(table[n], r)
<1>1. /\ job[n] # <<>>
      /\ UNCHANGED <<issued, leader, led, started, writes, moves, workerVars>>
      /\ table' = IF clash /\ r.conflict # "replace" THEN table
                  ELSE [table EXCEPT ![n] = x]
      /\ job' = [job EXCEPT ![n] =
           IF clash /\ r.conflict = "error" THEN <<>> ELSE Tail(job[n])]
  BY DEF DoRow
<1>2. table[n] \in Good(Deep) /\ job[n] \in Seq(Rows) /\ table \in [Node -> Good(Deep)]
  BY DEF Typed
<1>3. r \in Rows /\ Tail(job[n]) \in Seq(Rows) /\ <<>> \in Seq(Rows) BY <1>1, <1>2
<1> HIDE DEF clash, r
<1>4. Changed(table[n], x) BY <1>2, <1>3, AfterRowGood
<1>5. Changed(table[n], table[n]) BY <1>2 DEF Changed
<1> HIDE DEF x
<1>6. \E u : Changed(table[n], u) /\ table' = [table EXCEPT ![n] = u]
  <2>1. CASE table' = table
    <3>1. table = [table EXCEPT ![n] = table[n]] BY <1>2
    <3> QED BY <1>5, <2>1, <3>1
  <2>2. CASE table' = [table EXCEPT ![n] = x]
    BY <1>4, <2>2
  <2> QED BY <1>1, <2>1, <2>2
<1>7. \E rows \in Seq(Rows) : job' = [job EXCEPT ![n] = rows]
  <2>1. CASE job' = [job EXCEPT ![n] = <<>>] BY <1>3, <2>1
  <2>2. CASE job' = [job EXCEPT ![n] = Tail(job[n])] BY <1>3, <2>2
  <2> QED BY <1>1, <2>1, <2>2
<1> QED BY <1>1, <1>6, <1>7

(* run_retention begins a job of well formed rows.                         *)
LEMMA RetentionStep ==
  ASSUME Typed, NEW n \in Node, RunRetention(n)
  PROVE  /\ n \in Retainers
         /\ \E rows \in Seq(Rows) : BeginJob(n, table[n], rows)
<1>1. table[n] \in Tables BY DEF Typed, Good
<1> DEFINE old(cutoff) == {d \in Live(table[n]) : DocTime[d] < cutoff}
           rows(cutoff) == [i \in 1..Cardinality(old(cutoff)) |->
                       Row("retire", SetToSeq(old(cutoff))[i], Absent, "none")]
           last(cutoff) == Row("cutoff", Absent, cutoff, IF old(cutoff) = {} THEN "none" ELSE "replace")
<1>2. PICK cutoff \in Cutoffs :
        n \in Retainers /\ BeginJob(n, table[n], Append(rows(cutoff), last(cutoff)))
  BY DEF RunRetention
<1> DEFINE S == old(cutoff)
           c == Cardinality(S)
           f == SetToSeq(S)
<1>3. S \subseteq KnownDocs(table[n]) /\ S \subseteq DocId BY DEF Live, KnownDocs
<1>4. IsFiniteSet(S) BY <1>1, <1>3, FS_Subset DEF Tables
<1> HIDE DEF old
<1>5. f \in [1..c -> S] /\ c \in Nat BY <1>4, SetToSeqType
<1> HIDE DEF f, c
<1>6. ASSUME NEW i \in 1..c PROVE Row("retire", f[i], Absent, "none") \in Rows
  <2>1. f[i] \in DocId BY <1>3, <1>5
  <2> QED BY <2>1, RowType
<1>7. rows(cutoff) \in Seq(Rows)
  <2>1. rows(cutoff) = [i \in 1..c |-> Row("retire", f[i], Absent, "none")] BY DEF f, c
  <2> HIDE DEF rows
  <2> QED BY <1>5, <1>6, <2>1, IsASeq
<1>8. last(cutoff) \in Rows
  <2>1. cutoff \in Nat OBVIOUS
  <2> QED BY <2>1, RowType
<1> HIDE DEF rows, last
<1>9. Append(rows(cutoff), last(cutoff)) \in Seq(Rows) BY <1>7, <1>8
<1> QED BY <1>2, <1>9

(* import_snapshot begins a job of well formed rows, on a table that is    *)
(* new in mode replace.                                                    *)
LEMMA ImportStep ==
  ASSUME Typed, NEW n \in Node, ImportSnapshot(n)
  PROVE  /\ n \in Importers
         /\ \E mode \in Modes, rows \in Seq(Rows) :
              BeginJob(n, IF mode[1] = "replace" THEN NewTable ELSE table[n], rows)
<1> DEFINE row(kind, id, held, mode) == Row(kind, id, held[id], mode[2])
           S(m, dead) == export_snapshot(table[m], dead)
           docs(m, dead) == SetToSeq(S(m, dead).docs)
           blobs(m, dead) == SetToSeq(S(m, dead).blobs)
           docRows(m, mode, dead) ==
             [i \in DOMAIN docs(m, dead) |-> row("doc", docs(m, dead)[i], table[m].docs, mode)]
           blobRows(m, mode, dead) ==
             [i \in DOMAIN blobs(m, dead) |-> row("blob", blobs(m, dead)[i], table[m].blobs, mode)]
           last(m, mode) == Row(IF mode[1] = "replace" THEN "restore" ELSE "merge",
                                Absent, table[m].watermark, mode[2])
<1>1. PICK m \in Node, mode \in Modes, dead \in BOOLEAN :
        /\ n \in Importers
        /\ BeginJob(n, IF mode[1] = "replace" THEN NewTable ELSE table[n],
                    docRows(m, mode, dead) \o blobRows(m, mode, dead) \o <<last(m, mode)>>)
  BY DEF ImportSnapshot, resetTableData
<1> DEFINE t == table[m]
           D == S(m, dead).docs
           B == S(m, dead).blobs
<1>2. t \in Tables BY DEF Typed, Good
<1>3. mode[2] \in {"none", "replace"} \cup {k[2] : k \in Modes} OBVIOUS
<1>4. D \subseteq KnownDocs(t) /\ B \subseteq KnownBlobs(t)
  BY DEF export_snapshot, Live, KnownDocs, KnownBlobs
<1>5. IsFiniteSet(D) /\ IsFiniteSet(B)
  <2> HIDE DEF D, B
  <2> QED BY <1>2, <1>4, FS_Subset DEF Tables
<1>6. docs(m, dead) \in [1..Cardinality(D) -> D] /\ Cardinality(D) \in Nat
  <2> HIDE DEF S
  <2> QED BY <1>5, SetToSeqType
<1>7. blobs(m, dead) \in [1..Cardinality(B) -> B] /\ Cardinality(B) \in Nat
  <2> HIDE DEF S
  <2> QED BY <1>5, SetToSeqType
<1>8. docRows(m, mode, dead) \in Seq(Rows)
  <2> HIDE DEF docs, D
  <2>1. ASSUME NEW i \in 1..Cardinality(D)
        PROVE  row("doc", docs(m, dead)[i], t.docs, mode) \in Rows
    <3> DEFINE d == docs(m, dead)[i]
    <3>1. d \in KnownDocs(t) BY <1>4, <1>6
    <3> HIDE DEF d
    <3>2. d \in DocId /\ t.docs[d] \in Value \cup {Dead}
      BY <1>2, <3>1 DEF KnownDocs, Tables, Shape, Doc
    <3>3. Row("doc", d, t.docs[d], mode[2]) \in Rows
      <4> HIDE DEF t
      <4> QED BY <1>3, <3>2, RowType
    <3> QED BY <3>3 DEF d
  <2>2. DOMAIN docs(m, dead) = 1..Cardinality(D) BY <1>6
  <2> HIDE DEF row
  <2> QED BY <1>6, <2>1, <2>2, IsASeq
<1>9. blobRows(m, mode, dead) \in Seq(Rows)
  <2> HIDE DEF blobs, B
  <2>1. ASSUME NEW i \in 1..Cardinality(B)
        PROVE  row("blob", blobs(m, dead)[i], t.blobs, mode) \in Rows
    <3> DEFINE b == blobs(m, dead)[i]
    <3>1. b \in KnownBlobs(t) BY <1>4, <1>7
    <3> HIDE DEF b
    <3>2. b \in BlobId /\ t.blobs[b] \in Content
      BY <1>2, <3>1 DEF KnownBlobs, Tables, Shape
    <3>3. Row("blob", b, t.blobs[b], mode[2]) \in Rows
      <4> HIDE DEF t
      <4> QED BY <1>3, <3>2, RowType
    <3> QED BY <3>3 DEF b
  <2>2. DOMAIN blobs(m, dead) = 1..Cardinality(B) BY <1>7
  <2> HIDE DEF row
  <2> QED BY <1>7, <2>1, <2>2, IsASeq
<1>10. last(m, mode) \in Rows
  <2>1. t.watermark \in Nat BY <1>2 DEF Tables, Shape
  <2> HIDE DEF t
  <2>2. \A kind \in {"restore", "merge"} : Row(kind, Absent, t.watermark, mode[2]) \in Rows
    BY <1>3, <2>1, RowType
  <2> QED BY <2>2 DEF t
<1> HIDE DEF docRows, blobRows, last
<1>11. docRows(m, mode, dead) \o blobRows(m, mode, dead) \o <<last(m, mode)>> \in Seq(Rows)
  BY <1>8, <1>9, <1>10
<1> QED BY <1>1, <1>11

-----------------------------------------------------------------------------
(* The peer of a worker that is not idle is one it has yet to visit.       *)
LEMMA PeerType ==
  ASSUME WorkersTyped, NEW w \in Worker, pc[w] # "idle"
  PROVE  Peer(w) \in todo[w] /\ Peer(w) \in Node
<1>1. todo[w] \subseteq Node /\ todo[w] # {} BY DEF WorkersTyped
<1>2. todo[w] \subseteq Nat BY <1>1
<1>3. \E p \in todo[w] : \A q \in todo[w] : p <= q BY <1>1, <1>2, Apply!LeastNatural
<1> QED BY <1>1, <1>3 DEF Peer

(* Going on to the next peer keeps the workers typed.                      *)
LEMMA NextPeerTyped ==
  ASSUME WorkersTyped, NEW w \in Worker, NEW rest \in SUBSET Node, NextPeer(w, rest)
  PROVE  WorkersTyped'
<1>1. <<>> \in Seq(Entry) OBVIOUS
<1> DEFINE s == IF rest = {} THEN "idle" ELSE "visit"
<1>2. /\ pc' = [pc EXCEPT ![w] = s] /\ todo' = [todo EXCEPT ![w] = rest]
      /\ after' = [after EXCEPT ![w] = 0] /\ batch' = [batch EXCEPT ![w] = <<>>]
      /\ mark' = [mark EXCEPT ![w] = 0]
  BY DEF NextPeer, Return
<1>3. s \in PCs /\ (s = "idle" <=> rest = {}) BY DEF PCs
<1> HIDE DEF s
<1>4. pc' \in [Worker -> PCs] /\ todo' \in [Worker -> SUBSET Node]
  BY <1>2, <1>3 DEF WorkersTyped
<1>5. after' \in [Worker -> Nat] /\ mark' \in [Worker -> Nat] BY <1>2 DEF WorkersTyped
<1>6. batch' \in [Worker -> Seq(Entry)] BY <1>1, <1>2 DEF WorkersTyped
<1>7. ASSUME NEW v \in Worker PROVE pc'[v] = "idle" <=> todo'[v] = {}
  <2>1. CASE v = w
    <3>1. pc'[w] = s /\ todo'[w] = rest BY <1>2 DEF WorkersTyped
    <3> QED BY <1>3, <2>1, <3>1
  <2>2. CASE v # w
    <3>1. pc'[v] = pc[v] /\ todo'[v] = todo[v] BY <1>2, <2>2 DEF WorkersTyped
    <3> QED BY <3>1 DEF WorkersTyped
  <2> QED BY <2>1, <2>2
<1> QED BY <1>4, <1>5, <1>6, <1>7 DEF WorkersTyped

(* A peer that was handed a batch is left a good table.                    *)
LEMMA OutcomeGood ==
  ASSUME Typed, NEW w \in Worker, pc[w] # "idle"
  PROVE  Outcome(w).table \in Good(Deep)
<1>1. Peer(w) \in Node BY PeerType DEF Typed
<1>2. table[Peer(w)] \in Good(Deep) /\ batch[w] \in Seq(Entry)
  BY <1>1 DEF Typed, WorkersTyped
<1> QED BY <1>2, ApplyGood DEF Outcome

(* Each step of replicate_tick keeps the tables good.                      *)
LEMMA ReplicateTyped ==
  ASSUME Typed, NEW w \in Worker, Replicate(w)
  PROVE  /\ table' \in [Node -> Good(Deep)]
         /\ WorkersTyped'
         /\ UNCHANGED others
<1> USE DEF Replicate
<1>1. WorkersTyped /\ table \in [Node -> Good(Deep)] /\ Host[w] \in Node BY DEF Typed
<1>2. CASE TickBegins(w)
  <2>1. NextPeer(w, Node \ {leader}) /\ UNCHANGED <<table, others>> BY <1>2 DEF TickBegins
  <2> QED BY <1>1, <2>1, NextPeerTyped
<1>3. CASE Visit(w)
  <2>1. pc[w] # "idle" /\ UNCHANGED <<table, others>> BY <1>3 DEF Visit
  <2>2. Peer(w) \in Node BY <1>1, <2>1, PeerType
  <2>3. CASE Peer(w) \in started
    <3>1. table[Peer(w)].latestSeq \in Nat BY <1>1, <2>2 DEF Good, Tables, Shape
    <3>2. WorkersTyped' BY <1>1, <1>3, <2>1, <2>3, <3>1 DEF Visit, WorkersTyped, PCs
    <3> QED BY <1>1, <2>1, <3>2
  <2>4. CASE Peer(w) \notin started
    <3>1. NextPeer(w, todo[w] \ {Peer(w)}) BY <1>3, <2>4 DEF Visit
    <3>2. todo[w] \ {Peer(w)} \in SUBSET Node BY <1>1 DEF WorkersTyped
    <3> QED BY <1>1, <2>1, <3>1, <3>2, NextPeerTyped
  <2> QED BY <2>3, <2>4
<1>4. CASE ReadOps(w)
  <2> DEFINE b == read_ops_since(table[Host[w]], after[w], Batch)
  <2>1. b \in Seq(Entry)
    <3> DEFINE t == table[Host[w]]
               k == Bounded(Len(t.ops), after[w] + Batch)
    <3>1. /\ t \in Tables /\ Numbered(t) /\ t.ops \in Seq(Entry)
          /\ after[w] \in Nat /\ Batch \in Nat
      BY <1>1 DEF Good, Tables, Shape, WorkersTyped
    <3> HIDE DEF t
    <3>2. k \in Nat /\ k <= Len(t.ops) BY <3>1 DEF Bounded
    <3>3. b = SubSeq(t.ops, after[w] + 1, k) BY <3>1, ReadReturnsBlock DEF t
    <3> HIDE DEF k, b
    <3>4. SubSeq(t.ops, after[w] + 1, k) \in Seq(Entry) BY <3>1, <3>2
    <3> QED BY <3>3, <3>4
  <2> HIDE DEF b
  <2>2. /\ batch' = [batch EXCEPT ![w] = b] /\ pc' = [pc EXCEPT ![w] = "apply"]
        /\ pc[w] = "read"
        /\ UNCHANGED <<table, others, todo, after, mark>>
    BY <1>4 DEF ReadOps, b
  <2>3. WorkersTyped' BY <1>1, <2>1, <2>2 DEF WorkersTyped, PCs
  <2> QED BY <1>1, <2>2, <2>3
<1>5. CASE ApplyOps(w)
  <2> DEFINE x == Outcome(w).table
  <2>1. /\ pc[w] = "apply" /\ table' = [table EXCEPT ![Peer(w)] = x]
        /\ mark' = [mark EXCEPT ![w] = table'[Host[w]].watermark]
        /\ pc' = [pc EXCEPT ![w] = "mark"]
        /\ UNCHANGED <<others, todo, after, batch>>
    BY <1>5 DEF ApplyOps
  <2>2. x \in Good(Deep) BY <2>1, OutcomeGood
  <2> HIDE DEF x
  <2>3. table' \in [Node -> Good(Deep)] BY <1>1, <2>1, <2>2
  <2>4. table'[Host[w]].watermark \in Nat BY <1>1, <2>3 DEF Good, Tables, Shape
  <2>5. WorkersTyped' BY <1>1, <2>1, <2>4 DEF WorkersTyped, PCs
  <2> QED BY <2>1, <2>3, <2>5
<1>6. CASE ApplyFails(w)
  <2> DEFINE x == Outcome(w).table
  <2>1. /\ pc[w] = "apply" /\ table' = [table EXCEPT ![Peer(w)] = x]
        /\ Return(w) /\ UNCHANGED others
    BY <1>6 DEF ApplyFails
  <2>2. x \in Good(Deep) BY <2>1, OutcomeGood
  <2> HIDE DEF x
  <2>3. table' \in [Node -> Good(Deep)] BY <1>1, <2>1, <2>2
  <2>4. NextPeer(w, {}) BY <2>1 DEF NextPeer
  <2>5. WorkersTyped' BY <1>1, <2>4, NextPeerTyped
  <2> QED BY <2>1, <2>3, <2>5
<1>7. CASE SetWatermark(w)
  <2> DEFINE p == Peer(w)
             k == IF mark[w] = 0 THEN table[p].watermark ELSE mark[w]
             x == [table[p] EXCEPT !.watermark = k]
  <2>1. /\ pc[w] = "mark"
        /\ table' = [table EXCEPT ![p] = x]
        /\ NextPeer(w, todo[w] \ {p}) /\ UNCHANGED others
    BY <1>7 DEF SetWatermark
  <2>2. p \in Node BY <1>1, <2>1, PeerType
  <2>3. table[p] \in Good(Deep) BY <1>1, <2>2
  <2>4. k \in Nat BY <1>1, <2>3 DEF Good, Tables, Shape, WorkersTyped
  <2> HIDE DEF k
  <2>5. x \in Good(Deep) BY <2>3, <2>4, WatermarkGood
  <2> HIDE DEF x
  <2>6. table' \in [Node -> Good(Deep)] BY <1>1, <2>1, <2>5
  <2>7. todo[w] \ {p} \in SUBSET Node BY <1>1 DEF WorkersTyped
  <2>8. WorkersTyped' BY <1>1, <2>1, <2>7, NextPeerTyped
  <2> QED BY <2>1, <2>6, <2>8
<1> QED BY <1>2, <1>3, <1>4, <1>5, <1>6, <1>7

(* Every step keeps the invariant of all behaviours.                       *)
LEMMA StepTyped == Typed /\ [Next]_vars => Typed'
<1> SUFFICES ASSUME Typed, [Next]_vars PROVE Typed' OBVIOUS
<1>1. ASSUME NEW n \in Node, Write(n) PROVE Typed'
  <2>1. PICK u : Wrote(Deep, table[n], u) /\ table' = [table EXCEPT ![n] = u]
    BY <1>1, WriteStep
  <2>2. table' \in [Node -> Good(Deep)] BY <2>1 DEF Wrote, Typed
  <2>3. /\ issued' \subseteq DocId /\ writes' \in Nat
        /\ UNCHANGED <<leader, led, started, job, moves, workerVars>>
    BY <1>1, WriteStep
  <2> QED BY <2>2, <2>3 DEF Typed, WorkersTyped, workerVars
<1>2. ASSUME NEW n \in Node, DoRow(n) PROVE Typed'
  <2>1. PICK u : Changed(table[n], u) /\ table' = [table EXCEPT ![n] = u]
    BY <1>2, RowStep
  <2>2. table' \in [Node -> Good(Deep)] BY <2>1 DEF Changed, Wrote, Typed
  <2>3. PICK rows \in Seq(Rows) : job' = [job EXCEPT ![n] = rows] BY <1>2, RowStep
  <2>4. job' \in [Node -> Seq(Rows)] BY <2>3 DEF Typed
  <2>5. UNCHANGED <<issued, leader, led, started, writes, moves, workerVars>>
    BY <1>2, RowStep
  <2> QED BY <2>2, <2>4, <2>5 DEF Typed, WorkersTyped, workerVars
<1>3. ASSUME NEW n \in Node, NEW u \in Good(Deep), NEW rows \in Seq(Rows),
             BeginJob(n, u, rows)
      PROVE  Typed'
  <2>1. table' \in [Node -> Good(Deep)] BY <1>3 DEF Typed, BeginJob
  <2>2. job' \in [Node -> Seq(Rows)] BY <1>3 DEF Typed, BeginJob
  <2>3. moves' \in Nat BY <1>3 DEF Typed, BeginJob
  <2>4. UNCHANGED <<issued, leader, led, started, writes, workerVars>>
    BY <1>3 DEF BeginJob
  <2> QED BY <2>1, <2>2, <2>3, <2>4 DEF Typed, WorkersTyped, workerVars
<1>4. ASSUME NEW n \in Node, RunRetention(n) PROVE Typed'
  <2>1. table[n] \in Good(Deep) BY DEF Typed
  <2> QED BY <1>3, <1>4, <2>1, RetentionStep
<1>5. ASSUME NEW n \in Node, ImportSnapshot(n) PROVE Typed'
  <2>1. table[n] \in Good(Deep) /\ NewTable \in Good(Deep) BY NewTableGood DEF Typed
  <2>2. PICK mode \in Modes, rows \in Seq(Rows) :
          BeginJob(n, IF mode[1] = "replace" THEN NewTable ELSE table[n], rows)
    BY <1>5, ImportStep
  <2> QED BY <1>3, <2>1, <2>2
<1>6. ASSUME NEW n \in Node, FailOver(n) PROVE Typed'
  <2>1. leader' \in led' /\ led' \subseteq Node /\ moves' \in Nat
    BY <1>6 DEF FailOver, Typed
  <2>2. UNCHANGED <<table, issued, started, job, writes, workerVars>>
    BY <1>6 DEF FailOver
  <2> QED BY <2>1, <2>2 DEF Typed, WorkersTyped, workerVars
<1>7. ASSUME NEW n \in Node, StopStart(n) PROVE Typed'
  <2>1. started' \subseteq Node /\ moves' \in Nat BY <1>7 DEF StopStart, Typed
  <2>2. UNCHANGED <<table, issued, leader, led, job, writes, workerVars>>
    BY <1>7 DEF StopStart
  <2> QED BY <2>1, <2>2 DEF Typed, WorkersTyped, workerVars
<1>8. ASSUME NEW w \in Worker, Replicate(w) PROVE Typed'
  <2>1. table' \in [Node -> Good(Deep)] /\ WorkersTyped' /\ UNCHANGED others
    BY <1>8, ReplicateTyped
  <2> QED BY <2>1 DEF Typed, others
<1>9. CASE UNCHANGED vars
  BY <1>9 DEF vars, workerVars, Typed, WorkersTyped
<1> QED BY <1>1, <1>2, <1>4, <1>5, <1>6, <1>7, <1>8, <1>9 DEF Next

(* The invariant of all behaviours always holds.                           *)
THEOREM AlwaysTyped == Spec => []Typed
BY InitTyped, StepTyped, PTL DEF Spec

(* The variables always have their types.                                  *)
THEOREM TypeCorrect == Spec => []TypeOK
<1>1. Typed => TypeOK
  <2> SUFFICES ASSUME Typed PROVE TypeOK OBVIOUS
  <2>1. ASSUME NEW n \in Node
        PROVE  /\ table[n].docs \in [DocId -> Value \cup {Absent, Dead}]
               /\ table[n].blobs \in [BlobId -> Content \cup {Absent}]
               /\ table[n].latestSeq \in Nat /\ table[n].watermark \in Nat
               /\ \A i \in DOMAIN table[n].ops : table[n].ops[i].op_type \in OpTypes
    <3>1. table[n] \in Shape BY DEF Typed, Good, Tables
    <3>2. table[n].ops \in Seq(Entry) BY <3>1 DEF Shape
    <3>3. \A i \in DOMAIN table[n].ops : table[n].ops[i] \in Entry BY <3>2
    <3> QED BY <3>1, <3>3 DEF Shape, Doc, Entry
  <2> QED BY <2>1 DEF TypeOK, Typed, WorkersTyped, PCs
<1> QED BY <1>1, AlwaysTyped, PTL

(* The log of every table numbers its entries without a gap or a           *)
(* repetition, whoever leads, and whatever is imported, refused or         *)
(* applied twice.                                                          *)
THEOREM LogsStayInStep == Spec => []LogInStep
<1>1. Typed => LogInStep BY DEF Typed, LogInStep, Good, Numbered
<1> QED BY <1>1, AlwaysTyped, PTL

(* Without shallow merges every table shows what its log says: at          *)
(* leaders, at replicas, after a failed batch, after failovers and         *)
(* imports.                                                                *)
THEOREM DocumentsFollowLog ==
  ASSUME Deep PROVE Spec => []DocsFollowLog
<1>1. Typed => DocsFollowLog
  <2> SUFFICES ASSUME Typed, NEW n \in Node
               PROVE  View(Replayed(table[n].ops)) = View(table[n])
    BY DEF DocsFollowLog
  <2>1. table[n] \in Good(TRUE) BY DEF Typed, Good, Follows, AlikeTables, Alike
  <2> QED BY <2>1, GoodFollowsLog
<1> QED BY <1>1, AlwaysTyped, PTL

-----------------------------------------------------------------------------
(* One node leads for good, and it alone runs retention and imports,       *)
(* never an import that resets its table. Run replication_bootstrap shows  *)
(* what becomes of a replica that resets its own table.                    *)
OneLeader ==
  /\ ~MayFailOver
  /\ Retainers \subseteq {First} /\ Importers \subseteq {First}
  /\ Importers # {} => \A mode \in Modes : mode[1] # "replace"

(* A worker holds a block of the log of the leader, and its peer holds a   *)
(* beginning that reaches the start of the block.                          *)
Block(w) ==
  \E a, k \in Nat :
    /\ a <= Len(table[Peer(w)].ops) /\ a <= k /\ k <= Len(table[First].ops)
    /\ batch[w] = Slice(table[First].ops, a, k)

(* What a tick relies on between its awaits: it runs at the leader, the    *)
(* number it read of its peer is not past what the peer holds, and         *)
(* neither is the batch it read of the leader.                             *)
InFlight(w) ==
  /\ pc[w] # "idle" => Host[w] = First /\ todo[w] \subseteq Node \ {First}
  /\ pc[w] = "read" => after[w] <= Len(table[Peer(w)].ops)
  /\ pc[w] = "apply" => Block(w)

(* What holds while one node leads.                                        *)
Led ==
  /\ leader = First /\ led = {First}
  /\ \A n \in Node \ {First} : job[n] = <<>>
  /\ \A n \in Node : Begins(table[n].ops, table[First].ops)
  /\ \A w \in Worker : InFlight(w)

Forward == \A n \in Node : Begins(table[n].ops, table'[n].ops)

(* The first state is led.                                                 *)
LEMMA InitLed == Init => Led
<1> SUFFICES ASSUME Init PROVE Led OBVIOUS
<1>1. Typed BY InitTyped
<1>2. \A n \in Node : table[n] = table[First] /\ table[n].ops \in Seq(Entry)
  BY <1>1 DEF Init, Typed, Good, Tables, Shape
<1>3. \A n \in Node : Begins(table[n].ops, table[First].ops) BY <1>2, BeginsItself
<1>4. \A w \in Worker : InFlight(w) BY DEF Init, InFlight
<1> QED BY <1>3, <1>4 DEF Init, Led

(* The log of every table is a sequence as long as latestSeq.              *)
LEMMA OpsType ==
  ASSUME Typed, NEW n \in Node
  PROVE  /\ table[n].ops \in Seq(Entry) /\ Len(table[n].ops) \in Nat
         /\ table[n].latestSeq = Len(table[n].ops)
BY DEF Typed, Good, Tables, Shape, Numbered

(* Logs that grow under a worker between its awaits leave what it holds    *)
(* of use: numbers read earlier still lie within the peer, and the block   *)
(* within the log.                                                         *)
LEMMA StillInFlight ==
  ASSUME Typed, Typed', Forward, NEW w \in Worker, InFlight(w),
         pc'[w] = pc[w], todo'[w] = todo[w], after'[w] = after[w], batch'[w] = batch[w]
  PROVE  InFlight(w)'
<1>1. Peer(w)' = Peer(w) BY DEF Peer
<1>2. ASSUME pc[w] # "idle"
      PROVE  /\ Peer(w) \in Node
             /\ Len(table[Peer(w)].ops) <= Len(table'[Peer(w)].ops)
             /\ Len(table[Peer(w)].ops) \in Nat /\ Len(table'[Peer(w)].ops) \in Nat
  <2>1. Peer(w) \in Node BY <1>2, PeerType DEF Typed
  <2>2. Len(table[Peer(w)].ops) \in Nat BY <2>1, OpsType
  <2>3. Len(table'[Peer(w)].ops) \in Nat BY <2>1 DEF Typed, Good, Tables, Shape
  <2> QED BY <2>1, <2>2, <2>3 DEF Forward, Begins
<1>3. ASSUME pc[w] = "read" PROVE after[w] <= Len(table'[Peer(w)].ops)
  <2>1. after[w] \in Nat BY DEF Typed, WorkersTyped
  <2>2. after[w] <= Len(table[Peer(w)].ops) BY <1>3 DEF InFlight
  <2> DEFINE m == Len(table[Peer(w)].ops)
             k == Len(table'[Peer(w)].ops)
  <2>3. m \in Nat /\ k \in Nat /\ m <= k BY <1>2, <1>3
  <2> HIDE DEF m, k
  <2>4. after[w] <= m BY <2>2 DEF m
  <2>5. after[w] <= k BY <2>1, <2>3, <2>4
  <2> QED BY <2>5 DEF k
<1>4. ASSUME pc[w] = "apply" PROVE Block(w)'
  <2>1. PICK a \in Nat, k \in Nat :
          /\ a <= Len(table[Peer(w)].ops) /\ a <= k /\ k <= Len(table[First].ops)
          /\ batch[w] = Slice(table[First].ops, a, k)
    BY <1>4 DEF InFlight, Block
  <2>2. /\ table[First].ops \in Seq(Entry) /\ table'[First].ops \in Seq(Entry)
        /\ Begins(table[First].ops, table'[First].ops)
    BY DEF Forward, Typed, Good, Tables, Shape
  <2>3. Slice(table[First].ops, a, k) = Slice(table'[First].ops, a, k)
    BY <2>1, <2>2, BlockOfBegin
  <2>4. k <= Len(table'[First].ops) BY <2>1, <2>2 DEF Begins
  <2>5. a <= Len(table'[Peer(w)].ops) BY <1>2, <1>4, <2>1
  <2>6. batch'[w] = Slice(table'[First].ops, a, k) BY <2>1, <2>3
  <2> QED BY <1>1, <2>1, <2>4, <2>5, <2>6 DEF Block
<1> QED BY <1>1, <1>3, <1>4 DEF InFlight

(* A worker that goes on to its next peer relies on nothing.               *)
LEMMA NextPeerInFlight ==
  ASSUME Typed, NEW w \in Worker, NEW rest \in SUBSET (Node \ {First}),
         Host[w] = First, NextPeer(w, rest)
  PROVE  /\ InFlight(w)'
         /\ \A v \in Worker \ {w} : /\ pc'[v] = pc[v] /\ todo'[v] = todo[v]
                                    /\ after'[v] = after[v] /\ batch'[v] = batch[v]
<1> DEFINE s == IF rest = {} THEN "idle" ELSE "visit"
<1>1. /\ pc' = [pc EXCEPT ![w] = s] /\ todo' = [todo EXCEPT ![w] = rest]
      /\ after' = [after EXCEPT ![w] = 0] /\ batch' = [batch EXCEPT ![w] = <<>>]
  BY DEF NextPeer, Return
<1>2. s # "read" /\ s # "apply" OBVIOUS
<1> HIDE DEF s
<1>3. pc'[w] = s /\ todo'[w] = rest BY <1>1 DEF Typed, WorkersTyped
<1>4. InFlight(w)' BY <1>2, <1>3 DEF InFlight
<1>5. \A v \in Worker \ {w} : /\ pc'[v] = pc[v] /\ todo'[v] = todo[v]
                             /\ after'[v] = after[v] /\ batch'[v] = batch[v]
  BY <1>1 DEF Typed, WorkersTyped
<1> QED BY <1>4, <1>5

(* Logs that stay as they are do not shrink.                               *)
LEMMA ForwardIfKept ==
  ASSUME Typed, \A n \in Node : table'[n].ops = table[n].ops PROVE Forward
BY OpsType, BeginsItself DEF Forward

(* A step of something else leaves every tick what it relies on.           *)
LEMMA WorkersKept ==
  ASSUME Typed, Typed', Led, Forward, UNCHANGED workerVars
  PROVE  \A w \in Worker : InFlight(w)'
BY StillInFlight DEF Led, workerVars

(* A replica that no step touches still holds a beginning of the log of    *)
(* the leader.                                                             *)
LEMMA BeginsKept ==
  ASSUME Typed, Typed', Led, Forward, NEW n \in Node,
         table'[n].ops = table[n].ops
  PROVE  Begins(table'[n].ops, table'[First].ops)
<1>1. /\ table[n].ops \in Seq(Entry) /\ table[First].ops \in Seq(Entry)
      /\ table'[First].ops \in Seq(Entry)
  BY DEF Typed, Good, Tables, Shape
<1>2. Begins(table[n].ops, table[First].ops) /\ Begins(table[First].ops, table'[First].ops)
  BY DEF Led, Forward
<1> QED BY <1>1, <1>2, BeginsTransitive

Kept(n) == table'[n].ops = table[n].ops

(* A step writes one entry at the leader, or takes a replica further, or   *)
(* leaves the logs alone.                                                  *)
Moves ==
  \/ \A n \in Node : Kept(n)
  \/ /\ \E op \in Entry : table'[First].ops = Append(table[First].ops, op)
     /\ \A n \in Node \ {First} : Kept(n)
  \/ \E p \in Node \ {First} :
       /\ Begins(table[p].ops, table'[p].ops)
       /\ \A n \in Node \ {p} : Kept(n)

(* A step of the leader takes its log forward and leaves every replica a   *)
(* beginning of it.                                                        *)
LEMMA LeaderStep ==
  ASSUME Typed, Typed', Led, NEW u, Changed(table[First], u),
         table' = [table EXCEPT ![First] = u], UNCHANGED workerVars
  PROVE  /\ Forward /\ Moves
         /\ \A n \in Node : Begins(table'[n].ops, table'[First].ops)
         /\ \A w \in Worker : InFlight(w)'
<1>1. /\ table'[First] = u
      /\ \A n \in Node : n # First => table'[n] = table[n]
  BY DEF Typed
<1>2. \A n \in Node : table[n].ops \in Seq(Entry) BY OpsType
<1>3. Begins(table[First].ops, u.ops)
  <2>1. CASE u.ops = table[First].ops BY <1>2, <2>1, BeginsItself
  <2>2. CASE \E op \in Entry : u.ops = Append(table[First].ops, op)
    BY <1>2, <2>2, BeginsAppended
  <2> QED BY <2>1, <2>2 DEF Changed, Wrote
<1>4. Forward
  <2> SUFFICES ASSUME NEW n \in Node PROVE Begins(table[n].ops, table'[n].ops)
    BY DEF Forward
  <2>1. CASE n = First BY <1>1, <1>3, <2>1
  <2>2. CASE n # First BY <1>1, <1>2, <2>2, BeginsItself
  <2> QED BY <2>1, <2>2
<1>5. ASSUME NEW n \in Node PROVE Begins(table'[n].ops, table'[First].ops)
  <2>1. CASE n = First
    <3>1. table'[First].ops \in Seq(Entry) BY DEF Typed, Good, Tables, Shape
    <3> QED BY <2>1, <3>1, BeginsItself
  <2>2. CASE n # First
    <3>1. table'[n].ops = table[n].ops BY <1>1, <2>2
    <3> QED BY <1>4, <3>1, BeginsKept
  <2> QED BY <2>1, <2>2
<1>6. Moves
  <2>1. \A n \in Node \ {First} : Kept(n) BY <1>1 DEF Kept
  <2>2. CASE u.ops = table[First].ops BY <1>1, <2>1, <2>2 DEF Moves, Kept
  <2>3. CASE \E op \in Entry : u.ops = Append(table[First].ops, op)
    BY <1>1, <2>1, <2>3 DEF Moves
  <2> QED BY <2>2, <2>3 DEF Changed, Wrote
<1> QED BY <1>4, <1>5, <1>6, WorkersKept

(* A step that leaves the logs alone.                                      *)
LEMMA QuietStep ==
  ASSUME Typed, Typed', Led, \A n \in Node : table'[n].ops = table[n].ops
  PROVE  /\ Forward /\ Moves
         /\ \A n \in Node : Begins(table'[n].ops, table'[First].ops)
         /\ UNCHANGED workerVars => \A w \in Worker : InFlight(w)'
<1>1. Forward BY ForwardIfKept
<1>2. Moves BY DEF Moves, Kept
<1> QED BY <1>1, <1>2, BeginsKept, WorkersKept

(* The peer of a worker that has read gets the rest of what it read.       *)
LEMMA OutcomeFits ==
  ASSUME Typed, Led, NEW w \in Worker, pc[w] = "apply"
  PROVE  /\ Outcome(w).ok
         /\ Outcome(w).table \in Good(Deep)
         /\ Peer(w) \in Node \ {First} /\ Host[w] = First
         /\ Begins(Outcome(w).table.ops, table[First].ops)
         /\ Begins(table[Peer(w)].ops, Outcome(w).table.ops)
<1> DEFINE p == Peer(w)
           t == table[p]
           l == table[First]
           s == Outcome(w)
<1>1. InFlight(w) /\ pc[w] # "idle" BY DEF Led
<1>2. p \in todo[w] /\ p \in Node BY <1>1, PeerType DEF Typed
<1>3. p \in Node \ {First} /\ Host[w] = First BY <1>1, <1>2 DEF InFlight
<1> HIDE DEF p
<1>4. t \in Good(Deep) /\ l \in Good(Deep) BY <1>2 DEF Typed
<1>5. /\ t.ops \in Seq(Entry) /\ l.ops \in Seq(Entry)
      /\ Len(t.ops) \in Nat /\ Len(l.ops) \in Nat
  BY <1>2, OpsType
<1>6. Begins(t.ops, l.ops) BY <1>2 DEF Led
<1>7. PICK a \in Nat, k \in Nat :
        /\ a <= Len(t.ops) /\ a <= k /\ k <= Len(l.ops)
        /\ batch[w] = Slice(l.ops, a, k)
  BY <1>1 DEF InFlight, Block, p
<1> DEFINE m == Larger(Len(t.ops), k)
<1>8. s = apply_ops(t, Slice(l.ops, a, k)) BY <1>7 DEF Outcome, p
<1> HIDE DEF t, l, s
<1>9. s.ok /\ s.table \in Good(Deep) /\ s.table.ops = Slice(l.ops, 0, m)
  BY <1>4, <1>6, <1>7, <1>8, ApplyBlock
<1>10. m \in Nat /\ m <= Len(l.ops) /\ Len(t.ops) <= m
  BY <1>5, <1>6, <1>7 DEF Larger, Begins
<1>11. s.table.ops \in Seq(Entry) BY <1>9 DEF Good, Tables, Shape
<1> HIDE DEF m
<1>12. Len(s.table.ops) = m /\ Begins(s.table.ops, l.ops)
  BY <1>5, <1>9, <1>10, SliceBegins
<1>13. Begins(t.ops, s.table.ops)
  BY <1>5, <1>6, <1>10, <1>11, <1>12, BeginsShorter
<1> QED BY <1>3, <1>9, <1>12, <1>13 DEF s, t, l, p

(* Each step of replicate_tick, however ticks overlap, takes the log of    *)
(* one replica forward.                                                    *)
LEMMA ReplicateLed ==
  ASSUME Typed, Typed', Led, NEW w \in Worker, Replicate(w)
  PROVE  /\ Forward /\ Moves
         /\ \A n \in Node : Begins(table'[n].ops, table'[First].ops)
         /\ \A v \in Worker : InFlight(v)'
<1> DEFINE Goal == /\ Forward /\ Moves
                   /\ \A n \in Node : Begins(table'[n].ops, table'[First].ops)
                   /\ \A v \in Worker : InFlight(v)'
           Waits(v) == /\ pc'[v] = pc[v] /\ todo'[v] = todo[v]
                       /\ after'[v] = after[v] /\ batch'[v] = batch[v]
<1>1. ASSUME Forward, InFlight(w)', \A v \in Worker \ {w} : Waits(v)
      PROVE  \A v \in Worker : InFlight(v)'
  <2> SUFFICES ASSUME NEW v \in Worker, v # w PROVE InFlight(v)' BY <1>1
  <2>1. InFlight(v) BY DEF Led
  <2> QED BY <1>1, <2>1, StillInFlight
<1>2. InFlight(w) /\ WorkersTyped BY DEF Led, Typed
<1>3. pc[w] # "idle" => /\ Peer(w) \in todo[w] /\ Peer(w) \in Node \ {First}
                        /\ Host[w] = First /\ todo[w] \subseteq Node \ {First}
  BY <1>2, PeerType DEF InFlight
<1>4. ASSUME NEW rest \in SUBSET (Node \ {First}), Host[w] = First, NextPeer(w, rest),
             \A n \in Node : table'[n].ops = table[n].ops
      PROVE  Goal
  <2>1. InFlight(w)' /\ \A v \in Worker \ {w} : Waits(v) BY <1>4, NextPeerInFlight
  <2>2. Forward /\ Moves /\ \A n \in Node : Begins(table'[n].ops, table'[First].ops)
    BY <1>4, QuietStep
  <2> QED BY <1>1, <2>1, <2>2
<1>5. ASSUME table' = table PROVE \A n \in Node : table'[n].ops = table[n].ops
  BY <1>5
<1> SUFFICES Goal OBVIOUS
<1> HIDE DEF Goal
<1>6. CASE TickBegins(w)
  <2>1. NextPeer(w, Node \ {First}) /\ Host[w] = First /\ table' = table
    BY <1>6 DEF TickBegins, Led
  <2> QED BY <1>4, <1>5, <2>1
<1>7. CASE Visit(w)
  <2>1. pc[w] = "visit" /\ table' = table BY <1>7 DEF Visit
  <2>2. CASE Peer(w) \in started
    <3>1. /\ pc' = [pc EXCEPT ![w] = "read"]
          /\ after' = [after EXCEPT ![w] = table[Peer(w)].latestSeq]
          /\ UNCHANGED <<todo, batch, mark>>
      BY <1>7, <2>2 DEF Visit
    <3>2. \A v \in Worker \ {w} : Waits(v) BY <1>2, <3>1 DEF WorkersTyped
    <3>3. /\ pc'[w] = "read" /\ todo'[w] = todo[w]
          /\ after'[w] = Len(table[Peer(w)].ops)
      BY <1>2, <1>3, <2>1, <3>1, OpsType DEF WorkersTyped
    <3>4. Peer(w)' = Peer(w) BY <3>3 DEF Peer
    <3>5. after'[w] <= Len(table'[Peer(w)].ops) BY <1>3, <2>1, <3>3, OpsType
    <3>6. InFlight(w)' BY <1>3, <2>1, <3>3, <3>4, <3>5 DEF InFlight
    <3>7. Forward /\ Moves /\ \A n \in Node : Begins(table'[n].ops, table'[First].ops)
      BY <1>5, <2>1, QuietStep
    <3> QED BY <1>1, <3>2, <3>6, <3>7 DEF Goal
  <2>3. CASE Peer(w) \notin started
    <3>1. NextPeer(w, todo[w] \ {Peer(w)}) BY <1>7, <2>3 DEF Visit
    <3>2. todo[w] \ {Peer(w)} \in SUBSET (Node \ {First}) BY <1>3, <2>1
    <3> QED BY <1>3, <1>4, <1>5, <2>1, <3>1, <3>2
  <2> QED BY <2>2, <2>3
<1>8. CASE ReadOps(w)
  <2> DEFINE b == read_ops_since(table[First], after[w], Batch)
             l == table[First].ops
             k == Bounded(Len(l), after[w] + Batch)
  <2>1. pc[w] = "read" /\ table' = table BY <1>8 DEF ReadOps
  <2>2. Host[w] = First BY <1>3, <2>1
  <2>3. /\ batch' = [batch EXCEPT ![w] = b] /\ pc' = [pc EXCEPT ![w] = "apply"]
        /\ UNCHANGED <<todo, after, mark>>
    BY <1>8, <2>2 DEF ReadOps
  <2>4. b = Slice(l, after[w], k)
    <3>1. /\ table[First] \in Tables /\ Numbered(table[First])
          /\ after[w] \in Nat /\ Batch \in Nat
      BY DEF Typed, Good, WorkersTyped
    <3> QED BY <3>1, ReadReturnsBlock, Zenon DEF Slice
  <2> HIDE DEF b
  <2>5. \A v \in Worker \ {w} : Waits(v) BY <1>2, <2>3 DEF WorkersTyped
  <2>6. pc'[w] = "apply" /\ todo'[w] = todo[w] /\ batch'[w] = b
    BY <1>2, <2>3 DEF WorkersTyped
  <2>7. Peer(w)' = Peer(w) BY <2>6 DEF Peer
  <2>8. after[w] \in Nat /\ after[w] <= Len(table[Peer(w)].ops) /\ Len(l) \in Nat
    BY <1>2, <2>1, OpsType DEF InFlight, WorkersTyped
  <2>9. Len(table[Peer(w)].ops) <= Len(l) /\ Len(table[Peer(w)].ops) \in Nat
    BY <1>3, <2>1, OpsType DEF Led, Begins
  <2>10. k \in Nat /\ after[w] <= k /\ k <= Len(l) BY <2>8, <2>9 DEF Bounded
  <2> HIDE DEF k
  <2>11. Block(w)' BY <2>1, <2>4, <2>6, <2>7, <2>8, <2>10 DEF Block
  <2>12. InFlight(w)' BY <1>3, <2>1, <2>6, <2>11 DEF InFlight
  <2>13. Forward /\ Moves /\ \A n \in Node : Begins(table'[n].ops, table'[First].ops)
    BY <1>5, <2>1, QuietStep
  <2> QED BY <1>1, <2>5, <2>12, <2>13 DEF Goal
<1>9. CASE ApplyOps(w)
  <2> DEFINE p == Peer(w)
             x == Outcome(w).table
  <2>1. /\ pc[w] = "apply" /\ table' = [table EXCEPT ![p] = x]
        /\ pc' = [pc EXCEPT ![w] = "mark"]
        /\ UNCHANGED <<todo, after, batch>>
    BY <1>9 DEF ApplyOps
  <2>2. /\ p \in Node \ {First} /\ Host[w] = First
        /\ Begins(x.ops, table[First].ops) /\ Begins(table[p].ops, x.ops)
    BY <2>1, OutcomeFits
  <2> HIDE DEF p, x
  <2>3. table'[p] = x /\ \A n \in Node : n # p => table'[n] = table[n]
    BY <2>1, <2>2 DEF Typed
  <2>4. \A n \in Node \ {p} : Kept(n) BY <2>3 DEF Kept
  <2>5. Moves BY <2>2, <2>3, <2>4 DEF Moves
  <2>6. Forward
    <3> SUFFICES ASSUME NEW n \in Node PROVE Begins(table[n].ops, table'[n].ops)
      BY DEF Forward
    <3>1. CASE n = p BY <2>2, <2>3, <3>1
    <3>2. CASE n # p BY <2>3, <3>2, OpsType, BeginsItself
    <3> QED BY <3>1, <3>2
  <2>7. ASSUME NEW n \in Node PROVE Begins(table'[n].ops, table'[First].ops)
    <3>1. table'[First] = table[First] BY <2>2, <2>3
    <3>2. CASE n = p BY <2>2, <2>3, <3>1, <3>2
    <3>3. CASE n # p BY <2>3, <3>1, <3>3 DEF Led
    <3> QED BY <3>2, <3>3
  <2>8. pc'[w] = "mark" /\ todo'[w] = todo[w] BY <1>2, <2>1 DEF WorkersTyped
  <2>9. InFlight(w)' BY <1>3, <2>1, <2>8 DEF InFlight
  <2>10. \A v \in Worker \ {w} : Waits(v) BY <1>2, <2>1 DEF WorkersTyped
  <2> QED BY <1>1, <2>5, <2>6, <2>7, <2>9, <2>10 DEF Goal
<1>10. CASE ApplyFails(w)
  BY <1>10, OutcomeFits DEF ApplyFails
<1>11. CASE SetWatermark(w)
  <2> DEFINE p == Peer(w)
             k == IF mark[w] = 0 THEN table[p].watermark ELSE mark[w]
             x == [table[p] EXCEPT !.watermark = k]
  <2>1. /\ pc[w] = "mark" /\ table' = [table EXCEPT ![p] = x]
        /\ NextPeer(w, todo[w] \ {p})
    BY <1>11 DEF SetWatermark
  <2>2. p \in Node /\ Host[w] = First /\ todo[w] \ {p} \in SUBSET (Node \ {First})
    BY <1>3, <2>1
  <2>3. x.ops = table[p].ops BY <2>2 DEF Typed, Good, Tables, Shape
  <2> HIDE DEF p, x
  <2>4. \A n \in Node : table'[n].ops = table[n].ops BY <2>1, <2>2, <2>3 DEF Typed
  <2> QED BY <1>4, <2>1, <2>2, <2>4
<1> QED BY <1>6, <1>7, <1>8, <1>9, <1>10, <1>11 DEF Replicate

(* Every step keeps what holds while one node leads, and moves one log     *)
(* forward at most.                                                        *)
LEMMA StepLed ==
  ASSUME OneLeader, Typed, Led, [Next]_vars
  PROVE  Led' /\ Forward /\ Moves
<1>1. Typed' BY StepTyped
<1> DEFINE Follow == /\ Forward /\ Moves
                     /\ \A n \in Node : Begins(table'[n].ops, table'[First].ops)
                     /\ \A w \in Worker : InFlight(w)'
           Still == leader' = leader /\ led' = led /\ \A n \in Node \ {First} : job'[n] = <<>>
<1>2. ASSUME Follow, Still PROVE Led' /\ Forward /\ Moves BY <1>2 DEF Led
<1>3. ASSUME NEW n \in Node, Write(n) PROVE Follow /\ Still
  <2>1. n = First BY <1>3, WriteStep DEF Led
  <2>2. PICK u : Wrote(Deep, table[n], u) /\ table' = [table EXCEPT ![n] = u]
    BY <1>3, WriteStep
  <2>3. UNCHANGED <<leader, led, job, workerVars>> BY <1>3, WriteStep
  <2>4. Follow BY <1>1, <2>1, <2>2, <2>3, LeaderStep DEF Changed
  <2> QED BY <2>3, <2>4 DEF Led
<1>4. ASSUME NEW n \in Node, DoRow(n) PROVE Follow /\ Still
  <2>1. n = First BY <1>4, RowStep DEF Led
  <2>2. PICK u : Changed(table[n], u) /\ table' = [table EXCEPT ![n] = u] BY <1>4, RowStep
  <2>3. PICK rows \in Seq(Rows) : job' = [job EXCEPT ![n] = rows] BY <1>4, RowStep
  <2>4. UNCHANGED <<leader, led, workerVars>> BY <1>4, RowStep
  <2>5. Follow BY <1>1, <2>1, <2>2, <2>4, LeaderStep
  <2>6. \A m \in Node \ {First} : job'[m] = <<>> BY <2>1, <2>3 DEF Led, Typed
  <2> QED BY <2>4, <2>5, <2>6
<1>5. ASSUME \A n \in Node : table'[n].ops = table[n].ops, UNCHANGED workerVars
      PROVE  Follow
  BY <1>1, <1>5, QuietStep
<1>6. ASSUME NEW n \in Node, n = First, NEW rows, BeginJob(n, table[n], rows)
      PROVE  Follow /\ Still
  <2>1. /\ table' = [table EXCEPT ![n] = table[n]] /\ job' = [job EXCEPT ![n] = rows]
        /\ UNCHANGED <<leader, led, workerVars>>
    BY <1>6 DEF BeginJob
  <2>2. table' = table BY <2>1 DEF Typed
  <2>3. \A m \in Node \ {First} : job'[m] = <<>> BY <1>6, <2>1 DEF Led, Typed
  <2>4. Follow BY <1>5, <2>1, <2>2
  <2> QED BY <2>1, <2>3, <2>4
<1>7. ASSUME NEW n \in Node, RunRetention(n) PROVE Follow /\ Still
  <2>1. n = First BY <1>7, RetentionStep DEF OneLeader
  <2> HIDE DEF Follow, Still
  <2> QED BY <1>6, <1>7, <2>1, RetentionStep
<1>8. ASSUME NEW n \in Node, ImportSnapshot(n) PROVE Follow /\ Still
  <2>1. n = First /\ \A mode \in Modes : mode[1] # "replace"
    BY <1>8, ImportStep DEF OneLeader
  <2> HIDE DEF Follow, Still
  <2>2. \E rows : BeginJob(n, table[n], rows) BY <1>8, <2>1, ImportStep
  <2> QED BY <1>6, <2>1, <2>2
<1>9. ASSUME NEW n \in Node, FailOver(n) PROVE FALSE
  BY <1>9 DEF FailOver, OneLeader
<1>10. ASSUME NEW n \in Node, StopStart(n) PROVE Follow /\ Still
  <2>1. UNCHANGED <<table, leader, led, job, workerVars>> BY <1>10 DEF StopStart
  <2>2. Follow BY <1>5, <2>1
  <2> QED BY <2>1, <2>2 DEF Led
<1>11. ASSUME NEW w \in Worker, Replicate(w) PROVE Follow /\ Still
  <2>1. Follow BY <1>1, <1>11, ReplicateLed
  <2>2. UNCHANGED others BY <1>11, ReplicateTyped
  <2> QED BY <2>1, <2>2 DEF others, Led
<1>12. ASSUME UNCHANGED vars PROVE Follow /\ Still
  <2>1. UNCHANGED <<table, leader, led, job, workerVars>> BY <1>12 DEF vars, workerVars
  <2>2. Follow BY <1>5, <2>1
  <2> QED BY <2>1, <2>2 DEF Led
<1> HIDE DEF Follow, Still
<1> QED BY <1>2, <1>3, <1>4, <1>7, <1>8, <1>9, <1>10, <1>11, <1>12 DEF Next

(* Both invariants always hold while one node leads.                       *)
THEOREM AlwaysLed ==
  ASSUME OneLeader PROVE Spec => [](Typed /\ Led)
<1>1. Init => Typed /\ Led BY InitTyped, InitLed
<1>2. Typed /\ Led /\ [Next]_vars => Typed' /\ Led' BY StepTyped, StepLed
<1> QED BY <1>1, <1>2, PTL DEF Spec

(* While one node leads, every replica holds a beginning of its log.       *)
THEOREM ReplicasFollowLeader ==
  ASSUME OneLeader PROVE Spec => []PrefixOfLeader
<1>1. Typed /\ Led => PrefixOfLeader
  <2> SUFFICES ASSUME Typed, Led, NEW n \in Node
               PROVE  IsPrefix(table[n].ops, table[First].ops)
    BY DEF PrefixOfLeader
  <2> DEFINE s == table[n].ops
             t == table[First].ops
  <2>1. s \in Seq(Entry) /\ Begins(s, t) BY OpsType DEF Led
  <2> HIDE DEF s, t
  <2>2. SubSeq(s, 1, Len(s)) = s BY <2>1, SubSeqFull
  <2>3. IsPrefix(s, t) BY <2>1, <2>2 DEF IsPrefix, Begins
  <2> QED BY <2>3 DEF s, t
<1> QED BY <1>1, AlwaysLed, PTL

(* While one node leads, apply_ops never throws: the batch of a tick fits  *)
(* the peer even if an overlapping tick applied part of it meanwhile.      *)
THEOREM NoBatchIsRefused ==
  ASSUME OneLeader PROVE Spec => []NeverRefused
<1>1. Typed /\ Led => NeverRefused BY OutcomeFits DEF NeverRefused
<1> QED BY <1>1, AlwaysLed, PTL

(* Logs only grow.                                                         *)
LogsGrow == [][\A n \in Node : IsPrefix(table[n].ops, table'[n].ops)]_vars

(* While one node leads, no step takes an entry from a log or changes      *)
(* one.                                                                    *)
THEOREM LogsOnlyGrow ==
  ASSUME OneLeader PROVE Spec => LogsGrow
<1>1. Typed /\ Led /\ [Next]_vars
        => [\A n \in Node : IsPrefix(table[n].ops, table'[n].ops)]_vars
  <2> SUFFICES ASSUME Typed, Led, [Next]_vars, NEW n \in Node
               PROVE  IsPrefix(table[n].ops, table'[n].ops)
    OBVIOUS
  <2> DEFINE s == table[n].ops
             t == table'[n].ops
  <2>1. s \in Seq(Entry) /\ Begins(s, t) BY OpsType, StepLed DEF Forward
  <2> HIDE DEF s, t
  <2>2. SubSeq(s, 1, Len(s)) = s BY <2>1, SubSeqFull
  <2>3. IsPrefix(s, t) BY <2>1, <2>2 DEF IsPrefix, Begins
  <2> QED BY <2>3 DEF s, t
<1> QED BY <1>1, AlwaysLed, PTL DEF LogsGrow, Spec

-----------------------------------------------------------------------------
(* What the abstract log sees of the nodes.                                *)
have == [n \in Node |-> table[n].latestSeq]
view == [n \in Node |-> View(table[n])]

(* Every node shows what the part of the log of the leader that it has     *)
(* says.                                                                   *)
LEMMA ViewsAreFaithful ==
  Deep /\ Typed /\ Led => Abstract!Faithful
<1> SUFFICES ASSUME Deep, Typed, Led PROVE Abstract!Faithful OBVIOUS
<1>1. ASSUME NEW n \in Node
      PROVE  View(table[n]) = Shown(SubSeq(table[First].ops, 1, table[n].latestSeq))
  <2>1. table[n] \in Good(TRUE) BY DEF Typed, Good, Follows, AlikeTables, Alike
  <2>2. View(Replayed(table[n].ops)) = View(table[n]) BY <2>1, GoodFollowsLog
  <2>3. table[n].ops = SubSeq(table[First].ops, 1, table[n].latestSeq)
    BY OpsType DEF Led, Begins
  <2> QED BY <2>2, <2>3, Zenon DEF Shown
<1>2. Abstract!Faithful <=>
        view = [n \in Node |-> Shown(SubSeq(table[First].ops, 1, have[n]))]
  BY DEF Abstract!Faithful, view, have
<1>3. view = [n \in Node |-> Shown(SubSeq(table[First].ops, 1, have[n]))]
  BY <1>1 DEF view, have
<1> QED BY <1>2, <1>3

(* The first state is one of the abstract log.                             *)
LEMMA InitRefines ==
  ASSUME Deep, Init PROVE Abstract!Init
<1>1. Abstract!Faithful BY InitTyped, InitLed, ViewsAreFaithful
<1>2. \A n \in Node : table[n].ops = <<>> /\ table[n].latestSeq = 0 BY DEF Init, NewTable
<1> QED BY <1>1, <1>2 DEF Abstract!Init

(* Every step is a step of the abstract log or leaves it alone.            *)
LEMMA StepRefines ==
  ASSUME Deep, OneLeader, Typed, Led, [Next]_vars
  PROVE  Abstract!Next \/ UNCHANGED <<table[First].ops, have, view>>
<1>1. Typed' /\ Led' /\ Moves BY StepTyped, StepLed
<1>2. Abstract!Faithful BY ViewsAreFaithful
<1>3. Abstract!Faithful' BY <1>1, ViewsAreFaithful, PTL
<1>4. /\ have = [n \in Node |-> Len(table[n].ops)]
      /\ have' = [n \in Node |-> Len(table'[n].ops)]
  BY <1>1 DEF have, Typed, Good, Numbered
<1>5. \A n \in Node : /\ table[n].ops \in Seq(Entry) /\ table'[n].ops \in Seq(Entry)
                    /\ Len(table[n].ops) \in Nat /\ Len(table'[n].ops) \in Nat
  <2>1. ASSUME NEW n \in Node PROVE table[n].ops \in Seq(Entry) /\ table'[n].ops \in Seq(Entry)
    BY <1>1 DEF Typed, Good, Tables, Shape
  <2>2. \A s \in Seq(Entry) : Len(s) \in Nat OBVIOUS
  <2> QED BY <2>1, <2>2
<1> DEFINE log == table[First].ops
<1>6. CASE \A n \in Node : Kept(n)
  <2>1. log' = log /\ have' = have BY <1>4, <1>6 DEF Kept
  <2>2. view' = view BY <1>2, <1>3, <2>1 DEF Abstract!Faithful, view, have
  <2> QED BY <2>1, <2>2
<1>7. ASSUME NEW op \in Entry, log' = Append(log, op), \A n \in Node \ {First} : Kept(n)
      PROVE  Abstract!Next
  <2>1. Len(log') = Len(log) + 1 BY <1>5, <1>7
  <2>2. SubSeq(log', 1, Len(log)) = log BY <1>5, <1>7
  <2>3. have' = [have EXCEPT ![First] = Len(log')] BY <1>4, <1>7 DEF Kept
  <2> QED BY <1>3, <2>1, <2>2, <2>3 DEF Abstract!Next, Abstract!Append1, have
<1>8. ASSUME NEW p \in Node \ {First}, Begins(table[p].ops, table'[p].ops),
             \A n \in Node \ {p} : Kept(n), ~Kept(p)
      PROVE  Abstract!Next
  <2> DEFINE k == Len(table'[p].ops)
  <2>1. log' = log BY <1>8 DEF Kept
  <2>2. k \in Nat /\ k <= Len(log) BY <1>1, <1>5, <1>8, <2>1 DEF Led, Begins
  <2>3. Len(table[p].ops) < k
    <3>1. Len(table[p].ops) <= k BY <1>8 DEF Begins
    <3>2. CASE Len(table[p].ops) = k
      <4>1. SubSeq(table'[p].ops, 1, k) = table'[p].ops BY <1>5, SubSeqFull
      <4>2. table[p].ops = table'[p].ops BY <1>8, <3>2, <4>1 DEF Begins
      <4> QED BY <1>8, <4>2 DEF Kept
    <3> QED BY <1>5, <3>1, <3>2
  <2> HIDE DEF k
  <2>4. k \in (have[p] + 1)..Len(log) BY <1>4, <1>5, <2>2, <2>3
  <2>5. have' = [have EXCEPT ![p] = k]
    <3>1. \A n \in Node : Len(table'[n].ops) = IF n = p THEN k ELSE Len(table[n].ops)
      BY <1>8 DEF Kept, k
    <3>2. have' = [n \in Node |-> IF n = p THEN k ELSE have[n]] BY <1>4, <3>1
    <3> QED BY <1>4, <3>2
  <2>6. Abstract!CatchUp(p) BY <1>3, <2>1, <2>4, <2>5 DEF Abstract!CatchUp, have
  <2> QED BY <2>6 DEF Abstract!Next
<1> QED BY <1>1, <1>6, <1>7, <1>8 DEF Moves

(* While one node leads and merges are deep, replication implements one    *)
(* abstract log: entries are written in one place and every node shows a   *)
(* beginning of it.                                                        *)
THEOREM ReplicationIsOneLog ==
  ASSUME Deep, OneLeader PROVE Spec => IsOneLog
<1>1. Init => Abstract!Init BY InitRefines
<1>2. Typed /\ Led /\ [Next]_vars => [Abstract!Next]_<<table[First].ops, have, view>>
  BY StepRefines
<1> QED BY <1>1, <1>2, AlwaysLed, PTL DEF Spec, IsOneLog, Abstract!Spec, have, view

=============================================================================
