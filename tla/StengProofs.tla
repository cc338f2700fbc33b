---------------------------- MODULE StengProofs -----------------------------
(* What TLAPS proves of one steng table, for every set of documents,       *)
(* blobs, contents and JSON values: that every operation leaves a table    *)
(* of the right shape, whose log numbers its entries 1, 2, ... and says    *)
(* what the table holds, and what becomes of a batch read from one such    *)
(* log and applied to another table.                                       *)
EXTENDS Steng, FiniteSetTheorems, SequenceTheorems, TLAPS

USE StengAssumption

(* What a table holds of a document.                                       *)
Doc == Value \cup {Absent, Dead}

(* An entry carries what its kind needs.                                   *)
EntryOk(e) ==
  CASE e.op_type \in {"ADD", "UPDATE", "REPLACE"} -> e.id \in DocId /\ e.payload \in Value
    [] e.op_type = "DELETE" -> e.id \in DocId
    [] e.op_type = "BLOB_ADD" -> e.id \in BlobId /\ e.payload \in Content
    [] e.op_type = "BLOB_DEL" -> e.id \in BlobId

(* The entries of a log.                                                   *)
Entry ==
  {e \in [op_seq : Nat, op_type : OpTypes, id : DocId \cup BlobId,
          payload : Value \cup Content \cup {Absent}] : EntryOk(e)}

KnownDocs(t) == {d \in DocId : t.docs[d] # Absent}
KnownBlobs(t) == {b \in BlobId : t.blobs[b] # Absent}

(* The fields of a table.                                                  *)
Shape ==
  [docs : [DocId -> Doc], blobs : [BlobId -> Content \cup {Absent}],
   ops : Seq(Entry), latestSeq : Nat, watermark : Nat]

(* A table knows finitely many ids, whatever the set of ids.               *)
Tables == {t \in Shape : IsFiniteSet(KnownDocs(t)) /\ IsFiniteSet(KnownBlobs(t))}

(* What the loop of apply_ops carries.                                     *)
State == [table : Tables, ok : BOOLEAN]

(* Either merge of JSON objects is a JSON object.                          *)
LEMMA MergeType ==
  ASSUME NEW v \in Value, NEW p \in Value, NEW kind
  PROVE  deepMerge(v, p) \in Value /\ Merge(kind, v, p) \in Value
<1>1. PICK S \in SUBSET Leaf : v \in [S -> Val] BY DEF Value
<1>2. PICK T \in SUBSET Leaf : p \in [T -> Val] BY DEF Value
<1>3. ASSUME NEW K \in SUBSET DOMAIN v PROVE Overlay(v, K, p) \in Value
  <2>1. Overlay(v, K, p) \in [K \cup T -> Val] BY <1>1, <1>2 DEF Overlay
  <2>2. K \cup T \in SUBSET Leaf BY <1>1
  <2> DEFINE S2 == K \cup T
  <2>3. Overlay(v, K, p) \in [S2 -> Val] /\ S2 \in SUBSET Leaf BY <2>1, <2>2
  <2> HIDE DEF S2
  <2> QED BY <2>3 DEF Value
<1>4. deepMerge(v, p) \in Value /\ shallowMerge(v, p) \in Value
  BY <1>3 DEF deepMerge, shallowMerge
<1> QED BY <1>4 DEF Merge

(* Writing a document or a tombstone leaves a table.                       *)
LEMMA WriteDocType ==
  ASSUME NEW t \in Tables, NEW d \in DocId, NEW v \in Doc
  PROVE  [t EXCEPT !.docs[d] = v] \in Tables
<1> DEFINE u == [t EXCEPT !.docs[d] = v]
<1>1. u \in Shape BY DEF Tables, Shape
<1>2. KnownDocs(u) \subseteq KnownDocs(t) \cup {d} BY DEF KnownDocs, Tables, Shape
<1>3. IsFiniteSet(KnownDocs(u))
  <2>1. IsFiniteSet(KnownDocs(t) \cup {d}) BY FS_AddElement DEF Tables
  <2> HIDE DEF u
  <2> QED BY <1>2, <2>1, FS_Subset
<1>4. KnownBlobs(u) = KnownBlobs(t) BY DEF KnownBlobs, Tables, Shape
<1> HIDE DEF u
<1> QED BY <1>1, <1>3, <1>4 DEF Tables, u

(* Writing or dropping a blob leaves a table.                              *)
LEMMA WriteBlobType ==
  ASSUME NEW t \in Tables, NEW b \in BlobId, NEW c \in Content \cup {Absent}
  PROVE  [t EXCEPT !.blobs[b] = c] \in Tables
<1> DEFINE u == [t EXCEPT !.blobs[b] = c]
<1>1. u \in Shape BY DEF Tables, Shape
<1>2. KnownBlobs(u) \subseteq KnownBlobs(t) \cup {b} BY DEF KnownBlobs, Tables, Shape
<1>3. IsFiniteSet(KnownBlobs(u))
  <2>1. IsFiniteSet(KnownBlobs(t) \cup {b}) BY FS_AddElement DEF Tables
  <2> HIDE DEF u
  <2> QED BY <1>2, <2>1, FS_Subset
<1>4. KnownDocs(u) = KnownDocs(t) BY DEF KnownDocs, Tables, Shape
<1> HIDE DEF u
<1> QED BY <1>1, <1>3, <1>4 DEF Tables, u

(* Changing the log leaves a table.                                        *)
LEMMA LogType ==
  ASSUME NEW t \in Tables, NEW ops \in Seq(Entry), NEW n \in Nat
  PROVE  [t EXCEPT !.latestSeq = n, !.ops = ops] \in Tables
<1> DEFINE u == [t EXCEPT !.latestSeq = n, !.ops = ops]
<1>1. u \in Shape BY DEF Tables, Shape
<1>2. KnownBlobs(u) = KnownBlobs(t) /\ KnownDocs(u) = KnownDocs(t)
  BY DEF KnownBlobs, KnownDocs, Tables, Shape
<1> QED BY <1>1, <1>2 DEF Tables

(* Changing the watermark leaves a table.                                  *)
LEMMA WatermarkType ==
  ASSUME NEW t \in Tables, NEW n \in Nat
  PROVE  [t EXCEPT !.watermark = n] \in Tables
<1> DEFINE u == [t EXCEPT !.watermark = n]
<1>1. u \in Shape BY DEF Tables, Shape
<1>2. KnownBlobs(u) = KnownBlobs(t) /\ KnownDocs(u) = KnownDocs(t)
  BY DEF KnownBlobs, KnownDocs, Tables, Shape
<1> QED BY <1>1, <1>2 DEF Tables

(* A new table is a table.                                                 *)
LEMMA NewTableType == NewTable \in Tables
<1>1. NewTable \in Shape BY DEF NewTable, Shape, Doc
<1>2. KnownDocs(NewTable) = {} /\ KnownBlobs(NewTable) = {}
  BY DEF KnownDocs, KnownBlobs, NewTable
<1> QED BY <1>1, <1>2, FS_EmptySet DEF Tables

(* The effect of an operation of another log is a table.                   *)
LEMMA EffectType ==
  ASSUME NEW t \in Tables, NEW op \in Entry,
         op.op_type = "UPDATE" => op.id \in Live(t)
  PROVE  Effect(t, op) \in Tables
<1>1. op.op_type \in OpTypes /\ EntryOk(op) BY DEF Entry
<1>2. CASE op.op_type \in {"ADD", "REPLACE"}
  <2>1. op.id \in DocId /\ op.payload \in Doc BY <1>1, <1>2 DEF EntryOk, Doc
  <2>2. Effect(t, op) = [t EXCEPT !.docs[op.id] = op.payload] BY <1>2 DEF Effect, writeDoc
  <2> QED BY <2>1, <2>2, WriteDocType
<1>3. CASE op.op_type = "UPDATE"
  <2>1. op.id \in DocId /\ op.payload \in Value BY <1>1, <1>3 DEF EntryOk
  <2>2. t.docs[op.id] \in Value BY <1>3, <2>1 DEF Live, Tables, Shape, Doc
  <2>3. deepMerge(t.docs[op.id], op.payload) \in Doc BY <2>1, <2>2, MergeType DEF Doc
  <2>4. Effect(t, op) = [t EXCEPT !.docs[op.id] = deepMerge(t.docs[op.id], op.payload)]
    BY <1>3 DEF Effect, writeDoc
  <2> QED BY <2>1, <2>3, <2>4, WriteDocType
<1>4. CASE op.op_type = "DELETE"
  <2>1. op.id \in DocId /\ Dead \in Doc BY <1>1, <1>4 DEF EntryOk, Doc
  <2>2. Effect(t, op) = [t EXCEPT !.docs[op.id] = Dead] BY <1>4 DEF Effect, writeTombstone
  <2> QED BY <2>1, <2>2, WriteDocType
<1>5. CASE op.op_type = "BLOB_ADD"
  <2>1. op.id \in BlobId /\ op.payload \in Content BY <1>1, <1>5 DEF EntryOk
  <2>2. Effect(t, op) = [t EXCEPT !.blobs[op.id] = op.payload] BY <1>5 DEF Effect
  <2> QED BY <2>1, <2>2, WriteBlobType
<1>6. CASE op.op_type = "BLOB_DEL"
  <2>1. op.id \in BlobId BY <1>1, <1>6 DEF EntryOk
  <2>2. Effect(t, op) = [t EXCEPT !.blobs[op.id] = Absent] BY <1>6 DEF Effect
  <2> QED BY <2>1, <2>2, WriteBlobType
<1> QED BY <1>1, <1>2, <1>3, <1>4, <1>5, <1>6 DEF OpTypes

-----------------------------------------------------------------------------
Apply == INSTANCE FoldProofs WITH Op <- ApplyOne

Start(t) == [table |-> t, ok |-> TRUE]

(* The loop of apply_ops is a fold of its turns.                           *)
LEMMA ApplyIsFold ==
  ASSUME NEW t, NEW ops PROVE apply_ops(t, ops) = Apply!Fold(Start(t), ops)
BY DEF apply_ops, Start, FoldLeft, MapThenFoldSet, Max,
       Apply!Fold, Apply!FoldLeft, Apply!MapThenFoldSet, Apply!Max

(* Applying no operation changes nothing.                                  *)
LEMMA ApplyNothing ==
  ASSUME NEW t PROVE apply_ops(t, <<>>) = Start(t)
BY ApplyIsFold, Apply!FoldEmpty

(* Applying one operation more is one more turn of the loop.               *)
LEMMA ApplyAppend ==
  ASSUME NEW t, NEW ops \in Seq(Entry), NEW op \in Entry
  PROVE  apply_ops(t, Append(ops, op)) = ApplyOne(apply_ops(t, ops), op)
<1>1. Apply!Fold(Start(t), Append(ops, op)) = ApplyOne(Apply!Fold(Start(t), ops), op)
  BY Apply!FoldAppend
<1> QED BY <1>1, ApplyIsFold

(* What every turn of apply_ops keeps holds when it returns.               *)
LEMMA ApplyInvariant ==
  ASSUME NEW t, NEW ops \in Seq(Entry), NEW I, Start(t) \in I,
         \A s \in I : \A i \in 1..Len(ops) : ApplyOne(s, ops[i]) \in I
  PROVE  apply_ops(t, ops) \in I
<1>1. Apply!Fold(Start(t), ops) \in I
  BY Apply!FoldInvariant
<1> QED BY <1>1, ApplyIsFold

(* The tables apply_ops goes through, one for each turn.                   *)
LEMMA ApplyTrace ==
  ASSUME NEW t, NEW ops \in Seq(Entry)
  PROVE  \E f : /\ f[0] = Start(t)
                /\ \A i \in Nat : i < Len(ops) => f[i + 1] = ApplyOne(f[i], ops[i + 1])
                /\ apply_ops(t, ops) = f[Len(ops)]
<1>1. \E f : /\ f[0] = Start(t)
             /\ \A i \in Nat : i < Len(ops) => f[i + 1] = ApplyOne(f[i], ops[i + 1])
             /\ Apply!Fold(Start(t), ops) = f[Len(ops)]
  BY Apply!FoldTrace
<1> QED BY <1>1, ApplyIsFold

(* A turn of apply_ops leaves a table.                                     *)
LEMMA ApplyOneType ==
  ASSUME NEW s \in State, NEW op \in Entry
  PROVE  ApplyOne(s, op) \in State
<1>1. s.table \in Tables /\ s.ok \in BOOLEAN /\ s = [table |-> s.table, ok |-> s.ok]
  BY DEF State
<1>2. CASE ~s.ok \/ op.op_seq <= s.table.latestSeq
  BY <1>2 DEF ApplyOne
<1>3. CASE s.ok /\ ~(op.op_seq <= s.table.latestSeq) /\ Refused(s.table, op)
  BY <1>3, <1>1 DEF ApplyOne, State
<1>4. CASE s.ok /\ ~(op.op_seq <= s.table.latestSeq) /\ ~Refused(s.table, op)
  <2> DEFINE e == Effect(s.table, op)
             u == Recorded(e, op)
  <2>1. e \in Tables BY <1>1, <1>4, EffectType DEF Refused
  <2>2. op.op_seq \in Nat BY DEF Entry
  <2>3. e.ops \in Seq(Entry) BY <2>1 DEF Tables, Shape
  <2>4. u = [e EXCEPT !.latestSeq = op.op_seq, !.ops = Append(e.ops, op)]
    BY DEF Recorded
  <2>5. u \in Tables
    <3> HIDE DEF e, u
    <3>1. Append(e.ops, op) \in Seq(Entry) BY <2>3
    <3> QED BY <2>1, <2>2, <2>4, <3>1, LogType
  <2>6. ApplyOne(s, op) = [table |-> u, ok |-> s.ok]
    BY <1>1, <1>4 DEF ApplyOne
  <2> HIDE DEF u
  <2> QED BY <1>1, <2>5, <2>6 DEF State
<1> QED BY <1>2, <1>3, <1>4

(* apply_ops leaves a table.                                               *)
LEMMA ApplyType ==
  ASSUME NEW t \in Tables, NEW ops \in Seq(Entry)
  PROVE  apply_ops(t, ops) \in State
<1>1. Start(t) \in State BY DEF Start, State
<1>2. \A s \in State : \A i \in 1..Len(ops) : ApplyOne(s, ops[i]) \in State
  BY ApplyOneType
<1> QED BY <1>1, <1>2, ApplyInvariant

-----------------------------------------------------------------------------
(* What the loop makes of a whole log, from a new table.                   *)
Replay(ops) == apply_ops(NewTable, ops)

(* Documents alike up to the content of live ones, and equal if deep. A    *)
(* shallow merge is logged as its patch alone, so that the log fixes       *)
(* which documents live and not what they hold.                            *)
Alike(deep, a, b) == a = b \/ (~deep /\ a \in Value /\ b \in Value)

AlikeTables(deep, t, u) ==
  /\ t.blobs = u.blobs
  /\ \A d \in DocId : Alike(deep, t.docs[d], u.docs[d])

(* The log numbers its entries 1, 2, ... and latestSeq is the last.        *)
Numbered(t) ==
  /\ t.latestSeq = Len(t.ops)
  /\ \A i \in DOMAIN t.ops : t.ops[i].op_seq = i

(* The log and each beginning of it replay without a refusal, and what     *)
(* they give is what the table holds.                                      *)
Follows(deep, t) ==
  /\ \A m \in 0..Len(t.ops) : Replay(SubSeq(t.ops, 1, m)).ok
  /\ Replay(t.ops).table.ops = t.ops
  /\ Replay(t.ops).table.latestSeq = t.latestSeq
  /\ AlikeTables(deep, Replay(t.ops).table, t)

(* The inductive invariant of a table.                                     *)
Good(deep) == {t \in Tables : Numbered(t) /\ Follows(deep, t)}

(* A log replays to a table.                                               *)
LEMMA ReplayType ==
  ASSUME NEW ops \in Seq(Entry)
  PROVE  Replay(ops) \in State /\ Replay(ops).table \in Tables
BY ApplyType, NewTableType DEF Replay, State

(* Tables that are alike have the same live documents.                     *)
LEMMA AlikeLive ==
  ASSUME NEW deep, NEW t \in Tables, NEW u \in Tables, AlikeTables(deep, t, u)
  PROVE  Live(t) = Live(u)
BY DEF AlikeTables, Alike, Live

(* An operation has the same effect on tables that are alike.              *)
LEMMA EffectAlike ==
  ASSUME NEW deep, NEW t \in Tables, NEW u \in Tables, AlikeTables(deep, t, u),
         NEW op \in Entry, op.op_type = "UPDATE" => op.id \in Live(t)
  PROVE  AlikeTables(deep, Effect(t, op), Effect(u, op))
<1>1. op.op_type \in OpTypes /\ EntryOk(op) BY DEF Entry
<1>2. CASE op.op_type \in {"ADD", "REPLACE"}
  <2>1. /\ Effect(t, op) = [t EXCEPT !.docs[op.id] = op.payload]
        /\ Effect(u, op) = [u EXCEPT !.docs[op.id] = op.payload]
    BY <1>2 DEF Effect, writeDoc
  <2> QED BY <2>1 DEF AlikeTables, Alike, Tables, Shape
<1>3. CASE op.op_type = "UPDATE"
  <2>1. op.id \in DocId /\ op.payload \in Value BY <1>1, <1>3 DEF EntryOk
  <2>2. op.id \in Live(u) BY <1>3, AlikeLive
  <2>3. t.docs[op.id] \in Value /\ u.docs[op.id] \in Value
    BY <1>3, <2>1, <2>2 DEF Live, Tables, Shape, Doc
  <2> DEFINE a == deepMerge(t.docs[op.id], op.payload)
             b == deepMerge(u.docs[op.id], op.payload)
  <2>4. a \in Value /\ b \in Value BY <2>1, <2>3, MergeType
  <2>5. Alike(deep, t.docs[op.id], u.docs[op.id]) BY <2>1 DEF AlikeTables
  <2>6. Alike(deep, a, b) BY <2>4, <2>5 DEF Alike
  <2>7. /\ Effect(t, op) = [t EXCEPT !.docs[op.id] = a]
        /\ Effect(u, op) = [u EXCEPT !.docs[op.id] = b]
    BY <1>3 DEF Effect, writeDoc
  <2> HIDE DEF a, b
  <2> QED BY <2>6, <2>7 DEF AlikeTables, Tables, Shape
<1>4. CASE op.op_type = "DELETE"
  <2>1. /\ Effect(t, op) = [t EXCEPT !.docs[op.id] = Dead]
        /\ Effect(u, op) = [u EXCEPT !.docs[op.id] = Dead]
    BY <1>4 DEF Effect, writeTombstone
  <2> QED BY <2>1 DEF AlikeTables, Alike, Tables, Shape
<1>5. CASE op.op_type = "BLOB_ADD"
  <2>1. /\ Effect(t, op) = [t EXCEPT !.blobs[op.id] = op.payload]
        /\ Effect(u, op) = [u EXCEPT !.blobs[op.id] = op.payload]
    BY <1>5 DEF Effect
  <2> QED BY <2>1 DEF AlikeTables, Alike, Tables, Shape
<1>6. CASE op.op_type = "BLOB_DEL"
  <2>1. /\ Effect(t, op) = [t EXCEPT !.blobs[op.id] = Absent]
        /\ Effect(u, op) = [u EXCEPT !.blobs[op.id] = Absent]
    BY <1>6 DEF Effect
  <2> QED BY <2>1 DEF AlikeTables, Alike, Tables, Shape
<1> QED BY <1>1, <1>2, <1>3, <1>4, <1>5, <1>6 DEF OpTypes

(* An effect touches neither the log nor the watermark.                    *)
LEMMA EffectKeepsLog ==
  ASSUME NEW t \in Tables, NEW op \in Entry
  PROVE  /\ Effect(t, op).ops = t.ops
         /\ Effect(t, op).latestSeq = t.latestSeq
         /\ Effect(t, op).watermark = t.watermark
<1>1. op.op_type \in OpTypes BY DEF Entry
<1> QED BY <1>1 DEF OpTypes, Effect, writeDoc, writeTombstone, Tables, Shape

(* Alike is transitive.                                                    *)
LEMMA AlikeTransitive ==
  ASSUME NEW deep, NEW a, NEW b, NEW c,
         AlikeTables(deep, a, b), AlikeTables(deep, b, c)
  PROVE  AlikeTables(deep, a, c)
BY DEF AlikeTables, Alike

(* A table whose log grows by one entry, the next in number and never an   *)
(* update of a document that is not there, and whose content changes by    *)
(* the effect of that entry, still follows its log.                        *)
LEMMA Extend ==
  ASSUME NEW deep, NEW t \in Good(deep), NEW op \in Entry,
         op.op_seq = t.latestSeq + 1,
         op.op_type = "UPDATE" => op.id \in Live(t),
         NEW u \in Tables, u.ops = Append(t.ops, op), u.latestSeq = t.latestSeq + 1,
         AlikeTables(deep, Effect(t, op), u)
  PROVE  u \in Good(deep)
<1>1. t \in Tables /\ Numbered(t) /\ Follows(deep, t) BY DEF Good
<1>2. t.ops \in Seq(Entry) /\ t.latestSeq \in Nat BY <1>1 DEF Tables, Shape
<1>3. Numbered(u) BY <1>1, <1>2 DEF Numbered
<1> DEFINE s == Replay(t.ops)
           r == s.table
<1>4. s \in State /\ r \in Tables BY <1>2, ReplayType
<1>5. s.ok
  <2>1. SubSeq(t.ops, 1, Len(t.ops)) = t.ops /\ Len(t.ops) \in 0..Len(t.ops) BY <1>2
  <2> QED BY <1>1, <2>1 DEF Follows
<1>6. r.latestSeq = t.latestSeq /\ r.ops = t.ops /\ AlikeTables(deep, r, t)
  BY <1>1 DEF Follows
<1>7. op.op_type = "UPDATE" => op.id \in Live(r) BY <1>1, <1>4, <1>6, AlikeLive
<1>8. Replay(u.ops) = ApplyOne(s, op) BY <1>2, ApplyAppend DEF Replay
<1> DEFINE e == Effect(r, op)
<1>9. e \in Tables BY <1>4, <1>7, EffectType
<1>10. ApplyOne(s, op) = [s EXCEPT !.table = Recorded(e, op)]
  BY <1>2, <1>5, <1>6, <1>7 DEF ApplyOne, Refused
<1>11. e.ops = t.ops BY <1>4, <1>6, EffectKeepsLog
<1>12. /\ Replay(u.ops).ok
       /\ Replay(u.ops).table.ops = u.ops
       /\ Replay(u.ops).table.latestSeq = u.latestSeq
       /\ Replay(u.ops).table.blobs = e.blobs
       /\ Replay(u.ops).table.docs = e.docs
  <2> DEFINE f == Recorded(e, op)
  <2>1. f = [e EXCEPT !.latestSeq = op.op_seq, !.ops = Append(e.ops, op)] BY DEF Recorded
  <2>2. Replay(u.ops) = [s EXCEPT !.table = f] BY <1>8, <1>10
  <2> HIDE DEF s, r, e, f
  <2>3. s = [table |-> s.table, ok |-> s.ok] BY <1>4 DEF State
  <2>4. Replay(u.ops) = [table |-> f, ok |-> s.ok] BY <2>2, <2>3
  <2>5. /\ f.ops = Append(e.ops, op) /\ f.latestSeq = op.op_seq
        /\ f.blobs = e.blobs /\ f.docs = e.docs
    BY <2>1, <1>9 DEF Tables, Shape
  <2> QED BY <1>5, <1>11, <2>4, <2>5
<1>13. AlikeTables(deep, e, Effect(t, op))
  BY <1>1, <1>4, <1>6, <1>7, EffectAlike
<1>14. AlikeTables(deep, Replay(u.ops).table, u)
  <2>1. AlikeTables(deep, e, u) BY <1>13, AlikeTransitive
  <2> QED BY <1>12, <2>1 DEF AlikeTables
<1>15. ASSUME NEW m \in 0..Len(u.ops) PROVE Replay(SubSeq(u.ops, 1, m)).ok
  <2>1. CASE m <= Len(t.ops)
    <3>1. SubSeq(u.ops, 1, m) = SubSeq(t.ops, 1, m) BY <1>2, <2>1
    <3>2. m \in 0..Len(t.ops) BY <1>2, <2>1
    <3> QED BY <1>1, <3>1, <3>2 DEF Follows
  <2>2. CASE m = Len(u.ops)
    <3>1. SubSeq(u.ops, 1, m) = u.ops BY <1>2, <2>2
    <3> QED BY <1>12, <3>1
  <2>3. m <= Len(t.ops) \/ m = Len(u.ops) BY <1>2
  <2> QED BY <2>1, <2>2, <2>3
<1>16. Follows(deep, u)
  <2> HIDE DEF s, r, e
  <2> QED BY <1>12, <1>14, <1>15 DEF Follows
<1> QED BY <1>3, <1>16 DEF Good

(* A new table follows its empty log.                                      *)
LEMMA NewTableGood ==
  ASSUME NEW deep PROVE NewTable \in Good(deep) /\ NewTable.ops = <<>>
<1>1. NewTable.ops = <<>> /\ NewTable.latestSeq = 0 BY DEF NewTable
<1>2. Replay(<<>>) = [table |-> NewTable, ok |-> TRUE] BY ApplyNothing DEF Replay, Start
<1>3. \A m \in 0..0 : SubSeq(<<>>, 1, m) = <<>> OBVIOUS
<1>4. Numbered(NewTable) BY <1>1 DEF Numbered
<1>5. Follows(deep, NewTable)
  <2>1. Replay(NewTable.ops).table = NewTable /\ Replay(NewTable.ops).ok BY <1>1, <1>2
  <2>2. ASSUME NEW m \in 0..Len(NewTable.ops) PROVE Replay(SubSeq(NewTable.ops, 1, m)).ok
    <3>1. m \in 0..0 BY <1>1
    <3>2. SubSeq(NewTable.ops, 1, m) = NewTable.ops BY <1>1, <1>3, <3>1
    <3> QED BY <2>1, <3>2
  <2>3. AlikeTables(deep, NewTable, NewTable) BY DEF AlikeTables, Alike
  <2> QED BY <2>1, <2>2, <2>3 DEF Follows
<1> QED BY <1>1, <1>4, <1>5, NewTableType DEF Good

(* A watermark changes neither the log nor what readers see.               *)
LEMMA WatermarkGood ==
  ASSUME NEW deep, NEW t \in Good(deep), NEW n \in Nat
  PROVE  /\ [t EXCEPT !.watermark = n] \in Good(deep)
         /\ [t EXCEPT !.watermark = n].ops = t.ops
         /\ View([t EXCEPT !.watermark = n]) = View(t)
<1> DEFINE u == [t EXCEPT !.watermark = n]
<1>1. t \in Tables BY DEF Good
<1>2. u \in Tables BY <1>1, WatermarkType
<1>3. /\ u.ops = t.ops /\ u.latestSeq = t.latestSeq
      /\ u.docs = t.docs /\ u.blobs = t.blobs
  BY <1>1 DEF Tables, Shape
<1> HIDE DEF u
<1>4. Numbered(u) BY <1>3 DEF Numbered, Good
<1>5. Follows(deep, u) BY <1>3 DEF Follows, AlikeTables, Good
<1>6. View(u) = View(t) BY <1>3 DEF View, Live
<1> QED BY <1>2, <1>3, <1>4, <1>5, <1>6 DEF Good, u

(* Whoever writes the effect of an entry and then logs it keeps a table    *)
(* good: the order of the code, writeDoc before appendOp.                  *)
LEMMA WriteGood ==
  ASSUME NEW deep, NEW t \in Good(deep),
         NEW x \in Tables, x.ops = t.ops, x.latestSeq = t.latestSeq,
         NEW op \in Entry, op.op_seq = t.latestSeq + 1,
         op.op_type = "UPDATE" => op.id \in Live(t),
         AlikeTables(deep, Effect(t, op), x)
  PROVE  /\ Recorded(x, op) \in Good(deep)
         /\ Recorded(x, op).ops = Append(t.ops, op)
<1> DEFINE u == Recorded(x, op)
<1>1. t \in Tables /\ t.ops \in Seq(Entry) /\ t.latestSeq \in Nat
  BY DEF Good, Tables, Shape
<1>2. u = [x EXCEPT !.latestSeq = op.op_seq, !.ops = Append(x.ops, op)] BY DEF Recorded
<1> HIDE DEF u
<1>3. u \in Tables
  <2>1. Append(x.ops, op) \in Seq(Entry) /\ op.op_seq \in Nat BY <1>1
  <2> QED BY <1>2, <2>1, LogType
<1>4. /\ u.ops = Append(t.ops, op) /\ u.latestSeq = t.latestSeq + 1
      /\ u.docs = x.docs /\ u.blobs = x.blobs
  BY <1>2 DEF Tables, Shape
<1>5. AlikeTables(deep, Effect(t, op), u) BY <1>4 DEF AlikeTables
<1>6. u \in Good(deep) BY <1>3, <1>4, <1>5, Extend
<1> QED BY <1>4, <1>6 DEF u

(* A step of a table that appends one entry to its log.                    *)
Wrote(deep, t, u) ==
  u \in Good(deep) /\ \E op \in Entry : u.ops = Append(t.ops, op)

(* A local operation that logs what it did keeps a table good.             *)
LEMMA AppendOpGood ==
  ASSUME NEW deep, NEW t \in Good(deep),
         NEW x \in Tables, x.ops = t.ops, x.latestSeq = t.latestSeq,
         NEW type \in OpTypes, NEW id \in DocId \cup BlobId,
         NEW payload \in Value \cup Content \cup {Absent},
         CASE type \in {"ADD", "UPDATE", "REPLACE"} -> id \in DocId /\ payload \in Value
           [] type = "DELETE" -> id \in DocId
           [] type = "BLOB_ADD" -> id \in BlobId /\ payload \in Content
           [] type = "BLOB_DEL" -> id \in BlobId,
         type = "UPDATE" => id \in Live(t),
         \A op : op.op_type = type /\ op.id = id /\ op.payload = payload
                   => AlikeTables(deep, Effect(t, op), x)
  PROVE  Wrote(deep, t, appendOp(x, type, id, payload))
<1> DEFINE op == [op_seq |-> x.latestSeq + 1, op_type |-> type,
                  id |-> id, payload |-> payload]
<1>1. t.latestSeq \in Nat BY DEF Good, Tables, Shape
<1>2. /\ op.op_seq = t.latestSeq + 1 /\ op.op_type = type /\ op.id = id
      /\ op.payload = payload
      /\ op \in [op_seq : Nat, op_type : OpTypes, id : DocId \cup BlobId,
                 payload : Value \cup Content \cup {Absent}]
  BY <1>1
<1>3. appendOp(x, type, id, payload) = Recorded(x, op) BY DEF appendOp
<1> HIDE DEF op
<1>4. EntryOk(op) BY <1>2 DEF EntryOk
<1>5. op \in Entry BY <1>2, <1>4 DEF Entry
<1>6. AlikeTables(deep, Effect(t, op), x) BY <1>2
<1>7. Recorded(x, op) \in Good(deep) /\ Recorded(x, op).ops = Append(t.ops, op)
  BY <1>2, <1>5, <1>6, WriteGood
<1> QED BY <1>3, <1>5, <1>7 DEF Wrote

(* Adding and replacing a document.                                        *)
LEMMA AddGood ==
  ASSUME NEW deep, NEW t \in Good(deep), NEW d \in DocId, NEW v \in Value
  PROVE  Wrote(deep, t, add_objs(t, d, v)) /\ Wrote(deep, t, replace_objs(t, d, v))
<1> DEFINE x == [t EXCEPT !.docs[d] = v]
<1>1. t \in Tables BY DEF Good
<1>2. x \in Tables BY <1>1, WriteDocType DEF Doc
<1>3. x.ops = t.ops /\ x.latestSeq = t.latestSeq BY <1>1 DEF Tables, Shape
<1>4. \A op : op.op_type \in {"ADD", "REPLACE"} /\ op.id = d /\ op.payload = v
               => Effect(t, op) = x
  BY DEF Effect, writeDoc
<1>5. AlikeTables(deep, x, x) BY DEF AlikeTables, Alike
<1>6. /\ add_objs(t, d, v) = appendOp(x, "ADD", d, v)
      /\ replace_objs(t, d, v) = appendOp(x, "REPLACE", d, v)
  BY DEF add_objs, replace_objs, writeDoc
<1> HIDE DEF x
<1>7. Wrote(deep, t, appendOp(x, "ADD", d, v)) /\ Wrote(deep, t, appendOp(x, "REPLACE", d, v))
  <2>1. \A op : op.op_type = "ADD" /\ op.id = d /\ op.payload = v
                 => AlikeTables(deep, Effect(t, op), x)
    BY <1>4, <1>5
  <2>2. \A op : op.op_type = "REPLACE" /\ op.id = d /\ op.payload = v
                 => AlikeTables(deep, Effect(t, op), x)
    BY <1>4, <1>5
  <2>3. Wrote(deep, t, appendOp(x, "ADD", d, v))
    BY <1>2, <1>3, <2>1, AppendOpGood DEF OpTypes
  <2>4. Wrote(deep, t, appendOp(x, "REPLACE", d, v))
    BY <1>2, <1>3, <2>2, AppendOpGood DEF OpTypes
  <2> QED BY <2>3, <2>4
<1> QED BY <1>6, <1>7

(* Merging a patch into a live document: with deep merges alone if the     *)
(* documents are to be what the log says.                                  *)
LEMMA UpdateGood ==
  ASSUME NEW deep, NEW t \in Good(deep), NEW d \in Live(t), NEW p \in Value,
         NEW kind, deep => kind = "deep"
  PROVE  Wrote(deep, t, update_objs(t, d, p, kind))
<1>1. t \in Tables BY DEF Good
<1>2. d \in DocId /\ t.docs[d] \in Value BY <1>1 DEF Live, Tables, Shape, Doc
<1> DEFINE a == Merge(kind, t.docs[d], p)
           b == deepMerge(t.docs[d], p)
           x == [t EXCEPT !.docs[d] = a]
<1>3. a \in Value /\ b \in Value BY <1>2, MergeType
<1>4. deep => a = b BY DEF Merge
<1>5. update_objs(t, d, p, kind) = appendOp(x, "UPDATE", d, p)
  BY DEF update_objs, writeDoc
<1>6. \A op : op.op_type = "UPDATE" /\ op.id = d /\ op.payload = p
               => Effect(t, op) = [t EXCEPT !.docs[d] = b]
  BY DEF Effect, writeDoc
<1> HIDE DEF a, b
<1>7. x \in Tables BY <1>1, <1>2, <1>3, WriteDocType DEF Doc
<1>8. x.ops = t.ops /\ x.latestSeq = t.latestSeq BY <1>1 DEF Tables, Shape
<1>9. AlikeTables(deep, [t EXCEPT !.docs[d] = b], x)
  BY <1>1, <1>2, <1>3, <1>4 DEF AlikeTables, Alike, Tables, Shape
<1> HIDE DEF x
<1>10. \A op : op.op_type = "UPDATE" /\ op.id = d /\ op.payload = p
                => AlikeTables(deep, Effect(t, op), x)
  BY <1>6, <1>9
<1> QED BY <1>2, <1>5, <1>7, <1>8, <1>10, AppendOpGood DEF OpTypes

(* Deleting a document, there or not.                                      *)
LEMMA DeleteGood ==
  ASSUME NEW deep, NEW t \in Good(deep), NEW d \in DocId
  PROVE  Wrote(deep, t, delete_objs(t, d))
<1> DEFINE x == [t EXCEPT !.docs[d] = Dead]
<1>1. t \in Tables BY DEF Good
<1>2. x \in Tables BY <1>1, WriteDocType DEF Doc
<1>3. x.ops = t.ops /\ x.latestSeq = t.latestSeq BY <1>1 DEF Tables, Shape
<1>4. \A op : op.op_type = "DELETE" /\ op.id = d => Effect(t, op) = x
  BY DEF Effect, writeTombstone
<1>5. AlikeTables(deep, x, x) BY DEF AlikeTables, Alike
<1>6. delete_objs(t, d) = appendOp(x, "DELETE", d, Absent)
  BY DEF delete_objs, writeTombstone
<1> HIDE DEF x
<1>7. \A op : op.op_type = "DELETE" /\ op.id = d /\ op.payload = Absent
               => AlikeTables(deep, Effect(t, op), x)
  BY <1>4, <1>5
<1> QED BY <1>2, <1>3, <1>6, <1>7, AppendOpGood DEF OpTypes

(* Adding and deleting a blob.                                             *)
LEMMA BlobGood ==
  ASSUME NEW deep, NEW t \in Good(deep), NEW b \in BlobId
  PROVE  /\ \A c \in Content : Wrote(deep, t, add_blob(t, b, c))
         /\ Wrote(deep, t, delete_blobs(t, b))
<1>1. t \in Tables BY DEF Good
<1>2. ASSUME NEW c \in Content PROVE Wrote(deep, t, add_blob(t, b, c))
  <2> DEFINE x == [t EXCEPT !.blobs[b] = c]
  <2>1. x \in Tables BY <1>1, WriteBlobType
  <2>2. x.ops = t.ops /\ x.latestSeq = t.latestSeq BY <1>1 DEF Tables, Shape
  <2>3. \A op : op.op_type = "BLOB_ADD" /\ op.id = b /\ op.payload = c
                 => Effect(t, op) = x
    BY DEF Effect
  <2>4. AlikeTables(deep, x, x) BY DEF AlikeTables, Alike
  <2>5. add_blob(t, b, c) = appendOp(x, "BLOB_ADD", b, c) BY DEF add_blob
  <2> HIDE DEF x
  <2>6. \A op : op.op_type = "BLOB_ADD" /\ op.id = b /\ op.payload = c
                 => AlikeTables(deep, Effect(t, op), x)
    BY <2>3, <2>4
  <2> QED BY <2>1, <2>2, <2>5, <2>6, AppendOpGood DEF OpTypes
<1>3. Wrote(deep, t, delete_blobs(t, b))
  <2> DEFINE x == [t EXCEPT !.blobs[b] = Absent]
  <2>1. x \in Tables BY <1>1, WriteBlobType
  <2>2. x.ops = t.ops /\ x.latestSeq = t.latestSeq BY <1>1 DEF Tables, Shape
  <2>3. \A op : op.op_type = "BLOB_DEL" /\ op.id = b => Effect(t, op) = x
    BY DEF Effect
  <2>4. AlikeTables(deep, x, x) BY DEF AlikeTables, Alike
  <2>5. delete_blobs(t, b) = appendOp(x, "BLOB_DEL", b, Absent) BY DEF delete_blobs
  <2> HIDE DEF x
  <2>6. \A op : op.op_type = "BLOB_DEL" /\ op.id = b /\ op.payload = Absent
                 => AlikeTables(deep, Effect(t, op), x)
    BY <2>3, <2>4
  <2> QED BY <2>1, <2>2, <2>5, <2>6, AppendOpGood DEF OpTypes
<1> QED BY <1>2, <1>3

(* Importing the row of a document or of a tombstone.                      *)
LEMMA ImportDocGood ==
  ASSUME NEW deep, NEW t \in Good(deep), NEW d \in DocId, NEW row \in Value \cup {Dead}
  PROVE  Wrote(deep, t, importSnapshotDoc(t, d, row))
BY AddGood, DeleteGood DEF importSnapshotDoc

(* A turn of apply_ops keeps a table good, whatever the operation: it is   *)
(* skipped, refused, or applied and logged.                                *)
LEMMA ApplyOneGood ==
  ASSUME NEW deep, NEW s \in State, s.table \in Good(deep), NEW op \in Entry
  PROVE  /\ ApplyOne(s, op) \in State
         /\ ApplyOne(s, op).table \in Good(deep)
<1>1. s.table \in Tables /\ s = [table |-> s.table, ok |-> s.ok] BY DEF State
<1>2. CASE ~s.ok \/ op.op_seq <= s.table.latestSeq \/ Refused(s.table, op)
  <2>1. ApplyOne(s, op) = s \/ ApplyOne(s, op) = [s EXCEPT !.ok = FALSE]
    BY <1>2 DEF ApplyOne
  <2>2. ApplyOne(s, op).table = s.table BY <1>1, <2>1
  <2> QED BY <2>2, ApplyOneType
<1>3. CASE s.ok /\ ~(op.op_seq <= s.table.latestSeq) /\ ~Refused(s.table, op)
  <2> DEFINE x == Effect(s.table, op)
             u == Recorded(x, op)
  <2>1. ApplyOne(s, op) = [s EXCEPT !.table = u] BY <1>3 DEF ApplyOne
  <2>2. /\ op.op_seq = s.table.latestSeq + 1
        /\ op.op_type = "UPDATE" => op.id \in Live(s.table)
    BY <1>3 DEF Refused
  <2>3. x \in Tables BY <1>1, <2>2, EffectType
  <2>4. x.ops = s.table.ops /\ x.latestSeq = s.table.latestSeq BY <1>1, EffectKeepsLog
  <2>5. AlikeTables(deep, x, x) BY DEF AlikeTables, Alike
  <2>6. u \in Good(deep)
    <3> HIDE DEF u
    <3> QED BY <2>2, <2>3, <2>4, <2>5, WriteGood DEF u
  <2>7. ApplyOne(s, op).table = u
    <3> HIDE DEF u
    <3> QED BY <1>1, <2>1
  <2> QED BY <2>6, <2>7, ApplyOneType
<1> QED BY <1>2, <1>3

(* apply_ops keeps a table good, whatever the batch: a batch that is       *)
(* refused half way leaves a table that still follows its log.             *)
LEMMA ApplyGood ==
  ASSUME NEW deep, NEW t \in Good(deep), NEW ops \in Seq(Entry)
  PROVE  /\ apply_ops(t, ops) \in State
         /\ apply_ops(t, ops).table \in Good(deep)
<1> DEFINE I == {s \in State : s.table \in Good(deep)}
<1>1. Start(t) \in I BY DEF Start, State, Good
<1>2. \A s \in I : \A i \in 1..Len(ops) : ApplyOne(s, ops[i]) \in I
  BY ApplyOneGood
<1>3. apply_ops(t, ops) \in I
  <2> HIDE DEF I
  <2> QED BY <1>1, <1>2, ApplyInvariant
<1> QED BY <1>3

-----------------------------------------------------------------------------
Reading == INSTANCE FoldProofs WITH Op <- Take

Request(after, limit) == [after |-> after, limit |-> limit, kept |-> <<>>]

(* The loop of read_ops_since is a fold of its turns.                      *)
LEMMA ReadIsFold ==
  ASSUME NEW t, NEW after, NEW limit
  PROVE  read_ops_since(t, after, limit) = Reading!Fold(Request(after, limit), t.ops).kept
BY DEF read_ops_since, Request, FoldLeft, MapThenFoldSet, Max,
       Reading!Fold, Reading!FoldLeft, Reading!MapThenFoldSet, Reading!Max

(* The elements of a part of a sequence.                                   *)
LEMMA SubSeqIs ==
  ASSUME NEW S, NEW s \in Seq(S), NEW m \in Nat, NEW k \in Nat, m >= 1,
         m <= k + 1, k <= Len(s)
  PROVE  /\ SubSeq(s, m, k) \in Seq(S)
         /\ Len(SubSeq(s, m, k)) = k + 1 - m
         /\ \A i \in 1..(k + 1 - m) : SubSeq(s, m, k)[i] = s[m + i - 1]
OBVIOUS

(* How long the part of a sequence after a and up to b is.                 *)
LEMMA PartLen ==
  ASSUME NEW S, NEW s \in Seq(S), NEW a \in Nat, NEW b \in Nat, a <= b, b <= Len(s)
  PROVE  Len(SubSeq(s, a + 1, b)) = b - a
<1>1. a + 1 \in Nat /\ a + 1 >= 1 /\ a + 1 <= b + 1 OBVIOUS
<1>2. Len(SubSeq(s, a + 1, b)) = b + 1 - (a + 1) BY <1>1, SubSeqIs
<1>3. b + 1 - (a + 1) = b - a OBVIOUS
<1> QED BY <1>2, <1>3

(* A part of a sequence that grows by one.                                 *)
LEMMA SubSeqGrows ==
  ASSUME NEW S, NEW s \in Seq(S), NEW m \in Nat, NEW k \in Nat, m >= 1,
         m <= k + 1, k < Len(s)
  PROVE  SubSeq(s, m, k + 1) = Append(SubSeq(s, m, k), s[k + 1])
<1>1. SubSeq(s, m, k) \in Seq(S) BY SubSeqIs
<1>2. s[k + 1] \in S OBVIOUS
<1>3. SubSeq(s, m, k + 1) = SubSeq(s, m, k) \o <<s[k + 1]>>
  <2>1. m \in 1..Len(s) /\ k + 1 \in m..Len(s) OBVIOUS
  <2>2. (k + 1) - 1 = k OBVIOUS
  <2>3. SubSeq(s, m, k + 1) = SubSeq(s, m, (k + 1) - 1) \o <<s[k + 1]>>
    BY <2>1, SubSeqRecursiveSecond
  <2> QED BY <2>2, <2>3
<1>4. SubSeq(s, m, k) \o <<s[k + 1]>> = Append(SubSeq(s, m, k), s[k + 1])
  BY <1>1, <1>2, AppendIsConcat
<1> QED BY <1>3, <1>4

(* One sequence is the beginning of another.                               *)
Begins(s, t) == Len(s) <= Len(t) /\ s = SubSeq(t, 1, Len(s))

(* A sequence begins itself.                                               *)
LEMMA BeginsItself ==
  ASSUME NEW s \in Seq(Entry) PROVE Begins(s, s)
BY SubSeqFull DEF Begins

(* A sequence begins what it grows into.                                   *)
LEMMA BeginsAppended ==
  ASSUME NEW s \in Seq(Entry), NEW e \in Entry PROVE Begins(s, Append(s, e))
<1>1. SubSeq(Append(s, e), 1, Len(s)) = s OBVIOUS
<1>2. Len(s) <= Len(Append(s, e)) OBVIOUS
<1> QED BY <1>1, <1>2 DEF Begins

(* The entries after number a, up to number k.                             *)
Slice(s, a, k) == SubSeq(s, a + 1, k)

(* What lies within a beginning is the same in both sequences.             *)
LEMMA BlockOfBegin ==
  ASSUME NEW s \in Seq(Entry), NEW t \in Seq(Entry), Begins(s, t),
         NEW a \in Nat, NEW k \in Nat, a <= k, k <= Len(s)
  PROVE  Slice(s, a, k) = Slice(t, a, k)
<1>1. a + 1 >= 1 /\ a + 1 <= k + 1 /\ a + 1 \in Nat /\ k <= Len(t) BY DEF Begins
<1>2. \A i \in 1..Len(s) : s[i] = t[i]
  <2>1. 1 <= Len(s) + 1 /\ Len(s) \in Nat /\ Len(s) <= Len(t) BY DEF Begins
  <2>2. \A i \in 1..(Len(s) + 1 - 1) : SubSeq(t, 1, Len(s))[i] = t[1 + i - 1]
    BY <2>1, SubSeqIs
  <2>3. \A i \in 1..Len(s) : 1 + i - 1 = i /\ i \in 1..(Len(s) + 1 - 1) OBVIOUS
  <2>4. s = SubSeq(t, 1, Len(s)) BY DEF Begins
  <2>5. \A i \in 1..Len(s) : SubSeq(t, 1, Len(s))[i] = t[i] BY <2>2, <2>3
  <2> QED BY <2>4, <2>5
<1> DEFINE n == k + 1 - (a + 1)
<1>3. /\ SubSeq(s, a + 1, k) \in Seq(Entry) /\ Len(SubSeq(s, a + 1, k)) = n
      /\ \A i \in 1..n : SubSeq(s, a + 1, k)[i] = s[a + 1 + i - 1]
  BY <1>1, SubSeqIs
<1>4. /\ SubSeq(t, a + 1, k) \in Seq(Entry) /\ Len(SubSeq(t, a + 1, k)) = n
      /\ \A i \in 1..n : SubSeq(t, a + 1, k)[i] = t[a + 1 + i - 1]
  BY <1>1, SubSeqIs
<1>5. \A i \in 1..n : s[a + 1 + i - 1] = t[a + 1 + i - 1]
  <2>1. \A i \in 1..n : a + 1 + i - 1 \in 1..Len(s) OBVIOUS
  <2> QED BY <1>2, <2>1
<1> DEFINE x == SubSeq(s, a + 1, k)
           y == SubSeq(t, a + 1, k)
<1>6. x \in Seq(Entry) /\ y \in Seq(Entry) /\ Len(x) = Len(y)
      /\ \A i \in 1..Len(x) : x[i] = y[i]
  BY <1>3, <1>4, <1>5
<1> HIDE DEF x, y, n
<1>7. x = y BY <1>6, SeqEqual
<1> QED BY <1>7 DEF x, y, Slice

(* The beginning of a beginning is a beginning.                            *)
LEMMA BeginsTransitive ==
  ASSUME NEW s \in Seq(Entry), NEW t \in Seq(Entry), NEW u \in Seq(Entry),
         Begins(s, t), Begins(t, u)
  PROVE  Begins(s, u)
<1>1. Len(s) <= Len(t) /\ Len(t) <= Len(u) /\ Len(s) \in Nat BY DEF Begins
<1>2. Slice(t, 0, Len(s)) = Slice(u, 0, Len(s)) BY <1>1, BlockOfBegin
<1>3. SubSeq(t, 1, Len(s)) = SubSeq(u, 1, Len(s))
  <2>1. 0 + 1 = 1 OBVIOUS
  <2> QED BY <1>2, <2>1, Zenon DEF Slice
<1> QED BY <1>1, <1>3 DEF Begins

(* The first entries of a log are a beginning of it.                       *)
LEMMA SliceBegins ==
  ASSUME NEW t \in Seq(Entry), NEW m \in Nat, m <= Len(t)
  PROVE  Len(Slice(t, 0, m)) = m /\ Begins(Slice(t, 0, m), t)
<1> DEFINE s == SubSeq(t, 1, m)
<1>1. 0 + 1 = 1 OBVIOUS
<1>2. Slice(t, 0, m) = s BY <1>1, Zenon DEF Slice
<1>3. Len(s) = m
  <2>1. 1 <= m + 1 /\ m + 1 - 1 = m OBVIOUS
  <2> QED BY <2>1, SubSeqIs
<1>4. Begins(s, t) BY <1>3 DEF Begins
<1> HIDE DEF s
<1> QED BY <1>2, <1>3, <1>4

(* Of two beginnings of one sequence the shorter begins the longer.        *)
LEMMA BeginsShorter ==
  ASSUME NEW s \in Seq(Entry), NEW t \in Seq(Entry), NEW u \in Seq(Entry),
         Begins(s, u), Begins(t, u), Len(s) <= Len(t)
  PROVE  Begins(s, t)
<1>1. Len(s) \in Nat /\ 0 <= Len(s) OBVIOUS
<1>2. Slice(t, 0, Len(s)) = Slice(u, 0, Len(s)) BY <1>1, BlockOfBegin
<1>3. SubSeq(t, 1, Len(s)) = SubSeq(u, 1, Len(s))
  <2>1. 0 + 1 = 1 OBVIOUS
  <2> QED BY <1>2, <2>1, Zenon DEF Slice
<1> QED BY <1>3 DEF Begins

Bounded(a, b) == IF a <= b THEN a ELSE b

(* read_ops_since returns an unbroken block of the log: the entries after  *)
(* the number it is given, as many as the limit allows, in the order of    *)
(* the log.                                                                *)
THEOREM ReadReturnsBlock ==
  ASSUME NEW t \in Tables, Numbered(t), NEW after \in Nat, NEW limit \in Nat
  PROVE  read_ops_since(t, after, limit)
           = SubSeq(t.ops, after + 1, Bounded(Len(t.ops), after + limit))
<1> DEFINE log == t.ops
           n == Len(log)
           upto(i) == SubSeq(log, after + 1, Bounded(i, after + limit))
<1>1. log \in Seq(Entry) /\ n \in Nat BY DEF Tables, Shape
<1>2. \A i \in 1..n : log[i].op_seq = i /\ log[i] \in Entry BY <1>1 DEF Numbered
<1>3. PICK f : /\ f[0] = Request(after, limit)
               /\ \A i \in Nat : i < n => f[i + 1] = Take(f[i], log[i + 1])
               /\ Reading!Fold(Request(after, limit), log) = f[n]
  BY <1>1, Reading!FoldTrace
<1> HIDE DEF log, n
<1> DEFINE A == {i \in Nat : i <= n => f[i] = [after |-> after, limit |-> limit, kept |-> upto(i)]}
<1>4. 0 \in A
  <2>1. upto(0) = <<>> BY <1>1 DEF Bounded
  <2> HIDE DEF upto
  <2> QED BY <1>3, <2>1 DEF Request
<1>5. ASSUME NEW i \in Nat, i \in A PROVE i + 1 \in A
  <2> SUFFICES ASSUME i + 1 <= n
               PROVE  f[i + 1] = [after |-> after, limit |-> limit, kept |-> upto(i + 1)]
    OBVIOUS
  <2> DEFINE s == [after |-> after, limit |-> limit, kept |-> upto(i)]
  <2>1. f[i] = s /\ f[i + 1] = Take(s, log[i + 1]) BY <1>1, <1>3, <1>5
  <2>2. log[i + 1].op_seq = i + 1 /\ log[i + 1] \in Entry BY <1>1, <1>2
  <2>3. CASE i + 1 <= after
    <3>1. upto(i) = <<>> /\ upto(i + 1) = <<>> BY <1>1, <2>3 DEF Bounded, n
    <3>2. Take(s, log[i + 1]) = s BY <2>2, <2>3 DEF Take
    <3> HIDE DEF upto
    <3> QED BY <2>1, <3>1, <3>2
  <2>4. CASE after < i + 1 /\ i < after + limit
    <3>1. upto(i) = SubSeq(log, after + 1, i) /\ upto(i + 1) = SubSeq(log, after + 1, i + 1)
      BY <2>4 DEF Bounded
    <3> HIDE DEF upto
    <3>2. Len(upto(i)) = i - after /\ Len(upto(i)) < limit
      <4>1. after <= i /\ i <= n BY <1>1, <2>4
      <4>2. Len(SubSeq(log, after + 1, i)) = i - after BY <1>1, <4>1, PartLen DEF n
      <4> QED BY <2>4, <3>1, <4>2
    <3>3. upto(i + 1) = Append(upto(i), log[i + 1])
      <4>1. after + 1 <= i + 1 /\ i < n /\ after + 1 >= 1 /\ after + 1 \in Nat BY <1>1, <2>4
      <4> QED BY <1>1, <3>1, <4>1, SubSeqGrows DEF n
    <3>4. Take(s, log[i + 1]) = [s EXCEPT !.kept = Append(s.kept, log[i + 1])]
      BY <2>2, <2>4, <3>2 DEF Take
    <3> QED BY <2>1, <3>3, <3>4
  <2>5. CASE after < i + 1 /\ i >= after + limit
    <3>1. upto(i) = SubSeq(log, after + 1, after + limit) /\ upto(i + 1) = upto(i)
      BY <2>5 DEF Bounded
    <3> HIDE DEF upto
    <3>2. Len(upto(i)) = limit
      <4>1. PICK b \in Nat : b = after + limit OBVIOUS
      <4>2. after <= b /\ b <= n BY <1>1, <2>5, <4>1
      <4>3. Len(SubSeq(log, after + 1, b)) = b - after BY <1>1, <4>2, PartLen DEF n
      <4>4. b - after = limit BY <4>1
      <4> QED BY <3>1, <4>1, <4>3, <4>4
    <3>3. Take(s, log[i + 1]) = s BY <3>2 DEF Take
    <3> QED BY <2>1, <3>1, <3>3
  <2> QED BY <2>3, <2>4, <2>5
<1>6. n \in A
  <2> HIDE DEF A
  <2>1. Nat \subseteq A BY <1>4, <1>5, Reading!SetInduction
  <2> QED BY <1>1, <2>1
<1>7. read_ops_since(t, after, limit) = f[n].kept BY <1>3, ReadIsFold DEF log
<1> HIDE DEF upto
<1>8. read_ops_since(t, after, limit) = upto(n) BY <1>1, <1>6, <1>7
<1> QED BY <1>8 DEF log, n, upto

Larger(a, b) == IF b <= a THEN a ELSE b

(* A block of a log, applied to a table that holds a beginning of that     *)
(* log and reaches the start of the block, is never refused, entries that  *)
(* are already there included, and leaves a longer beginning of that log.  *)
THEOREM ApplyBlock ==
  ASSUME NEW deep, NEW leader \in Good(deep), NEW t \in Good(deep),
         Begins(t.ops, leader.ops),
         NEW a \in Nat, NEW k \in Nat, a <= Len(t.ops), a <= k, k <= Len(leader.ops)
  PROVE  LET s == apply_ops(t, Slice(leader.ops, a, k))
         IN  /\ s.ok
             /\ s.table \in Good(deep)
             /\ s.table.ops = Slice(leader.ops, 0, Larger(Len(t.ops), k))
<1> DEFINE log == leader.ops
           n == Len(log)
           h == Len(t.ops)
           batch == SubSeq(log, a + 1, k)
           reach(i) == IF a + i <= h THEN h ELSE a + i
<1>1. /\ log \in Seq(Entry) /\ n \in Nat /\ t.ops \in Seq(Entry) /\ h \in Nat
      /\ h <= n /\ t.ops = SubSeq(log, 1, h)
  BY DEF Good, Tables, Shape, Begins
<1>2. \A i \in 1..n : log[i].op_seq = i /\ log[i] \in Entry
  BY <1>1 DEF Good, Numbered
<1>3. \A m \in 0..n : Replay(SubSeq(log, 1, m)).ok BY DEF Good, Follows
<1> HIDE DEF n
<1>4. batch \in Seq(Entry) /\ Len(batch) = k - a
      /\ \A i \in 1..(k - a) : batch[i] = log[a + i]
  <2>1. a + 1 <= k + 1 /\ k <= n /\ a + 1 >= 1 /\ a + 1 \in Nat BY DEF n
  <2>2. /\ batch \in Seq(Entry) /\ Len(batch) = k + 1 - (a + 1)
        /\ \A i \in 1..(k + 1 - (a + 1)) : batch[i] = log[(a + 1) + i - 1]
    BY <1>1, <2>1, SubSeqIs DEF n
  <2>3. k + 1 - (a + 1) = k - a /\ \A i \in 1..(k - a) : (a + 1) + i - 1 = a + i OBVIOUS
  <2> HIDE DEF batch
  <2> QED BY <2>2, <2>3
<1> HIDE DEF batch
<1>5. PICK f : /\ f[0] = Start(t)
               /\ \A i \in Nat : i < Len(batch) => f[i + 1] = ApplyOne(f[i], batch[i + 1])
               /\ apply_ops(t, batch) = f[Len(batch)]
  BY <1>4, ApplyTrace
<1>6. \A i \in Nat : i < k - a => f[i + 1] = ApplyOne(f[i], log[a + i + 1])
  <2>1. \A i \in Nat : i < k - a => i + 1 \in 1..(k - a) /\ a + (i + 1) = a + i + 1
    OBVIOUS
  <2> QED BY <1>4, <1>5, <2>1
<1> DEFINE Fine(i) == /\ f[i] \in State /\ f[i].ok /\ f[i].table \in Good(deep)
                      /\ f[i].table.ops = SubSeq(log, 1, reach(i))
           A == {i \in Nat : i <= k - a => Fine(i)}
<1>7. 0 \in A
  <2>1. f[0].table = t /\ f[0].ok /\ f[0] \in State BY <1>5 DEF Start, State, Good
  <2>2. reach(0) = h BY <1>1
  <2> HIDE DEF reach
  <2> QED BY <1>1, <2>1, <2>2
<1>8. ASSUME NEW i \in Nat, i \in A PROVE i + 1 \in A
  <2> SUFFICES ASSUME i + 1 <= k - a PROVE Fine(i + 1)
    OBVIOUS
  <2>1. i < k - a /\ a + i + 1 <= n /\ a + i + 1 \in 1..n BY <1>1 DEF n
  <2> DEFINE s == f[i]
             op == log[a + i + 1]
  <2>2. s \in State /\ s.ok /\ s.table \in Good(deep) /\ s.table.ops = SubSeq(log, 1, reach(i))
    BY <1>8, <2>1
  <2>3. f[i + 1] = ApplyOne(s, op) BY <1>6, <2>1
  <2>4. op \in Entry /\ op.op_seq = a + i + 1 BY <1>2, <2>1
  <2>5. f[i + 1] \in State /\ f[i + 1].table \in Good(deep)
    BY <2>2, <2>3, <2>4, ApplyOneGood
  <2>6. s.table \in Tables /\ s.table.latestSeq = reach(i)
    <3>1. Len(SubSeq(log, 1, reach(i))) = reach(i)
      <4>1. reach(i) \in Nat /\ reach(i) <= n /\ 1 <= reach(i) + 1 BY <1>1, <2>1
      <4>2. Len(SubSeq(log, 1, reach(i))) = reach(i) + 1 - 1
        <5> HIDE DEF reach
        <5> QED BY <1>1, <4>1, SubSeqIs DEF n
      <4> QED BY <4>1, <4>2
    <3> QED BY <2>2, <3>1 DEF Good, Numbered
  <2> HIDE DEF op, s
  <2>7. CASE a + i + 1 <= h
    <3>1. reach(i) = h /\ reach(i + 1) = h BY <1>1, <2>7
    <3>2. ApplyOne(s, op) = s BY <2>4, <2>6, <2>7, <3>1 DEF ApplyOne
    <3> HIDE DEF reach
    <3> QED BY <2>2, <2>3, <2>5, <3>1, <3>2
  <2>8. CASE a + i + 1 > h
    <3> DEFINE m == a + i
               p == SubSeq(log, 1, m)
               r == Replay(p)
    <3>1. reach(i) = m /\ reach(i + 1) = m + 1 /\ m \in Nat /\ m < n /\ m + 1 = a + i + 1
      BY <1>1, <2>1, <2>8
    <3> HIDE DEF m, reach
    <3>2. s.table.ops = p /\ p \in Seq(Entry) BY <2>2, <2>6, <3>1 DEF Tables, Shape
    <3>3. SubSeq(log, 1, m + 1) = Append(p, op)
      <4>1. 1 <= m + 1 BY <3>1
      <4> QED BY <1>1, <3>1, <4>1, SubSeqGrows DEF n, op
    <3>4. Replay(SubSeq(log, 1, m + 1)) = ApplyOne(r, op)
      <4>1. p \in Seq(Entry) BY <3>2
      <4>2. Replay(SubSeq(log, 1, m + 1)) = Replay(Append(p, op)) /\ r = Replay(p) BY <3>3
      <4> HIDE DEF p, r
      <4>3. Replay(Append(p, op)) = ApplyOne(Replay(p), op) BY <2>4, <4>1, ApplyAppend DEF Replay
      <4> QED BY <4>2, <4>3
    <3>5. ApplyOne(r, op).ok /\ r.ok
      <4>1. m + 1 \in 0..n /\ m \in 0..n BY <1>1, <3>1
      <4> QED BY <1>3, <3>4, <4>1
    <3>6. r.table \in Tables /\ r.table.latestSeq = m /\ AlikeTables(deep, r.table, s.table)
      <4>1. Follows(deep, s.table) BY <2>2 DEF Good
      <4> QED BY <2>6, <3>1, <3>2, <4>1, ReplayType DEF Follows
    <3>7. ~Refused(r.table, op)
      <4>1. ~(~r.ok \/ op.op_seq <= r.table.latestSeq) BY <2>4, <3>1, <3>5, <3>6
      <4>2. CASE Refused(r.table, op)
        <5>1. ApplyOne(r, op) = [r EXCEPT !.ok = FALSE] BY <4>1, <4>2 DEF ApplyOne
        <5>2. r \in State BY <3>2, ReplayType
        <5>3. r = [table |-> r.table, ok |-> r.ok] BY <5>2 DEF State
        <5>4. ~ApplyOne(r, op).ok
          <6> HIDE DEF r
          <6> QED BY <5>1, <5>3
        <5> QED BY <3>5, <5>4
      <4> QED BY <4>2
    <3>8. Live(r.table) = Live(s.table) BY <2>6, <3>6, AlikeLive
    <3>9. ~Refused(s.table, op) BY <2>4, <2>6, <3>1, <3>6, <3>7, <3>8 DEF Refused
    <3>10. ~(~s.ok \/ op.op_seq <= s.table.latestSeq) BY <2>2, <2>4, <2>6, <3>1
    <3> DEFINE x == Effect(s.table, op)
               u == Recorded(x, op)
    <3>11. ApplyOne(s, op) = [s EXCEPT !.table = u] BY <3>9, <3>10 DEF ApplyOne
    <3>12. s = [table |-> s.table, ok |-> s.ok] BY <2>2 DEF State
    <3>13. u.ops = Append(s.table.ops, op)
      <4>1. op.op_type = "UPDATE" => op.id \in Live(s.table) BY <3>9 DEF Refused
      <4>2. x \in Tables BY <2>4, <2>6, <4>1, EffectType
      <4>3. x.ops = s.table.ops BY <2>4, <2>6, EffectKeepsLog
      <4>4. u = [x EXCEPT !.latestSeq = op.op_seq, !.ops = Append(x.ops, op)] BY DEF Recorded
      <4> HIDE DEF x, u
      <4> QED BY <4>2, <4>3, <4>4 DEF Tables, Shape
    <3> HIDE DEF u
    <3>14. ApplyOne(s, op).ok /\ ApplyOne(s, op).table = u BY <2>2, <3>11, <3>12
    <3>15. u.ops = SubSeq(log, 1, reach(i + 1)) BY <3>1, <3>2, <3>3, <3>13
    <3> QED BY <2>3, <2>5, <3>14, <3>15
  <2>9. a + i + 1 <= h \/ a + i + 1 > h BY <1>1
  <2> QED BY <2>7, <2>8, <2>9
<1>9. Fine(k - a)
  <2> HIDE DEF A
  <2>1. Nat \subseteq A BY <1>7, <1>8, Apply!SetInduction
  <2>2. k - a \in A BY <2>1
  <2> QED BY <2>2 DEF A
<1>10. apply_ops(t, batch) = f[k - a] BY <1>4, <1>5
<1>11. reach(k - a) = Larger(Len(t.ops), k) BY DEF Larger
<1>12. 0 + 1 = 1 OBVIOUS
<1> HIDE DEF reach
<1> QED BY <1>9, <1>10, <1>11, <1>12, Zenon DEF batch, Slice

(* A good table shows what its log says.                                   *)
LEMMA GoodFollowsLog ==
  ASSUME NEW t \in Good(TRUE)
  PROVE  View(Replayed(t.ops)) = View(t)
<1> DEFINE r == Replayed(t.ops)
<1>1. t \in Tables /\ Follows(TRUE, t) /\ t.ops \in Seq(Entry) BY DEF Good, Tables, Shape
<1>2. r = Replay(t.ops).table BY DEF Replayed, Replay
<1>3. r \in Tables BY <1>1, <1>2, ReplayType
<1>4. r.blobs = t.blobs /\ \A d \in DocId : r.docs[d] = t.docs[d]
  BY <1>1, <1>2 DEF Follows, AlikeTables, Alike
<1> HIDE DEF r
<1>5. r.docs = t.docs BY <1>1, <1>3, <1>4 DEF Tables, Shape
<1>6. View(r) = View(t) BY <1>4, <1>5 DEF View, Live
<1> QED BY <1>6 DEF r

=============================================================================
