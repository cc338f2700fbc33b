----------------------------- MODULE SqlProofs -----------------------------
(* What TLAPS proves of the SQL engine, for every set of documents, calls  *)
(* and filters, any number of calls side by side and both databases.       *)
EXTENDS SqlSteng, StengProofs

-----------------------------------------------------------------------------
(* The constants.                                                          *)

IndexNames == Indexes \cup UNION {NewIndexes[x] : x \in Dialects}

Kinds == {"add", "replace", "update", "delete", "blob_add", "blob_del", "doc", "blob",
          "clear", "config", "restore", "merge", "cutoff", "latest", "apply"}

Modes == {"none", "shallow", "deep", "error", "skip", "replace", "rebuild"}

(* A row carries what its kind needs.                                      *)
RowOk(r) ==
  CASE r.kind \in {"add", "replace", "update"} -> r.id \in DocId /\ r.payload \in Value
    [] r.kind = "delete" -> r.id \in DocId /\ r.payload = Absent
    [] r.kind = "doc" -> r.id \in DocId /\ r.payload \in Value \cup {Dead}
    [] r.kind \in {"blob", "blob_add"} -> r.id \in BlobId /\ r.payload \in Content
    [] r.kind = "blob_del" -> r.id \in BlobId /\ r.payload = Absent
    [] r.kind \in {"restore", "merge", "cutoff"} -> r.payload \in Nat
    [] r.kind = "config" -> r.payload \in SUBSET IndexNames
    [] r.kind = "apply" -> r.payload \in Entry
    [] OTHER -> TRUE

Payload == Value \cup Content \cup Nat \cup Entry \cup {Absent, Dead} \cup SUBSET IndexNames
Rows == {r \in [kind : Kinds, id : DocId \cup BlobId \cup {Absent}, payload : Payload,
                mode : Modes] : RowOk(r)}

(* The order of the rows of a call: an import that replaces a table clears *)
(* it first, apply_ops asks for the last number first.  On Postgres tables *)
(* are not configured or cleared here, as the statements that do this are  *)
(* taken for one.                                                          *)
InOrder(x, rs) ==
  \A i \in DOMAIN rs :
    /\ rs[i].kind \in {"clear", "config"} => x = "sqlite"
    /\ rs[i].kind = "clear" => i = 1
    /\ rs[i].kind = "apply" =>
         /\ i > 1 /\ rs[1].kind = "latest"
         /\ \A j \in 2..Len(rs) : rs[j].kind = "apply"

Setting ==
  /\ \A x \in Dialects : \A rs \in Calls[x] : rs \in Seq(Rows) /\ InOrder(x, rs)
  /\ "postgres" \in Dialects => NewIndexes["postgres"] = {}
  /\ IsFiniteSet(DocId)
  /\ Absent \notin Nat \cup Content \cup Entry /\ Dead \notin Content

-----------------------------------------------------------------------------
(* Contents of the database.                                               *)

(* The log has no gap.                                                     *)
Unbroken(v) == \A n \in 1..MaxOps : v[OpKey(n)] # Absent <=> n <= latestSeq(v)

(* An index entry is absent or that of its document.                       *)
IndexOk(v) ==
  \A d \in DocId : v[IdxKey(d)] # Absent =>
    v[DocKey(d)] \notin {Absent, Dead} /\ v[IdxKey(d)][2] = v[DocKey(d)]

Contents(v) ==
  /\ v = [k \in Key |-> v[k]]
  /\ \A d \in DocId : v[DocKey(d)] \in Doc
  /\ \A b \in BlobId : v[BlobKey(b)] \in Content \cup {Absent}
  /\ \A n \in 1..MaxOps : v[OpKey(n)] \in Entry \cup {Absent}
  /\ v[Watermark] \in Nat
  /\ v[Config] \in SUBSET IndexNames
  /\ latestSeq(v) \in 0..MaxOps
  /\ Unbroken(v)
  /\ IndexOk(v)

(* The keys of the database are different from each other.                 *)
LEMMA KeysApart ==
  /\ \A d, e : /\ DocKey(d) = DocKey(e) => d = e
               /\ IdxKey(d) = IdxKey(e) => d = e
               /\ BlobKey(d) = BlobKey(e) => d = e
               /\ OpKey(d) = OpKey(e) => d = e
               /\ DocKey(d) # IdxKey(e) /\ DocKey(d) # BlobKey(e) /\ DocKey(d) # OpKey(e)
               /\ IdxKey(d) # BlobKey(e) /\ IdxKey(d) # OpKey(e) /\ BlobKey(d) # OpKey(e)
  /\ \A d : /\ DocKey(d) \notin {Config, Watermark} /\ IdxKey(d) \notin {Config, Watermark}
            /\ BlobKey(d) \notin {Config, Watermark} /\ OpKey(d) \notin {Config, Watermark}
            /\ IdxKey(d)[2] = d
  /\ Config # Watermark
BY SMTT(30) DEF DocKey, IdxKey, BlobKey, OpKey, Config, Watermark

(* The keys there are.                                                     *)
LEMMA KeysKnown ==
  /\ \A d \in DocId : DocKey(d) \in Key /\ IdxKey(d) \in Key
  /\ \A b \in BlobId : BlobKey(b) \in Key
  /\ \A n \in 1..MaxOps : OpKey(n) \in Key
  /\ Config \in Key /\ Watermark \in Key
  /\ \A k \in Key : \/ \E d \in DocId : k = DocKey(d) \/ k = IdxKey(d)
                    \/ \E b \in BlobId : k = BlobKey(b)
                    \/ \E n \in 1..MaxOps : k = OpKey(n)
                    \/ k = Config \/ k = Watermark
BY DEF Key

(* What is there once w has been written over v.                           *)
LEMMA Overwritten ==
  ASSUME NEW v, v = [k \in Key |-> v[k]], NEW w, DOMAIN w \subseteq Key
  PROVE  /\ w ++ v = [k \in Key |-> (w ++ v)[k]]
         /\ \A k \in Key : (w ++ v)[k] = IF k \in DOMAIN w THEN w[k] ELSE v[k]
<1>1. DOMAIN v = Key OBVIOUS
<1>2. w ++ v = [k \in Key |-> IF k \in DOMAIN w THEN w[k] ELSE v[k]]
  <2>1. DOMAIN w \cup DOMAIN v = Key BY <1>1
  <2> QED BY <2>1 DEF ++
<1> QED BY <1>2

(* Writing one thing after the other.                                      *)
LEMMA WrittenTwice ==
  ASSUME NEW v, v = [k \in Key |-> v[k]], NEW o, DOMAIN o \subseteq Key,
         NEW w, DOMAIN w \subseteq Key
  PROVE  /\ (w ++ o) ++ v = w ++ (o ++ v)
         /\ DOMAIN (w ++ o) = DOMAIN w \cup DOMAIN o
<1>1. DOMAIN v = Key OBVIOUS
<1>2. w ++ o = [k \in DOMAIN w \cup DOMAIN o |-> IF k \in DOMAIN w THEN w[k] ELSE o[k]]
  BY DEF ++
<1>3. o ++ v = [k \in Key |-> IF k \in DOMAIN o THEN o[k] ELSE v[k]]
  <2>1. DOMAIN o \cup DOMAIN v = Key BY <1>1
  <2> QED BY <2>1 DEF ++
<1> DEFINE a == w ++ o
           c == o ++ v
<1>4. a ++ v = [k \in Key |-> IF k \in DOMAIN a THEN a[k] ELSE v[k]]
  <2>1. DOMAIN a \cup DOMAIN v = Key BY <1>1, <1>2
  <2> HIDE DEF a
  <2> QED BY <2>1 DEF ++
<1>5. w ++ c = [k \in Key |-> IF k \in DOMAIN w THEN w[k] ELSE c[k]]
  <2>1. DOMAIN w \cup DOMAIN c = Key BY <1>3
  <2> HIDE DEF c
  <2> QED BY <2>1 DEF ++
<1>6. \A k \in Key : (IF k \in DOMAIN a THEN a[k] ELSE v[k])
                     = (IF k \in DOMAIN w THEN w[k] ELSE c[k])
  BY <1>2, <1>3
<1> QED BY <1>2, <1>4, <1>5, <1>6

(* Nothing written changes nothing.                                        *)
LEMMA NothingWritten ==
  ASSUME NEW v, v = [k \in Key |-> v[k]]
  PROVE  Nothing ++ v = v /\ DOMAIN Nothing = {}
<1>1. DOMAIN Nothing = {} BY DEF Nothing
<1>2. \A k \in Key : (Nothing ++ v)[k] = v[k] BY <1>1, Overwritten
<1>3. Nothing ++ v = [k \in Key |-> (Nothing ++ v)[k]] BY <1>1, Overwritten
<1> QED BY <1>1, <1>2, <1>3

-----------------------------------------------------------------------------
(* The last number of the log.                                             *)

LEMMA LatestIs ==
  ASSUME NEW v, NEW k \in 0..MaxOps,
         \A n \in 1..MaxOps : v[OpKey(n)] # Absent <=> n <= k
  PROVE  latestSeq(v) = k /\ Unbroken(v)
<1> DEFINE used == {n \in 1..MaxOps : v[OpKey(n)] # Absent}
<1>0. MaxOps \in Nat BY SqlStengAssumption
<1>1. used = 1..k BY <1>0
<1>2. latestSeq(v) = IF used = {} THEN 0 ELSE CHOOSE n \in used : \A m \in used : m <= n
  BY DEF latestSeq
<1>3. latestSeq(v) = k
  <2>1. CASE k = 0 BY <2>1, <1>1, <1>2
  <2>2. CASE k > 0
    <3>1. k \in used /\ \A m \in used : m <= k BY <2>2, <1>1
    <3>2. \A n \in used : (\A m \in used : m <= n) => n = k BY <3>1, <1>0
    <3> HIDE DEF used
    <3> QED BY <3>1, <3>2, <1>2
  <2> QED BY <2>1, <2>2
<1> QED BY <1>3 DEF Unbroken

LEMMA LatestSame ==
  ASSUME NEW u, NEW v, \A n \in 1..MaxOps : u[OpKey(n)] = v[OpKey(n)]
  PROVE  /\ latestSeq(u) = latestSeq(v)
         /\ latestSeq(v) \in 0..MaxOps => LogOf(u) = LogOf(v)
<1> DEFINE used(w) == {n \in 1..MaxOps : w[OpKey(n)] # Absent}
           top(s) == IF s = {} THEN 0 ELSE CHOOSE n \in s : \A m \in s : m <= n
<1>1. used(u) = used(v) OBVIOUS
<1>2. latestSeq(u) = top(used(u)) /\ latestSeq(v) = top(used(v)) BY Zenon DEF latestSeq
<1>3. latestSeq(u) = latestSeq(v)
  <2> HIDE DEF used, top
  <2> QED BY <1>1, <1>2
<1>4. latestSeq(v) \in 0..MaxOps => LogOf(u) = LogOf(v)
  BY <1>3, SqlStengAssumption DEF LogOf
<1> QED BY <1>3, <1>4

(* An index entry is about a document, the log about its entries: writing  *)
(* elsewhere leaves them as they are.                                      *)
LEMMA SameOps ==
  ASSUME NEW u, NEW v, Contents(v), \A n \in 1..MaxOps : u[OpKey(n)] = v[OpKey(n)]
  PROVE  /\ latestSeq(u) = latestSeq(v) /\ LogOf(u) = LogOf(v)
         /\ latestSeq(u) \in 0..MaxOps /\ Unbroken(u)
         /\ \A n \in 1..MaxOps : u[OpKey(n)] \in Entry \cup {Absent}
<1>1. latestSeq(v) \in 0..MaxOps /\ Unbroken(v) BY DEF Contents
<1>2. latestSeq(u) = latestSeq(v) /\ LogOf(u) = LogOf(v) BY <1>1, LatestSame
<1>3. Unbroken(u) BY <1>1, <1>2 DEF Unbroken
<1>4. \A n \in 1..MaxOps : u[OpKey(n)] \in Entry \cup {Absent} BY DEF Contents
<1> QED BY <1>1, <1>2, <1>3, <1>4

(* The log of such contents is a sequence of entries.                      *)
LEMMA LogIsSeq ==
  ASSUME NEW v, Contents(v)
  PROVE  /\ LogOf(v) \in Seq(Entry) /\ Len(LogOf(v)) = latestSeq(v)
         /\ \A n \in 1..latestSeq(v) : LogOf(v)[n] = v[OpKey(n)] /\ v[OpKey(n)] \in Entry
<1>0. latestSeq(v) \in 0..MaxOps /\ MaxOps \in Nat BY SqlStengAssumption DEF Contents
<1>1. \A n \in 1..latestSeq(v) : v[OpKey(n)] \in Entry
  BY <1>0 DEF Contents, Unbroken
<1>2. LogOf(v) \in [1..latestSeq(v) -> Entry] BY <1>1 DEF LogOf
<1>3. latestSeq(v) \in Nat BY <1>0
<1>4. LogOf(v) \in Seq(Entry) /\ Len(LogOf(v)) = latestSeq(v)
  <2> HIDE DEF LogOf
  <2> QED BY <1>2, <1>3
<1> QED BY <1>0, <1>1, <1>4 DEF LogOf

-----------------------------------------------------------------------------
(* What the statements leave behind.                                       *)

(* The table of the memory engine that the contents stand for.             *)
LEMMA TableFields ==
  ASSUME NEW v
  PROVE  /\ TableOf(v).docs = [d \in DocId |-> v[DocKey(d)]]
         /\ TableOf(v).blobs = [b \in BlobId |-> v[BlobKey(b)]]
         /\ TableOf(v).ops = LogOf(v) /\ TableOf(v).latestSeq = latestSeq(v)
         /\ TableOf(v).watermark = v[Watermark]
         /\ Live(TableOf(v)) = {d \in DocId : v[DocKey(d)] \notin {Absent, Dead}}
BY DEF TableOf, Live

(* A table with these fields.                                              *)
Fields(D, B, o, n, w) ==
  [docs |-> D, blobs |-> B, ops |-> o, latestSeq |-> n, watermark |-> w]
Whole(t) == t = Fields(t.docs, t.blobs, t.ops, t.latestSeq, t.watermark)

(* The fields that a change leaves alone.                                  *)
LEMMA ChangedDoc ==
  ASSUME NEW t, Whole(t), NEW i, NEW x, NEW D, D = [t.docs EXCEPT ![i] = x]
  PROVE  [t EXCEPT !.docs[i] = x] = Fields(D, t.blobs, t.ops, t.latestSeq, t.watermark)
<1>1. t = [docs |-> t.docs, blobs |-> t.blobs, ops |-> t.ops, latestSeq |-> t.latestSeq,
           watermark |-> t.watermark]
  BY DEF Whole, Fields
<1>2. [t EXCEPT !.docs[i] = x]
        = [docs |-> D, blobs |-> t.blobs, ops |-> t.ops, latestSeq |-> t.latestSeq,
           watermark |-> t.watermark]
  BY <1>1
<1> QED BY <1>2 DEF Fields

LEMMA ChangedBlob ==
  ASSUME NEW t, Whole(t), NEW i, NEW x, NEW B, B = [t.blobs EXCEPT ![i] = x]
  PROVE  [t EXCEPT !.blobs[i] = x] = Fields(t.docs, B, t.ops, t.latestSeq, t.watermark)
<1>1. t = [docs |-> t.docs, blobs |-> t.blobs, ops |-> t.ops, latestSeq |-> t.latestSeq,
           watermark |-> t.watermark]
  BY DEF Whole, Fields
<1>2. [t EXCEPT !.blobs[i] = x]
        = [docs |-> t.docs, blobs |-> B, ops |-> t.ops, latestSeq |-> t.latestSeq,
           watermark |-> t.watermark]
  BY <1>1
<1> QED BY <1>2 DEF Fields

LEMMA ChangedWatermark ==
  ASSUME NEW t, Whole(t), NEW n
  PROVE  [t EXCEPT !.watermark = n] = Fields(t.docs, t.blobs, t.ops, t.latestSeq, n)
<1>1. t = [docs |-> t.docs, blobs |-> t.blobs, ops |-> t.ops, latestSeq |-> t.latestSeq,
           watermark |-> t.watermark]
  BY DEF Whole, Fields
<1>2. [t EXCEPT !.watermark = n]
        = [docs |-> t.docs, blobs |-> t.blobs, ops |-> t.ops, latestSeq |-> t.latestSeq,
           watermark |-> n]
  BY <1>1
<1> QED BY <1>2 DEF Fields

LEMMA ChangedLog ==
  ASSUME NEW t, Whole(t), NEW o, NEW n
  PROVE  [t EXCEPT !.latestSeq = n, !.ops = o] = Fields(t.docs, t.blobs, o, n, t.watermark)
<1>1. t = [docs |-> t.docs, blobs |-> t.blobs, ops |-> t.ops, latestSeq |-> t.latestSeq,
           watermark |-> t.watermark]
  BY DEF Whole, Fields
<1> DEFINE u == [t EXCEPT !.latestSeq = n]
<1>5. [t EXCEPT !.latestSeq = n, !.ops = o] = [u EXCEPT !.ops = o] BY <1>1
<1>6. u = [docs |-> t.docs, blobs |-> t.blobs, ops |-> t.ops, latestSeq |-> n,
           watermark |-> t.watermark]
  BY <1>1
<1>7. [u EXCEPT !.ops = o]
        = [docs |-> t.docs, blobs |-> t.blobs, ops |-> o, latestSeq |-> n,
           watermark |-> t.watermark]
  <2> HIDE DEF u
  <2> QED BY <1>6
<1> QED BY <1>5, <1>7 DEF Fields

(* What a table is made of.                                                *)
LEMMA TableIs ==
  ASSUME NEW v
  PROVE  /\ Whole(TableOf(v))
         /\ TableOf(v) = Fields([d \in DocId |-> v[DocKey(d)]], [b \in BlobId |-> v[BlobKey(b)]],
                                LogOf(v), latestSeq(v), v[Watermark])
BY DEF TableOf, Whole, Fields

DocPut(w, v, d, x, i) ==
  /\ DOMAIN w = {DocKey(d), IdxKey(d)} /\ DOMAIN w \subseteq Key
  /\ Contents(w ++ v)
  /\ TableOf(w ++ v) = writeDoc(TableOf(v), d, x)
  /\ \A n \in 1..MaxOps : (w ++ v)[OpKey(n)] = v[OpKey(n)]
  /\ (w ++ v)[Config] = v[Config]
  /\ \A e \in DocId : /\ (w ++ v)[DocKey(e)] = IF e = d THEN x ELSE v[DocKey(e)]
                      /\ (w ++ v)[IdxKey(e)] = IF e = d THEN i ELSE v[IdxKey(e)]

(* A document, with its index entry.                                       *)
LEMMA DocWritten ==
  ASSUME NEW v, Contents(v), NEW d \in DocId, NEW x \in Doc, NEW i,
         i # Absent => x \notin {Absent, Dead} /\ i[2] = x,
         NEW w, w = Cell(DocKey(d), x) ++ Cell(IdxKey(d), i)
  PROVE  DocPut(w, v, d, x, i)
<1> DEFINE u == w ++ v
<1>0. v = [k \in Key |-> v[k]] BY DEF Contents
<1>1. DOMAIN w = {DocKey(d), IdxKey(d)} BY DEF Cell, ++
<1>2. w[DocKey(d)] = x /\ w[IdxKey(d)] = i BY KeysApart DEF Cell, ++
<1>3. DOMAIN w \subseteq Key BY <1>1, KeysKnown
<1>4. /\ u = [k \in Key |-> u[k]]
      /\ \A k \in Key : u[k] = IF k \in DOMAIN w THEN w[k] ELSE v[k]
  BY <1>0, <1>3, Overwritten
<1> HIDE DEF u
<1>5. /\ \A e \in DocId : /\ u[DocKey(e)] = IF e = d THEN x ELSE v[DocKey(e)]
                         /\ u[IdxKey(e)] = IF e = d THEN i ELSE v[IdxKey(e)]
      /\ \A b \in BlobId : u[BlobKey(b)] = v[BlobKey(b)]
      /\ \A n \in 1..MaxOps : u[OpKey(n)] = v[OpKey(n)]
      /\ u[Config] = v[Config] /\ u[Watermark] = v[Watermark]
  BY <1>1, <1>2, <1>4, KeysApart, KeysKnown
<1>6. Contents(u)
  <2>1. IndexOk(u) BY <1>5 DEF Contents, IndexOk
  <2>2. latestSeq(u) \in 0..MaxOps /\ Unbroken(u)
        /\ \A n \in 1..MaxOps : u[OpKey(n)] \in Entry \cup {Absent}
    BY <1>5, SameOps
  <2> QED BY <1>4, <1>5, <2>1, <2>2 DEF Contents
<1>7. TableOf(u) = writeDoc(TableOf(v), d, x)
  <2>1. LogOf(u) = LogOf(v) /\ latestSeq(u) = latestSeq(v) BY <1>5, SameOps
  <2>2. [e \in DocId |-> u[DocKey(e)]] = [[e \in DocId |-> v[DocKey(e)]] EXCEPT ![d] = x]
    BY <1>5
  <2>3. [b \in BlobId |-> u[BlobKey(b)]] = [b \in BlobId |-> v[BlobKey(b)]] BY <1>5
  <2> DEFINE t == TableOf(v)
             D == [e \in DocId |-> u[DocKey(e)]]
  <2>4. D = [t.docs EXCEPT ![d] = x] BY <2>2, TableFields
  <2>7. t.blobs = [b \in BlobId |-> u[BlobKey(b)]] /\ t.ops = LogOf(u)
        /\ t.latestSeq = latestSeq(u) /\ t.watermark = u[Watermark]
    BY <1>5, <2>1, <2>3, TableFields
  <2>8. TableOf(u) = Fields(D, [b \in BlobId |-> u[BlobKey(b)]], LogOf(u), latestSeq(u), u[Watermark])
    BY Zenon, TableIs
  <2>5. TableOf(u) = Fields(D, t.blobs, t.ops, t.latestSeq, t.watermark) BY <2>7, <2>8
  <2>6. Whole(t) BY TableIs
  <2> HIDE DEF t, D
  <2> QED BY <2>4, <2>5, <2>6, ChangedDoc DEF writeDoc, t
<1> QED BY <1>1, <1>3, <1>5, <1>6, <1>7 DEF u, DocPut

BlobPut(w, v, b, x) ==
  /\ DOMAIN w = {BlobKey(b)} /\ DOMAIN w \subseteq Key
  /\ Contents(w ++ v)
  /\ TableOf(w ++ v) = [TableOf(v) EXCEPT !.blobs[b] = x]
  /\ \A n \in 1..MaxOps : (w ++ v)[OpKey(n)] = v[OpKey(n)]
  /\ (w ++ v)[Config] = v[Config]
  /\ \A e \in DocId : (w ++ v)[DocKey(e)] = v[DocKey(e)] /\ (w ++ v)[IdxKey(e)] = v[IdxKey(e)]

(* A blob.                                                                 *)
LEMMA BlobWritten ==
  ASSUME NEW v, Contents(v), NEW b \in BlobId, NEW x \in Content \cup {Absent},
         NEW w, w = Cell(BlobKey(b), x)
  PROVE  BlobPut(w, v, b, x)
<1> DEFINE u == w ++ v
<1>0. v = [k \in Key |-> v[k]] BY DEF Contents
<1>1. DOMAIN w = {BlobKey(b)} /\ w[BlobKey(b)] = x BY DEF Cell
<1>3. DOMAIN w \subseteq Key BY <1>1, KeysKnown
<1>4. /\ u = [k \in Key |-> u[k]]
      /\ \A k \in Key : u[k] = IF k \in DOMAIN w THEN w[k] ELSE v[k]
  BY <1>0, <1>3, Overwritten
<1> HIDE DEF u
<1>5. /\ \A e \in DocId : u[DocKey(e)] = v[DocKey(e)] /\ u[IdxKey(e)] = v[IdxKey(e)]
      /\ \A c \in BlobId : u[BlobKey(c)] = IF c = b THEN x ELSE v[BlobKey(c)]
      /\ \A n \in 1..MaxOps : u[OpKey(n)] = v[OpKey(n)]
      /\ u[Config] = v[Config] /\ u[Watermark] = v[Watermark]
  BY <1>1, <1>4, KeysApart, KeysKnown
<1>6. Contents(u)
  <2>1. IndexOk(u) BY <1>5 DEF Contents, IndexOk
  <2>2. latestSeq(u) \in 0..MaxOps /\ Unbroken(u)
        /\ \A n \in 1..MaxOps : u[OpKey(n)] \in Entry \cup {Absent}
    BY <1>5, SameOps
  <2> QED BY <1>4, <1>5, <2>1, <2>2 DEF Contents
<1>7. TableOf(u) = [TableOf(v) EXCEPT !.blobs[b] = x]
  <2>1. LogOf(u) = LogOf(v) /\ latestSeq(u) = latestSeq(v) BY <1>5, SameOps
  <2>2. [c \in BlobId |-> u[BlobKey(c)]] = [[c \in BlobId |-> v[BlobKey(c)]] EXCEPT ![b] = x]
    BY <1>5
  <2>3. [e \in DocId |-> u[DocKey(e)]] = [e \in DocId |-> v[DocKey(e)]] BY <1>5
  <2> DEFINE t == TableOf(v)
             B == [c \in BlobId |-> u[BlobKey(c)]]
  <2>4. B = [t.blobs EXCEPT ![b] = x] BY <2>2, TableFields
  <2>7. t.docs = [e \in DocId |-> u[DocKey(e)]] /\ t.ops = LogOf(u)
        /\ t.latestSeq = latestSeq(u) /\ t.watermark = u[Watermark]
    BY <1>5, <2>1, <2>3, TableFields
  <2>8. TableOf(u) = Fields([e \in DocId |-> u[DocKey(e)]], B, LogOf(u), latestSeq(u), u[Watermark])
    BY Zenon, TableIs
  <2>5. TableOf(u) = Fields(t.docs, B, t.ops, t.latestSeq, t.watermark) BY <2>7, <2>8
  <2>6. Whole(t) BY TableIs
  <2> HIDE DEF t, B
  <2> QED BY <2>4, <2>5, <2>6, ChangedBlob DEF t
<1> QED BY <1>1, <1>3, <1>5, <1>6, <1>7 DEF u, BlobPut

WatermarkPut(w, v, x) ==
  /\ DOMAIN w = {Watermark} /\ DOMAIN w \subseteq Key
  /\ Contents(w ++ v)
  /\ TableOf(w ++ v) = [TableOf(v) EXCEPT !.watermark = x]
  /\ \A n \in 1..MaxOps : (w ++ v)[OpKey(n)] = v[OpKey(n)]
  /\ (w ++ v)[Config] = v[Config]
  /\ \A e \in DocId : (w ++ v)[DocKey(e)] = v[DocKey(e)] /\ (w ++ v)[IdxKey(e)] = v[IdxKey(e)]

(* The watermark.                                                          *)
LEMMA WatermarkWritten ==
  ASSUME NEW v, Contents(v), NEW x \in Nat,
         NEW w, w = Cell(Watermark, x)
  PROVE  WatermarkPut(w, v, x)
<1> DEFINE u == w ++ v
<1>0. v = [k \in Key |-> v[k]] BY DEF Contents
<1>1. DOMAIN w = {Watermark} /\ w[Watermark] = x BY DEF Cell
<1>3. DOMAIN w \subseteq Key BY <1>1, KeysKnown
<1>4. /\ u = [k \in Key |-> u[k]]
      /\ \A k \in Key : u[k] = IF k \in DOMAIN w THEN w[k] ELSE v[k]
  BY <1>0, <1>3, Overwritten
<1> HIDE DEF u
<1>5. /\ \A e \in DocId : u[DocKey(e)] = v[DocKey(e)] /\ u[IdxKey(e)] = v[IdxKey(e)]
      /\ \A c \in BlobId : u[BlobKey(c)] = v[BlobKey(c)]
      /\ \A n \in 1..MaxOps : u[OpKey(n)] = v[OpKey(n)]
      /\ u[Config] = v[Config] /\ u[Watermark] = x
  BY <1>1, <1>4, KeysApart, KeysKnown
<1>6. Contents(u)
  <2>1. IndexOk(u) BY <1>5 DEF Contents, IndexOk
  <2>2. latestSeq(u) \in 0..MaxOps /\ Unbroken(u)
        /\ \A n \in 1..MaxOps : u[OpKey(n)] \in Entry \cup {Absent}
    BY <1>5, SameOps
  <2> QED BY <1>4, <1>5, <2>1, <2>2 DEF Contents
<1>7. TableOf(u) = [TableOf(v) EXCEPT !.watermark = x]
  <2>1. LogOf(u) = LogOf(v) /\ latestSeq(u) = latestSeq(v) BY <1>5, SameOps
  <2>2. [c \in BlobId |-> u[BlobKey(c)]] = [c \in BlobId |-> v[BlobKey(c)]] BY <1>5
  <2>3. [e \in DocId |-> u[DocKey(e)]] = [e \in DocId |-> v[DocKey(e)]] BY <1>5
  <2> DEFINE t == TableOf(v)
  <2>4. /\ t.docs = [e \in DocId |-> v[DocKey(e)]] /\ t.blobs = [c \in BlobId |-> v[BlobKey(c)]]
        /\ t.ops = LogOf(v) /\ t.latestSeq = latestSeq(v)
    BY TableFields
  <2>6. Whole(t) BY TableIs
  <2> HIDE DEF t
  <2>5. TableOf(u) = Fields(t.docs, t.blobs, t.ops, t.latestSeq, x)
    <3>1. TableOf(u) = Fields([e \in DocId |-> u[DocKey(e)]], [c \in BlobId |-> u[BlobKey(c)]],
                              LogOf(u), latestSeq(u), u[Watermark])
      BY TableIs
    <3> QED BY <1>5, <2>1, <2>2, <2>3, <2>4, <3>1
  <2> QED BY <2>5, <2>6, ChangedWatermark DEF t
<1> QED BY <1>1, <1>3, <1>5, <1>6, <1>7 DEF u, WatermarkPut

OpPut(w, v, n, e) ==
  /\ DOMAIN w = {OpKey(n)} /\ DOMAIN w \subseteq Key
  /\ Contents(w ++ v)
  /\ latestSeq(w ++ v) = n
  /\ TableOf(w ++ v) = Fields(TableOf(v).docs, TableOf(v).blobs, Append(TableOf(v).ops, e),
                              n, TableOf(v).watermark)
  /\ (w ++ v)[OpKey(n)] = e
  /\ \A m \in 1..MaxOps : m # n => (w ++ v)[OpKey(m)] = v[OpKey(m)]

(* An entry at the end of the log.                                         *)
LEMMA OpWritten ==
  ASSUME NEW v, Contents(v), NEW e \in Entry, Absent \notin Entry,
         NEW n \in Nat, n <= MaxOps, n = latestSeq(v) + 1,
         NEW w, w = Cell(OpKey(n), e)
  PROVE  OpPut(w, v, n, e)
<1> DEFINE u == w ++ v
<1>0. /\ v = [k \in Key |-> v[k]] /\ latestSeq(v) \in 0..MaxOps /\ MaxOps \in Nat
      /\ n \in 1..MaxOps /\ e # Absent
  BY SqlStengAssumption DEF Contents
<1>1. DOMAIN w = {OpKey(n)} /\ w[OpKey(n)] = e BY DEF Cell
<1>3. DOMAIN w \subseteq Key BY <1>0, <1>1, KeysKnown
<1>4. /\ u = [k \in Key |-> u[k]]
      /\ \A k \in Key : u[k] = IF k \in DOMAIN w THEN w[k] ELSE v[k]
  BY <1>0, <1>3, Overwritten
<1> HIDE DEF u
<1>5. /\ \A d \in DocId : u[DocKey(d)] = v[DocKey(d)] /\ u[IdxKey(d)] = v[IdxKey(d)]
      /\ \A b \in BlobId : u[BlobKey(b)] = v[BlobKey(b)]
      /\ \A m \in 1..MaxOps : u[OpKey(m)] = IF m = n THEN e ELSE v[OpKey(m)]
      /\ u[Config] = v[Config] /\ u[Watermark] = v[Watermark]
  BY <1>1, <1>4, KeysApart, KeysKnown
<1>6. latestSeq(u) = n /\ Unbroken(u)
  <2>1. \A m \in 1..MaxOps : u[OpKey(m)] # Absent <=> m <= n
    BY <1>0, <1>5 DEF Contents, Unbroken
  <2> QED BY <1>0, <2>1, LatestIs
<1>7. Contents(u)
  <2>1. IndexOk(u) BY <1>5 DEF Contents, IndexOk
  <2>2. \A m \in 1..MaxOps : u[OpKey(m)] \in Entry \cup {Absent} BY <1>5 DEF Contents
  <2>3. /\ \A d \in DocId : u[DocKey(d)] \in Doc
        /\ \A b \in BlobId : u[BlobKey(b)] \in Content \cup {Absent}
        /\ u[Watermark] \in Nat /\ u[Config] \in SUBSET IndexNames
    BY <1>5 DEF Contents
  <2>4. latestSeq(u) \in 0..MaxOps BY <1>0, <1>6
  <2> QED BY <1>4, <1>6, <2>1, <2>2, <2>3, <2>4 DEF Contents
<1>8. LogOf(u) = Append(LogOf(v), e)
  <2>1. /\ LogOf(v) \in Seq(Entry) /\ Len(LogOf(v)) = latestSeq(v)
        /\ \A m \in 1..latestSeq(v) : LogOf(v)[m] = v[OpKey(m)]
    BY LogIsSeq
  <2>2. /\ LogOf(u) \in Seq(Entry) /\ Len(LogOf(u)) = n
        /\ \A m \in 1..n : LogOf(u)[m] = u[OpKey(m)]
    BY <1>6, <1>7, LogIsSeq
  <2> DEFINE a == Append(LogOf(v), e)
  <2>3. a \in Seq(Entry) /\ Len(a) = n /\ \A m \in 1..n : a[m] = IF m = n THEN e ELSE LogOf(v)[m]
    BY <1>0, <2>1
  <2>4. ASSUME NEW m \in 1..n PROVE a[m] = LogOf(u)[m]
    <3>0. m \in 1..MaxOps BY <1>0
    <3>1. LogOf(u)[m] = IF m = n THEN e ELSE v[OpKey(m)]
      BY <3>0, <1>5, <2>2
    <3>2. CASE m = n BY <3>1, <3>2, <2>3
    <3>3. CASE m # n
      <4>1. m \in 1..latestSeq(v) BY <3>3, <1>0
      <4> QED BY <3>1, <3>3, <4>1, <2>1, <2>3
    <3> QED BY <3>2, <3>3
  <2> HIDE DEF a
  <2>5. a = LogOf(u) BY <2>2, <2>3, <2>4, SeqEqual
  <2> QED BY <2>5 DEF a
<1>9. TableOf(u) = Fields(TableOf(v).docs, TableOf(v).blobs, Append(TableOf(v).ops, e),
                          n, TableOf(v).watermark)
  <2>1. /\ [d \in DocId |-> u[DocKey(d)]] = TableOf(v).docs
        /\ [b \in BlobId |-> u[BlobKey(b)]] = TableOf(v).blobs
        /\ u[Watermark] = TableOf(v).watermark /\ TableOf(v).ops = LogOf(v)
    BY <1>5, TableFields
  <2>2. TableOf(u) = Fields([d \in DocId |-> u[DocKey(d)]], [b \in BlobId |-> u[BlobKey(b)]],
                            LogOf(u), latestSeq(u), u[Watermark])
    BY Zenon, TableIs
  <2> QED BY <1>6, <1>8, <2>1, <2>2
<1> QED BY <1>0, <1>1, <1>3, <1>5, <1>6, <1>7, <1>9 DEF u, OpPut

ClearPut(w, v) ==
  /\ DOMAIN w \subseteq Key
  /\ Contents(w ++ v)
  /\ TableOf(w ++ v) = NewTable /\ latestSeq(w ++ v) = 0
  /\ \A d \in DocId : (w ++ v)[DocKey(d)] = Absent
  /\ (w ++ v)[Config] = v[Config]

(* The reset of a table.                                                   *)
LEMMA ClearWritten ==
  ASSUME NEW v, Contents(v), Absent \notin Nat,
         NEW w, w = Clear(v)
  PROVE  ClearPut(w, v)
<1> DEFINE u == w ++ v
<1>0. v = [k \in Key |-> v[k]] /\ v[Watermark] # Absent BY DEF Contents
<1>1. /\ DOMAIN w = {k \in Key \ {Config} : v[k] # Absent}
      /\ \A k \in DOMAIN w : w[k] = IF k = Watermark THEN 0 ELSE Absent
  BY DEF Clear
<1>3. DOMAIN w \subseteq Key BY <1>1
<1>4. /\ u = [k \in Key |-> u[k]]
      /\ \A k \in Key : u[k] = IF k \in DOMAIN w THEN w[k] ELSE v[k]
  BY <1>0, <1>3, Overwritten
<1> HIDE DEF u
<1>5. \A k \in Key : u[k] = IF k = Config THEN v[k] ELSE IF k = Watermark THEN 0 ELSE Absent
  BY <1>0, <1>1, <1>4, KeysApart
<1>6. /\ \A d \in DocId : u[DocKey(d)] = Absent /\ u[IdxKey(d)] = Absent
      /\ \A b \in BlobId : u[BlobKey(b)] = Absent
      /\ \A m \in 1..MaxOps : u[OpKey(m)] = Absent
      /\ u[Config] = v[Config] /\ u[Watermark] = 0
  BY <1>5, KeysApart, KeysKnown
<1>7. latestSeq(u) = 0 /\ Unbroken(u)
  <2>1. \A n \in 1..MaxOps : u[OpKey(n)] # Absent <=> n <= 0 BY <1>6
  <2>2. 0 \in 0..MaxOps BY SqlStengAssumption
  <2> QED BY <2>1, <2>2, LatestIs
<1>8. Contents(u) BY <1>4, <1>6, <1>7, SqlStengAssumption DEF Contents, IndexOk, Doc
<1>9. TableOf(u) = NewTable
  <2>1. LogOf(u) = <<>> BY <1>7 DEF LogOf
  <2>2. [d \in DocId |-> u[DocKey(d)]] = [d \in DocId |-> Absent]
        /\ [b \in BlobId |-> u[BlobKey(b)]] = [b \in BlobId |-> Absent]
    BY <1>6
  <2>3. TableOf(u) = Fields([d \in DocId |-> u[DocKey(d)]], [b \in BlobId |-> u[BlobKey(b)]],
                            LogOf(u), latestSeq(u), u[Watermark])
    BY Zenon, TableIs
  <2>4. TableOf(u) = Fields([d \in DocId |-> Absent], [b \in BlobId |-> Absent], <<>>, 0, 0)
    BY <1>6, <1>7, <2>1, <2>2, <2>3
  <2> QED BY <2>4, Zenon DEF Fields, NewTable
<1> QED BY <1>3, <1>6, <1>7, <1>8, <1>9 DEF u, ClearPut

ConfigPut(w, v, c, rebuild) ==
  /\ DOMAIN w \subseteq Key
  /\ Contents(w ++ v)
  /\ TableOf(w ++ v) = TableOf(v)
  /\ \A n \in 1..MaxOps : OpKey(n) \notin DOMAIN w /\ (w ++ v)[OpKey(n)] = v[OpKey(n)]
  /\ (w ++ v)[Config] = c
  /\ \A d \in DocId :
       /\ (w ++ v)[DocKey(d)] = v[DocKey(d)]
       /\ (w ++ v)[IdxKey(d)] = IF rebuild /\ v[DocKey(d)] \notin {Absent, Dead}
                                THEN Indexed(c, v[DocKey(d)]) ELSE Absent

(* A configuration, with the index entries it makes.                       *)
LEMMA ConfigWritten ==
  ASSUME NEW v, Contents(v), NEW c \in SUBSET IndexNames, NEW rebuild \in BOOLEAN,
         NEW w, w = Reconfigure(v, c, rebuild)
  PROVE  ConfigPut(w, v, c, rebuild)
<1> DEFINE u == w ++ v
<1>0. v = [k \in Key |-> v[k]] BY DEF Contents
<1>1. /\ DOMAIN w = {Config} \cup {IdxKey(d) : d \in DocId}
      /\ w[Config] = c
      /\ \A d \in DocId : w[IdxKey(d)] = IF rebuild /\ v[DocKey(d)] \notin {Absent, Dead}
                                          THEN Indexed(c, v[DocKey(d)]) ELSE Absent
  BY KeysApart DEF Reconfigure
<1>3. DOMAIN w \subseteq Key BY <1>1, KeysKnown
<1>4. /\ u = [k \in Key |-> u[k]]
      /\ \A k \in Key : u[k] = IF k \in DOMAIN w THEN w[k] ELSE v[k]
  BY <1>0, <1>3, Overwritten
<1> HIDE DEF u
<1>2. /\ \A d \in DocId : DocKey(d) \notin DOMAIN w /\ IdxKey(d) \in DOMAIN w
      /\ \A b \in BlobId : BlobKey(b) \notin DOMAIN w
      /\ \A n \in 1..MaxOps : OpKey(n) \notin DOMAIN w
      /\ Config \in DOMAIN w /\ Watermark \notin DOMAIN w
  BY <1>1, KeysApart
<1>5. /\ \A d \in DocId : /\ u[DocKey(d)] = v[DocKey(d)]
                          /\ u[IdxKey(d)] = IF rebuild /\ v[DocKey(d)] \notin {Absent, Dead}
                                            THEN Indexed(c, v[DocKey(d)]) ELSE Absent
      /\ \A b \in BlobId : u[BlobKey(b)] = v[BlobKey(b)]
      /\ \A n \in 1..MaxOps : u[OpKey(n)] = v[OpKey(n)]
      /\ u[Config] = c /\ u[Watermark] = v[Watermark]
  BY <1>1, <1>2, <1>4, KeysKnown
<1>6. Contents(u)
  <2>1. IndexOk(u)
    <3>1. SUFFICES ASSUME NEW d \in DocId, u[IdxKey(d)] # Absent
                   PROVE  u[DocKey(d)] \notin {Absent, Dead} /\ u[IdxKey(d)][2] = u[DocKey(d)]
      BY Zenon DEF IndexOk
    <3>2. v[DocKey(d)] \notin {Absent, Dead} /\ u[IdxKey(d)] = Indexed(c, v[DocKey(d)])
      BY <3>1, <1>5
    <3>3. u[IdxKey(d)] = <<c, v[DocKey(d)]>> BY <3>1, <3>2 DEF Indexed
    <3> QED BY <3>2, <3>3, <1>5
  <2>2. latestSeq(u) \in 0..MaxOps /\ Unbroken(u)
        /\ \A n \in 1..MaxOps : u[OpKey(n)] \in Entry \cup {Absent}
    BY <1>5, SameOps
  <2> QED BY <1>4, <1>5, <2>1, <2>2 DEF Contents
<1>7. TableOf(u) = TableOf(v)
  <2>1. LogOf(u) = LogOf(v) /\ latestSeq(u) = latestSeq(v) BY <1>5, SameOps
  <2>2. [d \in DocId |-> u[DocKey(d)]] = [d \in DocId |-> v[DocKey(d)]]
        /\ [b \in BlobId |-> u[BlobKey(b)]] = [b \in BlobId |-> v[BlobKey(b)]]
    BY <1>5
  <2> QED BY <1>5, <2>1, <2>2 DEF TableOf
<1> QED BY <1>2, <1>3, <1>5, <1>6, <1>7 DEF u, ConfigPut

-----------------------------------------------------------------------------
(* A call between two statements: x is the database, b what is committed,  *)
(* o what the call wrote, at where it stands, rs and ss the rows and the   *)
(* statements left, g what it read, l the last number, dn the rows done.   *)

LeftOf(r) ==
  CASE r.kind \in {"add", "replace", "blob_add", "blob_del"} ->
         {<<"write", "seq", "log">>, <<"seq", "log">>, <<"log">>}
    [] r.kind \in {"update", "delete", "doc", "blob"} ->
         {<<"read", "write", "seq", "log">>, <<"write", "seq", "log">>, <<"seq", "log">>,
          <<"log">>}
    [] r.kind \in {"clear", "config", "restore"} -> {<<"write">>}
    [] r.kind \in {"cutoff", "merge"} -> {<<"read", "write">>, <<"write">>}
    [] r.kind = "latest" -> {<<"seq">>}
    [] r.kind = "apply" ->
         IF r.payload.op_type \in {"UPDATE", "DELETE"}
         THEN {<<"check", "read", "write", "log">>, <<"read", "write", "log">>,
               <<"write", "log">>, <<"log">>}
         ELSE {<<"check", "write", "log">>, <<"write", "log">>, <<"log">>}

Staged(rs, ss) ==
  /\ rs \in Seq(Rows)
  /\ IF rs = <<>> THEN ss = <<>> ELSE ss \in LeftOf(Head(rs))

(* What is left is in order.                                               *)
LeftInOrder(x, o, at, rs, l, dn) ==
  \A i \in DOMAIN rs :
    /\ rs[i].kind \in {"clear", "config"} => x = "sqlite"
    /\ rs[i].kind = "clear" => i = 1 /\ o = Nothing /\ l = 0 /\ dn = <<>>
    /\ rs[i].kind = "apply" =>
         /\ \A j \in DOMAIN rs : rs[j].kind = "apply" \/ (j = 1 /\ rs[j].kind = "latest")
         /\ rs[1].kind = "apply" => at = "open"

(* What was read before a write is there.                                  *)
ReadOk(rs, ss, g) ==
  rs # <<>> /\ Head(ss) = "write" =>
    LET r == Head(rs) IN
    /\ r.kind = "update" => g \in Value
    /\ r.kind \in {"merge", "cutoff"} => g \in Nat
    /\ r.kind = "apply" /\ r.payload.op_type = "UPDATE" => g \in Value

(* An entry that was checked is the next one.                              *)
OpOk(rs, ss, l) ==
  rs # <<>> /\ Head(rs).kind = "apply" /\ Head(ss) # "check" =>
    Head(rs).payload.op_seq = l + 1

Ready(x, o, at, rs, ss, g, l, dn) ==
  /\ at \in {"idle", "called", "open", "get"}
  /\ at # "open" => o = Nothing /\ l = 0 /\ dn = <<>>
  /\ at \in {"idle", "get"} => rs = <<>>
  /\ Staged(rs, ss)
  /\ LeftInOrder(x, o, at, rs, l, dn)
  /\ ReadOk(rs, ss, g)
  /\ OpOk(rs, ss, l)

Plain == {"add", "replace", "update", "delete", "blob_add", "blob_del", "doc", "blob"}
Short == {"clear", "config", "restore", "merge", "cutoff"}

(* The statements of a row, one after the other.                           *)
LEMMA LeftFacts ==
  ASSUME NEW r \in Rows, NEW ss \in LeftOf(r)
  PROVE  /\ ss # <<>> /\ Len(ss) \in Nat /\ Head(ss) \in {"read", "check", "write", "seq", "log"}
         /\ Len(ss) # 1 => Tail(ss) \in LeftOf(r)
         /\ Head(ss) = "read" => /\ Len(ss) # 1 /\ Head(Tail(ss)) = "write"
                                 /\ r.kind \in {"update", "delete", "doc", "blob", "cutoff",
                                                "merge", "apply"}
                                 /\ r.kind = "apply" => r.payload.op_type \in {"UPDATE", "DELETE"}
         /\ Head(ss) = "check" => /\ Len(ss) # 1 /\ r.kind = "apply"
                                  /\ Head(Tail(ss)) \in {"read", "write"}
                                  /\ Head(Tail(ss)) = "write" =>
                                       r.payload.op_type \notin {"UPDATE", "DELETE"}
         /\ Head(ss) = "write" => /\ r.kind # "latest"
                                  /\ Len(ss) = 1 <=> r.kind \in Short
                                  /\ r.kind \in Plain => Head(Tail(ss)) = "seq"
                                  /\ r.kind = "apply" => Head(Tail(ss)) = "log"
         /\ Head(ss) = "seq" => /\ Len(ss) = 1 <=> r.kind = "latest"
                                /\ Len(ss) # 1 => r.kind \in Plain /\ Head(Tail(ss)) = "log"
         /\ Head(ss) = "log" => Len(ss) = 1 /\ r.kind \in Plain \cup {"apply"}
         /\ r.kind \in Short => Head(ss) \in {"read", "write"}
<1>0. r.kind \in Kinds BY DEF Rows
<1>1. CASE r.kind \in {"add", "replace", "blob_add", "blob_del"}
  <2>1. ss \in {<<"write", "seq", "log">>, <<"seq", "log">>, <<"log">>} BY <1>1 DEF LeftOf
  <2>2. CASE ss = <<"write", "seq", "log">>
    BY <1>1, <2>1, <2>2 DEF LeftOf, Plain, Short
  <2>3. CASE ss = <<"seq", "log">> BY <1>1, <2>1, <2>3 DEF LeftOf, Plain, Short
  <2>4. CASE ss = <<"log">> BY <1>1, <2>1, <2>4 DEF LeftOf, Plain, Short
  <2> QED BY <2>1, <2>2, <2>3, <2>4
<1>2. CASE r.kind \in {"update", "delete", "doc", "blob"}
  <2>1. ss \in {<<"read", "write", "seq", "log">>, <<"write", "seq", "log">>, <<"seq", "log">>,
                <<"log">>}
    BY <1>2 DEF LeftOf
  <2>2. CASE ss = <<"read", "write", "seq", "log">> BY <1>2, <2>1, <2>2 DEF LeftOf, Plain, Short
  <2>3. CASE ss = <<"write", "seq", "log">> BY <1>2, <2>1, <2>3 DEF LeftOf, Plain, Short
  <2>4. CASE ss = <<"seq", "log">> BY <1>2, <2>1, <2>4 DEF LeftOf, Plain, Short
  <2>5. CASE ss = <<"log">> BY <1>2, <2>1, <2>5 DEF LeftOf, Plain, Short
  <2> QED BY <2>1, <2>2, <2>3, <2>4, <2>5
<1>3. CASE r.kind \in {"clear", "config", "restore"}
  <2>1. ss = <<"write">> BY <1>3 DEF LeftOf
  <2> QED BY <1>3, <2>1 DEF Plain, Short
<1>4. CASE r.kind \in {"cutoff", "merge"}
  <2>1. ss \in {<<"read", "write">>, <<"write">>} BY <1>4 DEF LeftOf
  <2>2. CASE ss = <<"read", "write">> BY <1>4, <2>1, <2>2 DEF LeftOf, Plain, Short
  <2>3. CASE ss = <<"write">> BY <1>4, <2>1, <2>3 DEF LeftOf, Plain, Short
  <2> QED BY <2>1, <2>2, <2>3
<1>5. CASE r.kind = "latest"
  <2>1. ss = <<"seq">> BY <1>5 DEF LeftOf
  <2> QED BY <1>5, <2>1 DEF Plain, Short
<1>6. CASE r.kind = "apply" /\ r.payload.op_type \in {"UPDATE", "DELETE"}
  <2>1. ss \in {<<"check", "read", "write", "log">>, <<"read", "write", "log">>,
                <<"write", "log">>, <<"log">>}
    BY <1>6 DEF LeftOf
  <2>2. CASE ss = <<"check", "read", "write", "log">>
    BY <1>6, <2>1, <2>2 DEF LeftOf, Plain, Short
  <2>3. CASE ss = <<"read", "write", "log">> BY <1>6, <2>1, <2>3 DEF LeftOf, Plain, Short
  <2>4. CASE ss = <<"write", "log">> BY <1>6, <2>1, <2>4 DEF LeftOf, Plain, Short
  <2>5. CASE ss = <<"log">> BY <1>6, <2>1, <2>5 DEF LeftOf, Plain, Short
  <2> QED BY <2>1, <2>2, <2>3, <2>4, <2>5
<1>7. CASE r.kind = "apply" /\ r.payload.op_type \notin {"UPDATE", "DELETE"}
  <2>1. ss \in {<<"check", "write", "log">>, <<"write", "log">>, <<"log">>}
    BY <1>7 DEF LeftOf
  <2>2. CASE ss = <<"check", "write", "log">> BY <1>7, <2>1, <2>2 DEF LeftOf, Plain, Short
  <2>3. CASE ss = <<"write", "log">> BY <1>7, <2>1, <2>3 DEF LeftOf, Plain, Short
  <2>4. CASE ss = <<"log">> BY <1>7, <2>1, <2>4 DEF LeftOf, Plain, Short
  <2> QED BY <2>1, <2>2, <2>3, <2>4
<1> QED BY <1>0, <1>1, <1>2, <1>3, <1>4, <1>5, <1>6, <1>7 DEF Kinds

(* The first statement of a row.                                           *)
LEMMA FirstStage ==
  ASSUME NEW r \in Rows
  PROVE  /\ Stages(r) \in LeftOf(r)
         /\ Head(Stages(r)) \in {"read", "check", "write", "seq"}
         /\ Head(Stages(r)) = "write" =>
              r.kind \in {"add", "replace", "blob_add", "blob_del", "clear", "config", "restore"}
         /\ Head(Stages(r)) = "seq" => r.kind = "latest"
         /\ r.kind = "apply" => Head(Stages(r)) = "check"
<1>0. r.kind \in Kinds BY DEF Rows
<1>1. CASE r.kind \in {"add", "replace", "blob_add", "blob_del"}
  <2>1. Stages(r) = <<"write", "seq", "log">> BY <1>1 DEF Stages
  <2> QED BY <1>1, <2>1 DEF LeftOf
<1>2. CASE r.kind \in {"update", "delete", "doc", "blob"}
  <2>1. Stages(r) = <<"read", "write", "seq", "log">> BY <1>2 DEF Stages
  <2> QED BY <1>2, <2>1 DEF LeftOf
<1>3. CASE r.kind \in {"clear", "config", "restore"}
  <2>1. Stages(r) = <<"write">> BY <1>3 DEF Stages
  <2> QED BY <1>3, <2>1 DEF LeftOf
<1>4. CASE r.kind \in {"cutoff", "merge"}
  <2>1. Stages(r) = <<"read", "write">> BY <1>4 DEF Stages
  <2> QED BY <1>4, <2>1 DEF LeftOf
<1>5. CASE r.kind = "latest"
  <2>1. Stages(r) = <<"seq">> BY <1>5 DEF Stages
  <2> QED BY <1>5, <2>1 DEF LeftOf
<1>6. CASE r.kind = "apply" /\ r.payload.op_type \in {"UPDATE", "DELETE"}
  <2>1. Stages(r) = <<"check", "read", "write", "log">> BY <1>6 DEF Stages
  <2> QED BY <1>6, <2>1 DEF LeftOf
<1>7. CASE r.kind = "apply" /\ r.payload.op_type \notin {"UPDATE", "DELETE"}
  <2>1. Stages(r) = <<"check", "write", "log">> BY <1>7 DEF Stages
  <2> QED BY <1>7, <2>1 DEF LeftOf
<1> QED BY <1>0, <1>1, <1>2, <1>3, <1>4, <1>5, <1>6, <1>7 DEF Kinds

(* A call that has nothing left.                                           *)
LEMMA ReadyIdle ==
  ASSUME NEW x, NEW g, NEW at \in {"idle", "get"}
  PROVE  Ready(x, Nothing, at, <<>>, <<>>, g, 0, <<>>)
BY DEF Ready, Staged, LeftInOrder, ReadOk, OpOk

(* A call that arrives is ready.                                           *)
LEMMA ReadyCalled ==
  ASSUME NEW x, NEW g, NEW rs \in Seq(Rows), InOrder(x, rs)
  PROVE  Ready(x, Nothing, "called", rs, StagesOf(rs), g, 0, <<>>)
<1>1. CASE rs = <<>> BY <1>1 DEF Ready, Staged, LeftInOrder, ReadOk, OpOk, StagesOf
<1>2. CASE rs # <<>>
  <2>1. Head(rs) \in Rows /\ rs[1] = Head(rs) /\ 1 \in DOMAIN rs /\ DOMAIN rs = 1..Len(rs)
    BY <1>2
  <2>2. StagesOf(rs) = Stages(Head(rs)) BY <1>2 DEF StagesOf
  <2>3. Staged(rs, StagesOf(rs)) BY <1>2, <2>1, <2>2, FirstStage DEF Staged
  <2>4. LeftInOrder(x, Nothing, "called", rs, 0, <<>>)
    BY <2>1 DEF LeftInOrder, InOrder
  <2>5. ReadOk(rs, StagesOf(rs), g) /\ OpOk(rs, StagesOf(rs), 0)
    BY <2>1, <2>2, FirstStage DEF ReadOk, OpOk
  <2> QED BY <2>3, <2>4, <2>5, <1>2 DEF Ready
<1> QED BY <1>1, <1>2

(* It is as ready when its transaction begins.                             *)
LEMMA ReadyOpen ==
  ASSUME NEW x, NEW o, NEW rs, NEW ss, NEW g, NEW l, NEW dn,
         Ready(x, o, "called", rs, ss, g, l, dn)
  PROVE  Ready(x, o, "open", rs, ss, g, l, dn)
BY DEF Ready, LeftInOrder

(* The next row.                                                           *)
LEMMA ReadyNext ==
  ASSUME NEW x, NEW o, NEW rs, NEW ss, NEW g, NEW l, NEW dn,
         Ready(x, o, "open", rs, ss, g, l, dn), rs # <<>>,
         NEW o2, NEW g2, NEW l2, NEW dn2
  PROVE  Ready(x, o2, "open", Tail(rs), StagesOf(Tail(rs)), g2, l2, dn2)
<1> DEFINE ts == Tail(rs)
<1>1. /\ rs \in Seq(Rows) /\ ts \in Seq(Rows) /\ Len(rs) > 0 /\ Len(ts) = Len(rs) - 1
      /\ \A i \in 1..Len(ts) : ts[i] = rs[i + 1]
  BY DEF Ready, Staged
<1>2. DOMAIN rs = 1..Len(rs) /\ DOMAIN ts = 1..Len(ts) BY <1>1
<1>3. \A i \in DOMAIN ts : i + 1 \in DOMAIN rs /\ i + 1 # 1 /\ ts[i] = rs[i + 1] BY <1>1, <1>2
<1>4. LeftInOrder(x, o, "open", rs, l, dn) BY DEF Ready
<1> HIDE DEF ts
<1>5. LeftInOrder(x, o2, "open", ts, l2, dn2)
  <2>1. SUFFICES ASSUME NEW i \in DOMAIN ts
                 PROVE  /\ ts[i].kind \in {"clear", "config"} => x = "sqlite"
                        /\ ts[i].kind # "clear"
                        /\ ts[i].kind = "apply" => \A j \in DOMAIN ts : ts[j].kind = "apply"
    BY DEF LeftInOrder
  <2> QED BY <1>3, <1>4 DEF LeftInOrder
<1>6. CASE ts = <<>> BY <1>1, <1>5, <1>6 DEF Ready, Staged, ReadOk, OpOk, StagesOf, ts
<1>7. CASE ts # <<>>
  <2>1. Head(ts) \in Rows BY <1>1, <1>7
  <2>2. StagesOf(ts) = Stages(Head(ts)) BY <1>7 DEF StagesOf
  <2>3. Staged(ts, StagesOf(ts)) BY <1>1, <1>7, <2>1, <2>2, FirstStage DEF Staged
  <2>5. ReadOk(ts, StagesOf(ts), g2) /\ OpOk(ts, StagesOf(ts), l2)
    BY <2>1, <2>2, FirstStage DEF ReadOk, OpOk
  <2> QED BY <1>5, <2>3, <2>5 DEF Ready, ts
<1> QED BY <1>6, <1>7

(* The next statement of the row.                                          *)
LEMMA ReadyStay ==
  ASSUME NEW x, NEW o, NEW rs, NEW ss, NEW g, NEW l, NEW dn,
         Ready(x, o, "open", rs, ss, g, l, dn), rs # <<>>, Len(ss) # 1,
         NEW o2, NEW g2, NEW l2, NEW dn2,
         ReadOk(rs, Tail(ss), g2), OpOk(rs, Tail(ss), l2)
  PROVE  Ready(x, o2, "open", rs, Tail(ss), g2, l2, dn2)
<1>1. /\ rs \in Seq(Rows) /\ Head(rs) \in Rows /\ Head(rs) = rs[1] /\ ss \in LeftOf(Head(rs))
  BY DEF Ready, Staged
<1>2. Head(rs).kind # "clear"
  <2>1. ASSUME Head(rs).kind = "clear" PROVE FALSE
    <3>1. ss = <<"write">> BY <1>1, <2>1 DEF LeftOf
    <3> QED BY <3>1
  <2> QED BY <2>1
<1>3. LeftInOrder(x, o2, "open", rs, l2, dn2) BY <1>1, <1>2 DEF Ready, LeftInOrder
<1>4. Staged(rs, Tail(ss)) BY <1>1, LeftFacts DEF Staged
<1> QED BY <1>3, <1>4 DEF Ready

-----------------------------------------------------------------------------
(* What a call wrote.                                                      *)

Cleared(dn) == \E i \in DOMAIN dn : dn[i].kind = "clear"
Base(b, dn) == IF Cleared(dn) THEN 0 ELSE latestSeq(b)

(* The keys a call holds: of the log those of its own entries, and of a    *)
(* document on Postgres that of its index entry too.                       *)
Held(x, b, o, dn) ==
  /\ DOMAIN o \subseteq Key
  /\ ~Cleared(dn) => \A n \in 1..MaxOps :
       OpKey(n) \in DOMAIN o <=> latestSeq(b) < n /\ n <= latestSeq(o ++ b)
  /\ x = "postgres" => /\ ~Cleared(dn)
                       /\ \A d \in DocId : DocKey(d) \in DOMAIN o => IdxKey(d) \in DOMAIN o

IdOf(r) == IF r.kind = "apply" THEN r.payload.id ELSE r.id

(* The entries it added are those of the rows that are done.               *)
Counted(b, o, dn) ==
  /\ dn \in Seq(Rows) /\ Entries(dn) \in Seq(Rows)
  /\ latestSeq(o ++ b) = Base(b, dn) + Len(Entries(dn))
  /\ \A i \in 1..Len(Entries(dn)) :
       (o ++ b)[OpKey(Base(b, dn) + i)].id = IdOf(Entries(dn)[i])

Owns(x, b, o, l, dn) ==
  /\ Contents(o ++ b)
  /\ l \in Nat /\ l <= latestSeq(o ++ b)
  /\ Held(x, b, o, dn)
  /\ Counted(b, o, dn)

Kept == INSTANCE FoldProofs WITH Op <- Keep

(* The rows with entries are those found by a loop over all of them.       *)
LEMMA EntriesFold ==
  ASSUME NEW dn PROVE Entries(dn) = Kept!Fold(<<>>, dn)
BY DEF Entries, FoldLeft, MapThenFoldSet, Max,
       Kept!Fold, Kept!FoldLeft, Kept!MapThenFoldSet, Kept!Max

(* No rows have no entries; one more row has one more, or none.            *)
LEMMA EntriesNext ==
  ASSUME NEW dn \in Seq(Rows), NEW r \in Rows
  PROVE  /\ Entries(<<>>) = <<>>
         /\ Entries(Append(dn, r)) = IF Adds(r) THEN Append(Entries(dn), r) ELSE Entries(dn)
<1>1. Entries(<<>>) = <<>> BY EntriesFold, Kept!FoldEmpty
<1>2. Kept!Fold(<<>>, Append(dn, r)) = Keep(Kept!Fold(<<>>, dn), r) BY Kept!FoldAppend
<1>3. Entries(Append(dn, r)) = Keep(Entries(dn), r) BY <1>2, EntriesFold
<1> QED BY <1>1, <1>3 DEF Keep

(* A table is cleared by a clear.                                          *)
LEMMA ClearedNext ==
  ASSUME NEW dn \in Seq(Rows), NEW r \in Rows
  PROVE  /\ ~Cleared(<<>>)
         /\ Cleared(Append(dn, r)) <=> Cleared(dn) \/ r.kind = "clear"
<1>1. ~Cleared(<<>>) BY DEF Cleared
<1> DEFINE a == Append(dn, r)
<1>2. /\ DOMAIN dn = 1..Len(dn) /\ DOMAIN a = 1..(Len(dn) + 1) /\ Len(dn) \in Nat
      /\ \A i \in 1..Len(dn) : a[i] = dn[i]
      /\ a[Len(dn) + 1] = r
  OBVIOUS
<1> HIDE DEF a
<1>3. Cleared(a) <=> Cleared(dn) \/ r.kind = "clear"
  <2>1. ASSUME Cleared(a), ~Cleared(dn) PROVE r.kind = "clear"
    <3>1. PICK i \in DOMAIN a : a[i].kind = "clear" BY <2>1 DEF Cleared
    <3>2. i \notin DOMAIN dn BY <3>1, <1>2, <2>1 DEF Cleared
    <3>3. i = Len(dn) + 1 BY <3>1, <3>2, <1>2
    <3> QED BY <3>1, <3>3, <1>2
  <2>2. ASSUME Cleared(dn) PROVE Cleared(a)
    <3>1. PICK i \in DOMAIN dn : dn[i].kind = "clear" BY <2>2 DEF Cleared
    <3>2. i \in DOMAIN a /\ a[i].kind = "clear" BY <3>1, <1>2
    <3> QED BY <3>2 DEF Cleared
  <2>3. ASSUME r.kind = "clear" PROVE Cleared(a)
    <3>1. Len(dn) + 1 \in DOMAIN a /\ a[Len(dn) + 1].kind = "clear" BY <2>3, <1>2
    <3> QED BY <3>1 DEF Cleared
  <2> QED BY <2>1, <2>2, <2>3
<1> QED BY <1>1, <1>3 DEF a

(* A call that has written nothing yet.                                    *)
LEMMA OwnsNothing ==
  ASSUME NEW x, NEW b, Contents(b)
  PROVE  Owns(x, b, Nothing, 0, <<>>)
<1>1. Nothing ++ b = b /\ DOMAIN Nothing = {} BY NothingWritten DEF Contents
<1>2. ~Cleared(<<>>) /\ Base(b, <<>>) = latestSeq(b) BY DEF Cleared, Base
<1>3. Entries(<<>>) = <<>> BY EntriesFold, Kept!FoldEmpty
<1>4. latestSeq(b) \in Nat BY SqlStengAssumption DEF Contents
<1>5. Held(x, b, Nothing, <<>>) BY <1>1, <1>2, <1>4, SqlStengAssumption DEF Held
<1>6. Counted(b, Nothing, <<>>)
  <2>4. <<>> \in Seq(Rows) /\ Len(<<>>) = 0 OBVIOUS
  <2>1. <<>> \in Seq(Rows) /\ Entries(<<>>) \in Seq(Rows) /\ Len(Entries(<<>>)) = 0
    BY <1>3, <2>4
  <2>2. latestSeq(Nothing ++ b) = Base(b, <<>>) + Len(Entries(<<>>))
    BY <1>1, <1>2, <1>4, <2>1
  <2>3. 1..Len(Entries(<<>>)) = {} BY <2>1
  <2> QED BY <2>1, <2>2, <2>3, Zenon DEF Counted
<1> QED BY <1>1, <1>4, <1>5, <1>6 DEF Owns

(* The last number it knows of.                                            *)
LEMMA OwnsLast ==
  ASSUME NEW x, NEW b, NEW o, NEW l, NEW dn, Owns(x, b, o, l, dn),
         NEW n \in Nat, n <= latestSeq(o ++ b)
  PROVE  Owns(x, b, o, n, dn)
BY DEF Owns

(* A row that is done and added no entry.                                  *)
LEMMA OwnsDone ==
  ASSUME NEW x, NEW b, NEW o, NEW l, NEW dn, Owns(x, b, o, l, dn),
         NEW r \in Rows, ~Adds(r), r.kind # "clear"
  PROVE  Owns(x, b, o, l, Append(dn, r))
<1>1. dn \in Seq(Rows) BY DEF Owns, Counted
<1>2. Entries(Append(dn, r)) = Entries(dn) /\ Append(dn, r) \in Seq(Rows) BY <1>1, EntriesNext
<1>3. (Cleared(Append(dn, r)) <=> Cleared(dn)) /\ Base(b, Append(dn, r)) = Base(b, dn)
  BY <1>1, ClearedNext DEF Base
<1>4. Held(x, b, o, Append(dn, r)) BY <1>3 DEF Owns, Held
<1>5. Counted(b, o, Append(dn, r)) BY <1>2, <1>3 DEF Owns, Counted
<1> QED BY <1>4, <1>5 DEF Owns

(* What it writes outside the log.                                         *)
LEMMA OwnsOver ==
  ASSUME NEW x, NEW b, Contents(b), NEW o, NEW l, NEW dn, Owns(x, b, o, l, dn),
         NEW w, DOMAIN w \subseteq Key, Contents(w ++ (o ++ b)),
         \A n \in 1..MaxOps : /\ OpKey(n) \notin DOMAIN w
                              /\ (w ++ (o ++ b))[OpKey(n)] = (o ++ b)[OpKey(n)],
         x = "postgres" => \A d \in DocId : DocKey(d) \in DOMAIN w => IdxKey(d) \in DOMAIN w
  PROVE  Owns(x, b, w ++ o, l, dn)
<1> DEFINE v == o ++ b
           u == w ++ v
<1>1. (w ++ o) ++ b = u /\ DOMAIN (w ++ o) = DOMAIN w \cup DOMAIN o
  BY WrittenTwice DEF Owns, Held, Contents
<1>2. Contents(v) /\ Contents(u) BY DEF Owns
<1>3. latestSeq(u) = latestSeq(v) /\ \A n \in 1..MaxOps : u[OpKey(n)] = v[OpKey(n)]
  BY <1>2, SameOps
<1>4. Held(x, b, w ++ o, dn)
  <2>1. DOMAIN (w ++ o) \subseteq Key BY <1>1 DEF Owns, Held
  <2>2. \A n \in 1..MaxOps : OpKey(n) \in DOMAIN (w ++ o) <=> OpKey(n) \in DOMAIN o BY <1>1
  <2>3. x = "postgres" => \A d \in DocId : DocKey(d) \in DOMAIN (w ++ o) => IdxKey(d) \in DOMAIN (w ++ o)
    BY <1>1 DEF Owns, Held
  <2> HIDE DEF u, v
  <2> QED BY <1>1, <1>3, <2>1, <2>2, <2>3 DEF Owns, Held, v
<1>5. Counted(b, w ++ o, dn)
  <2>1. latestSeq(v) \in 0..MaxOps /\ latestSeq(b) \in 0..MaxOps BY <1>2 DEF Contents
  <2>2. Len(Entries(dn)) \in Nat /\ latestSeq(v) = Base(b, dn) + Len(Entries(dn))
    BY DEF Owns, Counted
  <2>3. Base(b, dn) \in 0..MaxOps BY <2>1, SqlStengAssumption DEF Base
  <2>4. \A i \in 1..Len(Entries(dn)) : Base(b, dn) + i \in 1..MaxOps
    BY <2>1, <2>2, <2>3, SqlStengAssumption
  <2>5. \A i \in 1..Len(Entries(dn)) : u[OpKey(Base(b, dn) + i)].id = IdOf(Entries(dn)[i])
    <3> HIDE DEF u
    <3> QED BY <1>3, <2>4 DEF Owns, Counted
  <2> HIDE DEF u, v
  <2> QED BY <1>1, <1>3, <2>2, <2>5 DEF Owns, Counted
<1> QED BY <1>1, <1>2, <1>3, <1>4, <1>5 DEF Owns

(* The reset, which is the first row of its call.                          *)
LEMMA OwnsClear ==
  ASSUME NEW b, Contents(b), NEW r \in Rows, r.kind = "clear", Absent \notin Nat
  PROVE  Owns("sqlite", b, Clear(Nothing ++ b) ++ Nothing, 0, Append(<<>>, r))
<1> DEFINE w == Clear(Nothing ++ b)
           dn == Append(<<>>, r)
<1>1. Nothing ++ b = b /\ DOMAIN Nothing = {} BY NothingWritten DEF Contents
<1>2. /\ DOMAIN w \subseteq Key /\ Contents(w ++ b) /\ latestSeq(w ++ b) = 0
  BY <1>1, ClearWritten DEF ClearPut
<1> HIDE DEF w
<1>3. (w ++ Nothing) ++ b = w ++ b /\ DOMAIN (w ++ Nothing) = DOMAIN w
  <2>1. b = [k \in Key |-> b[k]] /\ DOMAIN Nothing \subseteq Key BY <1>1 DEF Contents
  <2>2. /\ (w ++ Nothing) ++ b = w ++ (Nothing ++ b)
        /\ DOMAIN (w ++ Nothing) = DOMAIN w \cup DOMAIN Nothing
    BY <1>2, <2>1, WrittenTwice
  <2> QED BY <1>1, <2>2
<1>4. <<>> \in Seq(Rows) /\ dn \in Seq(Rows) OBVIOUS
<1>5. Cleared(dn) /\ Entries(dn) = <<>> BY <1>4, ClearedNext, EntriesNext DEF Adds
<1> HIDE DEF dn
<1>6. Base(b, dn) = 0 BY <1>5 DEF Base
<1>7. Held("sqlite", b, w ++ Nothing, dn) BY <1>2, <1>3, <1>5 DEF Held
<1>8. Counted(b, w ++ Nothing, dn)
  <2>1. Entries(dn) \in Seq(Rows) /\ Len(Entries(dn)) = 0 BY <1>5
  <2>2. latestSeq((w ++ Nothing) ++ b) = Base(b, dn) + Len(Entries(dn))
    BY <1>2, <1>3, <1>6, <2>1
  <2>3. 1..Len(Entries(dn)) = {} BY <2>1
  <2> QED BY <1>4, <2>1, <2>2, <2>3, Zenon DEF Counted
<1>9. Contents((w ++ Nothing) ++ b) /\ 0 \in Nat /\ 0 <= latestSeq((w ++ Nothing) ++ b)
  BY <1>2, <1>3
<1> QED BY <1>7, <1>8, <1>9 DEF Owns, w, dn

(* An entry of the log, with which its row is done.                        *)
LEMMA OwnsOp ==
  ASSUME NEW x, NEW b, Contents(b), NEW o, NEW l, NEW dn, Owns(x, b, o, l, dn),
         NEW r \in Rows, Adds(r), r.kind # "clear",
         NEW e \in Entry, Absent \notin Entry, e.id = IdOf(r),
         NEW n \in Nat, n <= MaxOps, n = latestSeq(o ++ b) + 1
  PROVE  Owns(x, b, Cell(OpKey(n), e) ++ o, n, Append(dn, r))
<1> DEFINE v == o ++ b
           w == Cell(OpKey(n), e)
           u == w ++ v
           dn2 == Append(dn, r)
<1>0. Contents(v) /\ dn \in Seq(Rows) /\ n = latestSeq(v) + 1 BY DEF Owns, Counted
<1> HIDE DEF v
<1>1. /\ DOMAIN w = {OpKey(n)} /\ DOMAIN w \subseteq Key
      /\ Contents(u) /\ latestSeq(u) = n /\ u[OpKey(n)] = e
      /\ \A m \in 1..MaxOps : m # n => u[OpKey(m)] = v[OpKey(m)]
  <2>1. OpPut(w, v, n, e) BY <1>0, OpWritten
  <2> QED BY <2>1 DEF OpPut
<1>2. (w ++ o) ++ b = u /\ DOMAIN (w ++ o) = DOMAIN w \cup DOMAIN o
  BY <1>1, WrittenTwice DEF Owns, Held, Contents, v
<1>3. /\ latestSeq(v) \in 0..MaxOps /\ latestSeq(b) \in 0..MaxOps /\ MaxOps \in Nat
      /\ latestSeq(v) = n - 1 /\ n \in 1..MaxOps
  <2>1. latestSeq(v) \in 0..MaxOps /\ latestSeq(b) \in 0..MaxOps BY <1>0 DEF Contents
  <2> QED BY <1>0, <2>1, SqlStengAssumption
<1>4. /\ Entries(dn2) = Append(Entries(dn), r) /\ dn2 \in Seq(Rows)
      /\ Cleared(dn2) <=> Cleared(dn)
      /\ Base(b, dn2) = Base(b, dn)
  BY <1>0, EntriesNext, ClearedNext DEF Base
<1>5. /\ Entries(dn) \in Seq(Rows) /\ Len(Entries(dn)) \in Nat
      /\ latestSeq(v) = Base(b, dn) + Len(Entries(dn))
      /\ \A i \in 1..Len(Entries(dn)) : v[OpKey(Base(b, dn) + i)].id = IdOf(Entries(dn)[i])
  BY DEF Owns, Counted, v
<1>6. Base(b, dn) \in 0..MaxOps BY <1>3 DEF Base
<1> HIDE DEF w, u, dn2
<1>7. Held(x, b, w ++ o, dn2)
  <2>1. DOMAIN (w ++ o) \subseteq Key BY <1>1, <1>2 DEF Owns, Held
  <2>2. ASSUME ~Cleared(dn2), NEW m \in 1..MaxOps
        PROVE  OpKey(m) \in DOMAIN (w ++ o) <=> latestSeq(b) < m /\ m <= latestSeq(u)
    <3>1. OpKey(m) \in DOMAIN o <=> latestSeq(b) < m /\ m <= latestSeq(v)
      BY <1>4, <2>2 DEF Owns, Held, v
    <3>2. latestSeq(b) <= latestSeq(v) BY <1>3, <1>4, <1>5, <2>2 DEF Base
    <3>3. OpKey(m) \in DOMAIN (w ++ o) <=> m = n \/ OpKey(m) \in DOMAIN o
      BY <1>1, <1>2, KeysApart
    <3> QED BY <1>1, <1>3, <3>1, <3>2, <3>3
  <2>3. x = "postgres" => /\ ~Cleared(dn2)
                          /\ \A d \in DocId : DocKey(d) \in DOMAIN (w ++ o) => IdxKey(d) \in DOMAIN (w ++ o)
    BY <1>1, <1>2, <1>4, KeysApart DEF Owns, Held
  <2> QED BY <1>2, <2>1, <2>2, <2>3 DEF Held
<1>8. Counted(b, w ++ o, dn2)
  <2> DEFINE k == Len(Entries(dn))
  <2>1. /\ Entries(dn2) \in Seq(Rows) /\ Len(Entries(dn2)) = k + 1 /\ k \in Nat
        /\ Entries(dn2)[k + 1] = r
        /\ \A i \in 1..k : Entries(dn2)[i] = Entries(dn)[i]
    BY <1>4, <1>5
  <2>2. latestSeq(u) = Base(b, dn2) + Len(Entries(dn2)) BY <1>1, <1>3, <1>4, <1>5, <1>6, <2>1
  <2>3. ASSUME NEW i \in 1..Len(Entries(dn2))
        PROVE  u[OpKey(Base(b, dn2) + i)].id = IdOf(Entries(dn2)[i])
    <3>1. CASE i = k + 1
      <4>2. latestSeq(v) = Base(b, dn) + k /\ k \in Nat BY <1>5
      <4>1. Base(b, dn2) + i = n
        <5>1. Base(b, dn2) = Base(b, dn) /\ latestSeq(v) = n - 1 BY <1>3, <1>4
        <5>2. Base(b, dn) \in Nat BY <1>3, <1>6
        <5> HIDE DEF k
        <5> QED BY <3>1, <4>2, <5>1, <5>2
      <4> QED BY <3>1, <4>1, <1>1, <2>1
    <3>2. CASE i # k + 1
      <4>1. i \in 1..k BY <3>2, <2>1
      <4> DEFINE j == Base(b, dn2) + i
      <4>2. j \in 1..MaxOps /\ j # n BY <4>1, <1>3, <1>4, <1>5, <1>6, <2>1
      <4>3. u[OpKey(j)] = v[OpKey(j)] BY <4>2, <1>1
      <4>4. v[OpKey(j)].id = IdOf(Entries(dn)[i]) BY <4>1, <1>4, <1>5
      <4> QED BY <4>1, <4>3, <4>4, <2>1
    <3> QED BY <3>1, <3>2
  <2> HIDE DEF k
  <2> QED BY <1>2, <1>4, <2>1, <2>2, <2>3 DEF Counted
<1>9. Contents((w ++ o) ++ b) /\ n \in Nat /\ n <= latestSeq((w ++ o) ++ b) BY <1>1, <1>2
<1> QED BY <1>7, <1>8, <1>9 DEF Owns, w, dn2

(* What a call sees of a document once another call has committed is what  *)
(* it saw before, or what the other saw.                                   *)
LEMMA PairSeen ==
  ASSUME NEW b, b = [k \in Key |-> b[k]], NEW o, NEW o2, DOMAIN o \subseteq Key,
         DOMAIN o2 \subseteq Key, DOMAIN o \cap DOMAIN o2 = {}, NEW d \in DocId,
         DocKey(d) \in DOMAIN o => IdxKey(d) \in DOMAIN o,
         DocKey(d) \in DOMAIN o2 => IdxKey(d) \in DOMAIN o2
  PROVE  LET u == o ++ (o2 ++ b)
             v == o ++ b
             c == o2 ++ b
         IN \/ u[DocKey(d)] = v[DocKey(d)] /\ u[IdxKey(d)] = v[IdxKey(d)]
            \/ u[DocKey(d)] = c[DocKey(d)] /\ u[IdxKey(d)] = c[IdxKey(d)]
<1> DEFINE c == o2 ++ b
           v == o ++ b
           u == o ++ c
<1>1. /\ c = [k \in Key |-> c[k]]
      /\ \A k \in Key : c[k] = IF k \in DOMAIN o2 THEN o2[k] ELSE b[k]
      /\ \A k \in Key : v[k] = IF k \in DOMAIN o THEN o[k] ELSE b[k]
  BY Overwritten
<1> HIDE DEF c
<1>2. \A k \in Key : u[k] = IF k \in DOMAIN o THEN o[k] ELSE c[k]
  BY <1>1, Overwritten
<1> HIDE DEF u, v
<1>3. DocKey(d) \in Key /\ IdxKey(d) \in Key BY KeysKnown
<1>4. \/ u[DocKey(d)] = v[DocKey(d)] /\ u[IdxKey(d)] = v[IdxKey(d)]
      \/ u[DocKey(d)] = c[DocKey(d)] /\ u[IdxKey(d)] = c[IdxKey(d)]
  BY <1>1, <1>2, <1>3
<1> QED BY <1>4 DEF u, v, c

(* Another call commits.                                                   *)
LEMMA OwnsBase ==
  ASSUME NEW b, Contents(b), NEW o, NEW l, NEW dn, Owns("postgres", b, o, l, dn),
         NEW o2, NEW l2, NEW dn2, Owns("postgres", b, o2, l2, dn2),
         DOMAIN o \cap DOMAIN o2 = {}
  PROVE  Owns("postgres", o2 ++ b, o, l, dn)
<1> DEFINE c == o2 ++ b
           v == o ++ b
           u == o ++ c
<1>0. /\ Contents(c) /\ Contents(v) /\ DOMAIN o \subseteq Key /\ DOMAIN o2 \subseteq Key
      /\ ~Cleared(dn) /\ ~Cleared(dn2) /\ MaxOps \in Nat
  BY SqlStengAssumption DEF Owns, Held
<1>1. /\ b = [k \in Key |-> b[k]] /\ c = [k \in Key |-> c[k]] BY <1>0 DEF Contents
<1>2. /\ \A k \in Key : c[k] = IF k \in DOMAIN o2 THEN o2[k] ELSE b[k]
      /\ \A k \in Key : v[k] = IF k \in DOMAIN o THEN o[k] ELSE b[k]
  BY <1>0, <1>1, Overwritten
<1> HIDE DEF c
<1>3. /\ \A k \in Key : u[k] = IF k \in DOMAIN o THEN o[k] ELSE c[k]
      /\ u = [k \in Key |-> u[k]]
  BY <1>0, <1>1, Overwritten
<1> HIDE DEF u, v
<1>4. /\ \A k \in Key : u[k] = IF k \in DOMAIN o THEN v[k] ELSE c[k]
      /\ \A k \in Key : k \notin DOMAIN o => v[k] = b[k]
      /\ \A k \in Key : k \notin DOMAIN o2 => c[k] = b[k]
  BY <1>2, <1>3
<1>5. /\ latestSeq(b) \in 0..MaxOps /\ latestSeq(c) \in 0..MaxOps /\ latestSeq(v) \in 0..MaxOps
      /\ latestSeq(b) <= latestSeq(v) /\ latestSeq(b) <= latestSeq(c)
      /\ \A n \in 1..MaxOps : OpKey(n) \in DOMAIN o <=> latestSeq(b) < n /\ n <= latestSeq(v)
      /\ \A n \in 1..MaxOps : OpKey(n) \in DOMAIN o2 <=> latestSeq(b) < n /\ n <= latestSeq(c)
  <2>1. latestSeq(b) \in 0..MaxOps /\ latestSeq(c) \in 0..MaxOps /\ latestSeq(v) \in 0..MaxOps
    BY <1>0 DEF Contents
  <2>2. Len(Entries(dn)) \in Nat /\ Len(Entries(dn2)) \in Nat
    BY DEF Owns, Counted
  <2>3. latestSeq(v) = latestSeq(b) + Len(Entries(dn)) /\ latestSeq(c) = latestSeq(b) + Len(Entries(dn2))
    BY <1>0 DEF Owns, Counted, Base, v, c
  <2>4. \A n \in 1..MaxOps : OpKey(n) \in DOMAIN o <=> latestSeq(b) < n /\ n <= latestSeq(v)
    BY <1>0 DEF Owns, Held, v
  <2>5. \A n \in 1..MaxOps : OpKey(n) \in DOMAIN o2 <=> latestSeq(b) < n /\ n <= latestSeq(c)
    BY <1>0 DEF Owns, Held, c
  <2> QED BY <2>1, <2>2, <2>3, <2>4, <2>5
(* One of the two has added no entry: both would hold the first.           *)
<1>6. latestSeq(v) = latestSeq(b) \/ latestSeq(c) = latestSeq(b)
  <2>1. SUFFICES ASSUME latestSeq(v) # latestSeq(b), latestSeq(c) # latestSeq(b) PROVE FALSE
    OBVIOUS
  <2> DEFINE n == latestSeq(b) + 1
  <2>2. n \in 1..MaxOps BY <1>0, <1>5, <2>1
  <2>3. OpKey(n) \in DOMAIN o /\ OpKey(n) \in DOMAIN o2 BY <1>5, <2>1, <2>2
  <2> QED BY <2>3
<1>7. /\ latestSeq(u) \in 0..MaxOps /\ Unbroken(u) /\ latestSeq(u) >= latestSeq(v)
      /\ latestSeq(u) = latestSeq(c) + Len(Entries(dn))
      /\ \A n \in 1..MaxOps : OpKey(n) \in DOMAIN o <=> latestSeq(c) < n /\ n <= latestSeq(u)
      /\ \A n \in 1..MaxOps : u[OpKey(n)] = v[OpKey(n)] \/ u[OpKey(n)] = c[OpKey(n)]
  <2>0. /\ latestSeq(v) = latestSeq(b) + Len(Entries(dn)) /\ Len(Entries(dn)) \in Nat
        /\ \A n \in 1..MaxOps : u[OpKey(n)] = v[OpKey(n)] \/ u[OpKey(n)] = c[OpKey(n)]
    BY <1>0, <1>4, KeysKnown DEF Owns, Counted, Base, v
  <2>1. CASE latestSeq(v) = latestSeq(b)
    <3>1. \A n \in 1..MaxOps : OpKey(n) \notin DOMAIN o BY <1>5, <2>1
    <3>2. \A n \in 1..MaxOps : u[OpKey(n)] = c[OpKey(n)] BY <1>4, <3>1, KeysKnown
    <3>3. latestSeq(u) = latestSeq(c) /\ Unbroken(u) BY <1>0, <3>2, SameOps
    <3> QED BY <1>0, <1>5, <2>0, <2>1, <3>1, <3>3
  <2>2. CASE latestSeq(c) = latestSeq(b)
    <3>1. \A n \in 1..MaxOps : OpKey(n) \notin DOMAIN o2 BY <1>5, <2>2
    <3>2. \A n \in 1..MaxOps : u[OpKey(n)] = v[OpKey(n)] BY <1>4, <3>1, KeysKnown
    <3>3. latestSeq(u) = latestSeq(v) /\ Unbroken(u) BY <1>0, <3>2, SameOps
    <3> QED BY <1>0, <1>5, <2>0, <2>2, <3>3
  <2> QED BY <1>6, <2>1, <2>2
<1>8. IndexOk(u)
  <2>1. SUFFICES ASSUME NEW d \in DocId, u[IdxKey(d)] # Absent
                 PROVE  u[DocKey(d)] \notin {Absent, Dead} /\ u[IdxKey(d)][2] = u[DocKey(d)]
    BY Zenon DEF IndexOk
  <2>3. /\ DocKey(d) \in DOMAIN o => IdxKey(d) \in DOMAIN o
        /\ DocKey(d) \in DOMAIN o2 => IdxKey(d) \in DOMAIN o2
    BY DEF Owns, Held
  <2>4. \/ u[DocKey(d)] = v[DocKey(d)] /\ u[IdxKey(d)] = v[IdxKey(d)]
        \/ u[DocKey(d)] = c[DocKey(d)] /\ u[IdxKey(d)] = c[IdxKey(d)]
    BY <1>0, <1>1, <2>3, PairSeen DEF u, v, c
  <2> QED BY <1>0, <2>1, <2>4 DEF Contents, IndexOk
<1>9. Contents(u)
  <2>1. /\ \A d \in DocId : u[DocKey(d)] \in Doc
        /\ \A m \in BlobId : u[BlobKey(m)] \in Content \cup {Absent}
        /\ u[Watermark] \in Nat /\ u[Config] \in SUBSET IndexNames
    BY <1>0, <1>4, KeysKnown DEF Contents
  <2>2. \A n \in 1..MaxOps : u[OpKey(n)] \in Entry \cup {Absent} BY <1>0, <1>7 DEF Contents
  <2> QED BY <1>3, <1>7, <1>8, <2>1, <2>2 DEF Contents
<1>10. Held("postgres", c, o, dn) BY <1>0, <1>7 DEF Held, Owns, u
<1>11. Counted(c, o, dn)
  <2> DEFINE k == Len(Entries(dn))
  <2>1. Base(c, dn) = latestSeq(c) /\ Base(b, dn) = latestSeq(b) BY <1>0 DEF Base
  <2>2. k \in Nat /\ latestSeq(v) = latestSeq(b) + k BY <2>1 DEF Owns, Counted, v
  <2>3. ASSUME NEW i \in 1..k
        PROVE  u[OpKey(latestSeq(c) + i)].id = IdOf(Entries(dn)[i])
    <3>1. latestSeq(v) # latestSeq(b) BY <1>5, <2>2
    <3>2. latestSeq(c) = latestSeq(b) BY <1>6, <3>1
    <3> DEFINE n == latestSeq(b) + i
    <3>3. n \in 1..MaxOps /\ latestSeq(b) < n /\ n <= latestSeq(v)
      <4>1. /\ latestSeq(b) \in 0..MaxOps /\ latestSeq(v) \in 0..MaxOps
            /\ latestSeq(v) = latestSeq(b) + k /\ k \in Nat /\ i \in 1..k
        BY <1>5, <2>2
      <4> HIDE DEF k
      <4> QED BY <1>0, <4>1
    <3>4. u[OpKey(n)] = v[OpKey(n)] BY <1>4, <1>5, <3>3, KeysKnown
    <3>5. v[OpKey(n)].id = IdOf(Entries(dn)[i]) BY <2>1 DEF Owns, Counted, v
    <3> QED BY <3>2, <3>4, <3>5
  <2> HIDE DEF k
  <2>4. \A i \in 1..k : (o ++ c)[OpKey(Base(c, dn) + i)].id = IdOf(Entries(dn)[i])
    BY <2>1, <2>3 DEF u
  <2>5. latestSeq(o ++ c) = Base(c, dn) + k BY <1>7, <2>1 DEF u, k
  <2>6. dn \in Seq(Rows) /\ Entries(dn) \in Seq(Rows) BY DEF Owns, Counted
  <2> QED BY <2>4, <2>5, <2>6 DEF Counted, k
<1>12. l \in Nat /\ l <= latestSeq(u)
  <2>1. l \in Nat /\ l <= latestSeq(v) BY DEF Owns, v
  <2> QED BY <2>1, <1>5, <1>7
<1> QED BY <1>9, <1>10, <1>11, <1>12 DEF Owns, u, c

-----------------------------------------------------------------------------
(* What the write of a row does, c being the indexes the call knows of.    *)

WriteOk(w, v, c) ==
  /\ DOMAIN w \subseteq Key
  /\ Contents(w ++ v)
  /\ \A n \in 1..MaxOps : OpKey(n) \notin DOMAIN w /\ (w ++ v)[OpKey(n)] = v[OpKey(n)]
  /\ \A d \in DocId : DocKey(d) \in DOMAIN w => IdxKey(d) \in DOMAIN w
  /\ (w ++ v)[Config] = v[Config]
  /\ \A d \in DocId :
       \/ (w ++ v)[DocKey(d)] = v[DocKey(d)] /\ (w ++ v)[IdxKey(d)] = v[IdxKey(d)]
       \/ (w ++ v)[DocKey(d)] \in {Absent, Dead}
       \/ (w ++ v)[IdxKey(d)] = Indexed(c, (w ++ v)[DocKey(d)])

LEMMA DocRowsOk ==
  ASSUME NEW v, Contents(v), NEW d \in DocId, NEW x \in Value, NEW c
  PROVE  /\ WriteOk(DocRows(d, x, c), v, c)
         /\ TableOf(DocRows(d, x, c) ++ v) = writeDoc(TableOf(v), d, x)
<1> DEFINE w == DocRows(d, x, c)
           i == Indexed(c, x)
           u == w ++ v
<1>1. x \in Doc /\ x \notin {Absent, Dead} BY StengAssumption DEF Doc
<1>2. i # Absent => x \notin {Absent, Dead} /\ i[2] = x
  <2>1. ASSUME i # Absent PROVE i = <<c, x>> BY <2>1 DEF Indexed
  <2> HIDE DEF i
  <2> QED BY <1>1, <2>1
<1>3. w = Cell(DocKey(d), x) ++ Cell(IdxKey(d), i) BY DEF DocRows
<1> HIDE DEF w, i
<1>4. DOMAIN w = {DocKey(d), IdxKey(d)} BY <1>3 DEF Cell, ++
<1>10. DocPut(w, v, d, x, i) BY <1>1, <1>2, <1>3, DocWritten
<1>5. /\ DOMAIN w \subseteq Key /\ Contents(u)
      /\ TableOf(u) = writeDoc(TableOf(v), d, x)
  BY <1>10 DEF DocPut
<1>6. \A n \in 1..MaxOps : u[OpKey(n)] = v[OpKey(n)] BY <1>10 DEF DocPut
<1>7. /\ u[Config] = v[Config]
      /\ \A e \in DocId : /\ u[DocKey(e)] = IF e = d THEN x ELSE v[DocKey(e)]
                          /\ u[IdxKey(e)] = IF e = d THEN i ELSE v[IdxKey(e)]
  BY <1>10 DEF DocPut
<1> HIDE DEF u
<1>8. /\ \A n \in 1..MaxOps : OpKey(n) \notin DOMAIN w
      /\ \A e \in DocId : DocKey(e) \in DOMAIN w => IdxKey(e) \in DOMAIN w
  BY <1>4, KeysApart
<1>9. \A e \in DocId :
        \/ u[DocKey(e)] = v[DocKey(e)] /\ u[IdxKey(e)] = v[IdxKey(e)]
        \/ u[IdxKey(e)] = Indexed(c, u[DocKey(e)])
  BY <1>7 DEF i
<1> QED BY <1>5, <1>6, <1>7, <1>8, <1>9 DEF WriteOk, u, w

LEMMA TombstoneOk ==
  ASSUME NEW v, Contents(v), NEW d \in DocId, NEW c
  PROVE  /\ WriteOk(Tombstone(d), v, c)
         /\ TableOf(Tombstone(d) ++ v) = writeDoc(TableOf(v), d, Dead)
<1> DEFINE w == Tombstone(d)
           u == w ++ v
<1>1. Dead \in Doc BY DEF Doc
<1>3. w = Cell(DocKey(d), Dead) ++ Cell(IdxKey(d), Absent) BY DEF Tombstone
<1> HIDE DEF w
<1>4. DOMAIN w = {DocKey(d), IdxKey(d)} BY <1>3 DEF Cell, ++
<1>10. DocPut(w, v, d, Dead, Absent) BY <1>1, <1>3, DocWritten
<1>5. /\ DOMAIN w \subseteq Key /\ Contents(u)
      /\ TableOf(u) = writeDoc(TableOf(v), d, Dead)
  BY <1>10 DEF DocPut
<1>6. \A n \in 1..MaxOps : u[OpKey(n)] = v[OpKey(n)] BY <1>10 DEF DocPut
<1>7. /\ u[Config] = v[Config]
      /\ \A e \in DocId : /\ u[DocKey(e)] = IF e = d THEN Dead ELSE v[DocKey(e)]
                          /\ u[IdxKey(e)] = IF e = d THEN Absent ELSE v[IdxKey(e)]
  BY <1>10 DEF DocPut
<1> HIDE DEF u
<1>8. /\ \A n \in 1..MaxOps : OpKey(n) \notin DOMAIN w
      /\ \A e \in DocId : DocKey(e) \in DOMAIN w => IdxKey(e) \in DOMAIN w
  BY <1>4, KeysApart
<1> QED BY <1>5, <1>6, <1>7, <1>8 DEF WriteOk, u, w

LEMMA BlobsOk ==
  ASSUME NEW v, Contents(v), NEW b \in BlobId, NEW x \in Content \cup {Absent}, NEW c
  PROVE  /\ WriteOk(Blobs(b, x), v, c)
         /\ TableOf(Blobs(b, x) ++ v) = [TableOf(v) EXCEPT !.blobs[b] = x]
<1> DEFINE w == Blobs(b, x)
           u == w ++ v
<1>3. w = Cell(BlobKey(b), x) BY DEF Blobs
<1> HIDE DEF w
<1>4. DOMAIN w = {BlobKey(b)} BY <1>3 DEF Cell
<1>10. BlobPut(w, v, b, x) BY <1>3, BlobWritten
<1>5. /\ DOMAIN w \subseteq Key /\ Contents(u)
      /\ TableOf(u) = [TableOf(v) EXCEPT !.blobs[b] = x]
  BY <1>10 DEF BlobPut
<1>6. \A n \in 1..MaxOps : u[OpKey(n)] = v[OpKey(n)] BY <1>10 DEF BlobPut
<1>7. /\ u[Config] = v[Config]
      /\ \A e \in DocId : u[DocKey(e)] = v[DocKey(e)] /\ u[IdxKey(e)] = v[IdxKey(e)]
  BY <1>10 DEF BlobPut
<1> HIDE DEF u
<1>8. /\ \A n \in 1..MaxOps : OpKey(n) \notin DOMAIN w
      /\ \A e \in DocId : DocKey(e) \in DOMAIN w => IdxKey(e) \in DOMAIN w
  BY <1>4, KeysApart
<1> QED BY <1>5, <1>6, <1>7, <1>8 DEF WriteOk, u, w

(* A blob that is not there needs no write to be dropped.                  *)
LEMMA DroppedOk ==
  ASSUME NEW v, Contents(v), NEW b \in BlobId, NEW c
  PROVE  /\ WriteOk(Dropped(b, v), v, c)
         /\ TableOf(Dropped(b, v) ++ v) = [TableOf(v) EXCEPT !.blobs[b] = Absent]
<1>1. CASE v[BlobKey(b)] # Absent
  <2>1. Dropped(b, v) = Blobs(b, Absent) BY <1>1 DEF Dropped
  <2> QED BY <2>1, BlobsOk
<1>2. CASE v[BlobKey(b)] = Absent
  <2>1. Dropped(b, v) = Nothing BY <1>2 DEF Dropped
  <2>2. Nothing ++ v = v /\ DOMAIN Nothing = {} BY NothingWritten DEF Contents
  <2> DEFINE t == TableOf(v)
             B == t.blobs
  <2>3. B = [B EXCEPT ![b] = Absent]
    <3>1. B = [e \in BlobId |-> v[BlobKey(e)]] BY TableFields
    <3> HIDE DEF B
    <3> QED BY <1>2, <3>1
  <2>4. Whole(t) BY TableIs
  <2>5. [t EXCEPT !.blobs[b] = Absent] = t
    <3> HIDE DEF t
    <3>1. [t EXCEPT !.blobs[b] = Absent] = Fields(t.docs, B, t.ops, t.latestSeq, t.watermark)
      <4> HIDE DEF B
      <4>1. B = [t.blobs EXCEPT ![b] = Absent] BY <2>3 DEF B
      <4> QED BY <2>4, <4>1, ChangedBlob
    <3> QED BY <2>4, <3>1 DEF Whole
  <2> QED BY <2>1, <2>2, <2>5 DEF WriteOk
<1> QED BY <1>1, <1>2

LEMMA WatermarkOk ==
  ASSUME NEW v, Contents(v), NEW x \in Nat, NEW c
  PROVE  /\ WriteOk(Cell(Watermark, x), v, c)
         /\ TableOf(Cell(Watermark, x) ++ v) = [TableOf(v) EXCEPT !.watermark = x]
<1> DEFINE w == Cell(Watermark, x)
           u == w ++ v
<1>4. DOMAIN w = {Watermark} BY DEF Cell
<1>10. WatermarkPut(w, v, x) BY WatermarkWritten
<1>5. /\ DOMAIN w \subseteq Key /\ Contents(u)
      /\ TableOf(u) = [TableOf(v) EXCEPT !.watermark = x]
  BY <1>10 DEF WatermarkPut
<1>6. \A n \in 1..MaxOps : u[OpKey(n)] = v[OpKey(n)] BY <1>10 DEF WatermarkPut
<1>7. /\ u[Config] = v[Config]
      /\ \A e \in DocId : u[DocKey(e)] = v[DocKey(e)] /\ u[IdxKey(e)] = v[IdxKey(e)]
  BY <1>10 DEF WatermarkPut
<1> HIDE DEF u, w
<1>8. /\ \A n \in 1..MaxOps : OpKey(n) \notin DOMAIN w
      /\ \A e \in DocId : DocKey(e) \in DOMAIN w => IdxKey(e) \in DOMAIN w
  BY <1>4, KeysApart
<1> QED BY <1>5, <1>6, <1>7, <1>8 DEF WriteOk, u, w

(* What the write of a row makes of the table, the entry of the log aside. *)
Changed(t, r) ==
  CASE r.kind \in {"add", "replace", "doc"} -> writeDoc(t, r.id, r.payload)
    [] r.kind = "update" -> writeDoc(t, r.id, Merge(r.mode, t.docs[r.id], r.payload))
    [] r.kind = "delete" -> writeDoc(t, r.id, Dead)
    [] r.kind \in {"blob", "blob_add"} -> [t EXCEPT !.blobs[r.id] = r.payload]
    [] r.kind = "blob_del" -> [t EXCEPT !.blobs[r.id] = Absent]
    [] r.kind \in {"restore", "merge", "cutoff"} -> InMemory(t, r)
    [] r.kind = "apply" -> Effect(t, r.payload)
    [] OTHER -> t

(* What the read before a write gives, and that it does not fail.          *)
Seen(t, r, g) ==
  CASE r.kind \in {"merge", "cutoff"} -> g = t.watermark
    [] r.kind = "update" -> g = t.docs[r.id] /\ r.id \in Live(t)
    [] r.kind = "doc" -> g = t.docs[r.id]
    [] r.kind = "apply" -> r.payload.op_type = "UPDATE" =>
         g = t.docs[r.payload.id] /\ r.payload.id \in Live(t)
    [] OTHER -> TRUE

(* What the read gave is of use to the write.                              *)
Usable(r, g) ==
  /\ r.kind = "update" => g \in Value
  /\ r.kind \in {"merge", "cutoff"} => g \in Nat
  /\ r.kind = "apply" /\ r.payload.op_type = "UPDATE" => g \in Value

LEMMA AppliedOk ==
  ASSUME NEW v, Contents(v), NEW op \in Entry, NEW old, NEW c,
         op.op_type = "UPDATE" => old \in Value
  PROVE  /\ WriteOk(Applied(op, v, old, c), v, c)
         /\ (op.op_type = "UPDATE" => old = TableOf(v).docs[op.id]) =>
              TableOf(Applied(op, v, old, c) ++ v) = Effect(TableOf(v), op)
<1>0. op.op_type \in OpTypes /\ EntryOk(op) BY DEF Entry
<1>1. CASE op.op_type \in {"ADD", "REPLACE"}
  <2>1. op.id \in DocId /\ op.payload \in Value BY <1>0, <1>1 DEF EntryOk
  <2>2. Applied(op, v, old, c) = DocRows(op.id, op.payload, c) BY <1>1 DEF Applied
  <2>3. Effect(TableOf(v), op) = writeDoc(TableOf(v), op.id, op.payload) BY <1>1 DEF Effect
  <2> QED BY <2>1, <2>2, <2>3, DocRowsOk
<1>2. CASE op.op_type = "UPDATE"
  <2>1. op.id \in DocId /\ op.payload \in Value BY <1>0, <1>2 DEF EntryOk
  <2>2. Applied(op, v, old, c) = DocRows(op.id, deepMerge(old, op.payload), c) BY <1>2 DEF Applied
  <2>3. Effect(TableOf(v), op) = writeDoc(TableOf(v), op.id, deepMerge(TableOf(v).docs[op.id], op.payload))
    BY <1>2 DEF Effect
  <2>4. deepMerge(old, op.payload) \in Value BY <1>2, <2>1, MergeType
  <2> QED BY <1>2, <2>1, <2>2, <2>3, <2>4, DocRowsOk
<1>3. CASE op.op_type = "DELETE"
  <2>1. op.id \in DocId BY <1>0, <1>3 DEF EntryOk
  <2>2. Applied(op, v, old, c) = Tombstone(op.id) BY <1>3 DEF Applied
  <2>3. Effect(TableOf(v), op) = writeDoc(TableOf(v), op.id, Dead)
    BY <1>3 DEF Effect, writeTombstone, writeDoc
  <2> QED BY <2>1, <2>2, <2>3, TombstoneOk
<1>4. CASE op.op_type = "BLOB_ADD"
  <2>1. op.id \in BlobId /\ op.payload \in Content \cup {Absent} BY <1>0, <1>4 DEF EntryOk
  <2>2. Applied(op, v, old, c) = Blobs(op.id, op.payload) BY <1>4 DEF Applied
  <2>3. Effect(TableOf(v), op) = [TableOf(v) EXCEPT !.blobs[op.id] = op.payload] BY <1>4 DEF Effect
  <2> QED BY <2>1, <2>2, <2>3, BlobsOk
<1>5. CASE op.op_type = "BLOB_DEL"
  <2>1. op.id \in BlobId BY <1>0, <1>5 DEF EntryOk
  <2>2. Applied(op, v, old, c) = Dropped(op.id, v) BY <1>5 DEF Applied
  <2>3. Effect(TableOf(v), op) = [TableOf(v) EXCEPT !.blobs[op.id] = Absent] BY <1>5 DEF Effect
  <2> QED BY <2>1, <2>2, <2>3, DroppedOk
<1> QED BY <1>0, <1>1, <1>2, <1>3, <1>4, <1>5 DEF OpTypes

(* Every write but a reset and a configuration.                            *)
LEMMA WrittenOk ==
  ASSUME NEW v, Contents(v), NEW r \in Rows, r.kind \notin {"clear", "config", "latest"},
         NEW old, NEW c, Usable(r, old)
  PROVE  /\ WriteOk(Written(r, v, old, c), v, c)
         /\ Seen(TableOf(v), r, old) => TableOf(Written(r, v, old, c) ++ v) = Changed(TableOf(v), r)
<1> DEFINE t == TableOf(v)
<1>0. r.kind \in Kinds /\ RowOk(r) BY DEF Rows
<1>1. CASE r.kind \in {"add", "replace"}
  <2>1. r.id \in DocId /\ r.payload \in Value BY <1>0, <1>1 DEF RowOk
  <2>2. Written(r, v, old, c) = DocRows(r.id, r.payload, c) BY <1>1 DEF Written
  <2>3. Changed(t, r) = writeDoc(t, r.id, r.payload) BY <1>1 DEF Changed
  <2> QED BY <2>1, <2>2, <2>3, DocRowsOk
<1>2. CASE r.kind = "update"
  <2>1. r.id \in DocId /\ r.payload \in Value BY <1>0, <1>2 DEF RowOk
  <2>2. Written(r, v, old, c) = DocRows(r.id, Merge(r.mode, old, r.payload), c) BY <1>2 DEF Written
  <2>3. Changed(t, r) = writeDoc(t, r.id, Merge(r.mode, t.docs[r.id], r.payload)) BY <1>2 DEF Changed
  <2>4. Merge(r.mode, old, r.payload) \in Value BY <1>2, <2>1, MergeType DEF Usable
  <2>5. Seen(t, r, old) => old = t.docs[r.id] BY <1>2 DEF Seen
  <2> HIDE DEF t
  <2>6. Seen(t, r, old) => Changed(t, r) = writeDoc(t, r.id, Merge(r.mode, old, r.payload))
    BY <2>3, <2>5
  <2> QED BY <2>1, <2>2, <2>4, <2>6, DocRowsOk DEF t
<1>3. CASE r.kind = "delete"
  <2>1. r.id \in DocId BY <1>0, <1>3 DEF RowOk
  <2>2. Written(r, v, old, c) = Tombstone(r.id) BY <1>3 DEF Written
  <2>3. Changed(t, r) = writeDoc(t, r.id, Dead) BY <1>3 DEF Changed
  <2> QED BY <2>1, <2>2, <2>3, TombstoneOk
<1>4. CASE r.kind = "doc"
  <2>1. r.id \in DocId /\ r.payload \in Value \cup {Dead} BY <1>0, <1>4 DEF RowOk
  <2>3. Changed(t, r) = writeDoc(t, r.id, r.payload) BY <1>4 DEF Changed
  <2>4. CASE r.payload = Dead
    <3>1. Written(r, v, old, c) = Tombstone(r.id) BY <1>4, <2>4 DEF Written
    <3> QED BY <2>1, <2>3, <2>4, <3>1, TombstoneOk
  <2>5. CASE r.payload # Dead
    <3>1. Written(r, v, old, c) = DocRows(r.id, r.payload, c) BY <1>4, <2>5 DEF Written
    <3> QED BY <2>1, <2>3, <2>5, <3>1, DocRowsOk
  <2> QED BY <2>4, <2>5
<1>5. CASE r.kind \in {"blob", "blob_add"}
  <2>1. r.id \in BlobId /\ r.payload \in Content \cup {Absent} BY <1>0, <1>5 DEF RowOk
  <2>2. Written(r, v, old, c) = Blobs(r.id, r.payload) BY <1>5 DEF Written
  <2>3. Changed(t, r) = [t EXCEPT !.blobs[r.id] = r.payload] BY <1>5 DEF Changed
  <2> QED BY <2>1, <2>2, <2>3, BlobsOk
<1>6. CASE r.kind = "blob_del"
  <2>1. r.id \in BlobId BY <1>0, <1>6 DEF RowOk
  <2>2. Written(r, v, old, c) = Dropped(r.id, v) BY <1>6 DEF Written
  <2>3. Changed(t, r) = [t EXCEPT !.blobs[r.id] = Absent] BY <1>6 DEF Changed
  <2> QED BY <2>1, <2>2, <2>3, DroppedOk
<1>7. CASE r.kind = "restore"
  <2>1. r.payload \in Nat BY <1>0, <1>7 DEF RowOk
  <2>2. Written(r, v, old, c) = Cell(Watermark, r.payload) BY <1>7 DEF Written
  <2>3. Changed(t, r) = [t EXCEPT !.watermark = r.payload] BY <1>7 DEF Changed, InMemory
  <2> QED BY <2>1, <2>2, <2>3, WatermarkOk
<1>8. CASE r.kind = "merge"
  <2>1. r.payload \in Nat /\ old \in Nat BY <1>0, <1>8 DEF RowOk, Usable
  <2> DEFINE n == mergeWatermark(old, r.payload)
  <2>2. Written(r, v, old, c) = Cell(Watermark, n) BY <1>8 DEF Written
  <2>3. Seen(t, r, old) => Changed(t, r) = [t EXCEPT !.watermark = n]
    BY <1>8 DEF Changed, InMemory, Seen
  <2>4. n \in Nat BY <2>1 DEF mergeWatermark
  <2> HIDE DEF n
  <2> QED BY <2>2, <2>3, <2>4, WatermarkOk
<1>9. CASE r.kind = "cutoff"
  <2>1. r.payload \in Nat /\ old \in Nat BY <1>0, <1>9 DEF RowOk, Usable
  <2> DEFINE n == IF r.mode = "replace" \/ r.payload > old THEN r.payload ELSE old
  <2>2. Written(r, v, old, c) = Cell(Watermark, n) BY <1>9 DEF Written
  <2>3. Seen(t, r, old) => Changed(t, r) = [t EXCEPT !.watermark = n]
    BY <1>9 DEF Changed, InMemory, Seen
  <2>4. n \in Nat BY <2>1
  <2> HIDE DEF n
  <2> QED BY <2>2, <2>3, <2>4, WatermarkOk
<1>10. CASE r.kind = "apply"
  <2>1. r.payload \in Entry BY <1>0, <1>10 DEF RowOk
  <2>2. Written(r, v, old, c) = Applied(r.payload, v, old, c) BY <1>10 DEF Written
  <2>3. Changed(t, r) = Effect(t, r.payload) BY <1>10 DEF Changed
  <2>4. Seen(t, r, old) => (r.payload.op_type = "UPDATE" => old = t.docs[r.payload.id])
    BY <1>10 DEF Seen
  <2>5. r.payload.op_type = "UPDATE" => old \in Value BY <1>10 DEF Usable
  <2> QED BY <2>1, <2>2, <2>3, <2>4, <2>5, AppliedOk
<1> QED BY <1>0, <1>1, <1>2, <1>3, <1>4, <1>5, <1>6, <1>7, <1>8, <1>9, <1>10 DEF Kinds

(* What the entry of a row says.                                           *)
LEMMA OpRowOk ==
  ASSUME NEW r \in Rows, r.kind \in Plain \cup {"apply"}, NEW old, NEW n \in Nat,
         Dead \notin Content
  PROVE  OpRow(r, old, n) \in Entry /\ OpRow(r, old, n).id = IdOf(r)
<1>0. r.kind \in Kinds /\ RowOk(r) /\ r.id \in DocId \cup BlobId \cup {Absent} BY DEF Rows
<1>1. CASE r.kind = "apply" BY <1>0, <1>1 DEF RowOk, OpRow, IdOf
<1>2. CASE r.kind \in Plain
  <2> DEFINE p == IF r.payload = Dead THEN Absent ELSE r.payload
             e == [op_seq |-> n, op_type |-> Logged(r, old), id |-> r.id, payload |-> p]
  <2>1. OpRow(r, old, n) = e /\ IdOf(r) = r.id BY <1>2 DEF OpRow, IdOf, Plain
  <2>2. Logged(r, old) \in OpTypes BY <1>2 DEF Logged, OpTypes, Plain
  <2>3. /\ r.id \in DocId \cup BlobId /\ p \in Value \cup Content \cup {Absent}
        /\ EntryOk(e)
    <3>1. CASE r.kind \in {"add", "update", "replace"}
      <4>1. r.id \in DocId /\ r.payload \in Value BY <1>0, <3>1 DEF RowOk
      <4>2. p = r.payload BY <4>1, StengAssumption
      <4>3. Logged(r, old) \in {"ADD", "UPDATE", "REPLACE"} BY <3>1 DEF Logged
      <4> HIDE DEF p
      <4> QED BY <4>1, <4>2, <4>3 DEF EntryOk
    <3>2. CASE r.kind = "delete"
      <4>1. r.id \in DocId /\ p = Absent BY <1>0, <3>2 DEF RowOk
      <4>2. Logged(r, old) = "DELETE" BY <3>2 DEF Logged
      <4> HIDE DEF p
      <4> QED BY <4>1, <4>2 DEF EntryOk
    <3>3. CASE r.kind = "doc"
      <4>1. r.id \in DocId /\ r.payload \in Value \cup {Dead} BY <1>0, <3>3 DEF RowOk
      <4>2. CASE r.payload = Dead
        <5>1. p = Absent BY <4>2
        <5>2. Logged(r, old) = "DELETE" BY <3>3, <4>2 DEF Logged
        <5> HIDE DEF p
        <5> QED BY <4>1, <5>1, <5>2 DEF EntryOk
      <4>3. CASE r.payload # Dead
        <5>1. p = r.payload /\ r.payload \in Value BY <4>1, <4>3
        <5>2. Logged(r, old) \in {"ADD", "REPLACE"} BY <3>3, <4>3 DEF Logged
        <5> HIDE DEF p
        <5> QED BY <4>1, <5>1, <5>2 DEF EntryOk
      <4> QED BY <4>2, <4>3
    <3>4. CASE r.kind \in {"blob", "blob_add"}
      <4>1. r.id \in BlobId /\ r.payload \in Content BY <1>0, <3>4 DEF RowOk
      <4>2. Logged(r, old) = "BLOB_ADD" BY <3>4 DEF Logged
      <4>3. r.payload # Dead => p = r.payload OBVIOUS
      <4> HIDE DEF p
      <4> QED BY <4>1, <4>2, <4>3 DEF EntryOk
    <3>5. CASE r.kind = "blob_del"
      <4>1. r.id \in BlobId /\ p = Absent BY <1>0, <3>5 DEF RowOk
      <4>2. Logged(r, old) = "BLOB_DEL" BY <3>5 DEF Logged
      <4> HIDE DEF p
      <4> QED BY <4>1, <4>2 DEF EntryOk
    <3> QED BY <1>2, <3>1, <3>2, <3>3, <3>4, <3>5 DEF Plain
  <2>4. e \in [op_seq : Nat, op_type : OpTypes, id : DocId \cup BlobId,
               payload : Value \cup Content \cup {Absent}]
    BY <2>2, <2>3
  <2> HIDE DEF e
  <2> QED BY <2>1, <2>3, <2>4 DEF Entry, e
<1> QED BY <1>1, <1>2

-----------------------------------------------------------------------------
(* The inductive invariant.                                                *)

CallOk(p) ==
  /\ Ready(dialect, own[p], pc[p], rows[p], stages[p], got[p], last[p], done[p])
  /\ Owns(dialect, db, own[p], last[p], done[p])

(* No two transactions hold the same key.                                  *)
Disjoint == \A p, q \in Proc : p # q => DOMAIN own[p] \cap DOMAIN own[q] = {}
OneOpen == dialect = "sqlite" => \A p, q \in Proc : Open(p) /\ Open(q) => p = q

(* The log that a peer took over is committed.                             *)
CopyOk == dialect = "postgres" => copy \in Seq(Entry) /\ IsPrefix(copy, LogOf(db))

Getting == \A p \in Proc : gets[p] # NoGet => pc[p] = "get"

Arrays ==
  /\ own = [p \in Proc |-> own[p]] /\ pc = [p \in Proc |-> pc[p]]
  /\ conf = [p \in Proc |-> conf[p]]
  /\ rows = [p \in Proc |-> rows[p]] /\ stages = [p \in Proc |-> stages[p]]
  /\ got = [p \in Proc |-> got[p]] /\ last = [p \in Proc |-> last[p]]
  /\ done = [p \in Proc |-> done[p]] /\ gets = [p \in Proc |-> gets[p]]

Typed ==
  /\ dialect \in Dialects
  /\ Arrays
  /\ Contents(db)
  /\ \A p \in Proc : CallOk(p)
  /\ Disjoint
  /\ OneOpen
  /\ CopyOk
  /\ Getting

(* A call that is not open has written nothing.                            *)
LEMMA Closed ==
  ASSUME NEW p \in Proc, CallOk(p), ~Open(p)
  PROVE  own[p] = Nothing /\ last[p] = 0 /\ done[p] = <<>>
BY DEF CallOk, Ready, Open

(* What an open call sees is what it wrote over what is committed.         *)
LEMMA SeesOwn ==
  ASSUME Typed, NEW p \in Proc, Open(p)
  PROVE  Sees(p) = own[p] ++ db
<1>1. DOMAIN own[p] \subseteq Key /\ Contents(db) /\ Contents(own[p] ++ db)
  BY DEF Typed, CallOk, Owns, Held
<1>2. CASE dialect = "sqlite"
  <2> DEFINE v == own[p] ++ db
  <2>1. Outside = v
    <3>1. \A q \in Proc : Open(q) => q = p BY <1>2 DEF Typed, OneOpen
    <3>2. (CHOOSE q \in Proc : Open(q)) = p BY <3>1
    <3> QED BY <1>2, <3>2 DEF Outside
  <2>2. /\ v = [k \in Key |-> v[k]]
        /\ \A k \in Key : v[k] = IF k \in DOMAIN own[p] THEN own[p][k] ELSE db[k]
    BY <1>1, Overwritten DEF Contents
  <2> HIDE DEF v
  <2>3. /\ own[p] ++ v = [k \in Key |-> (own[p] ++ v)[k]]
        /\ \A k \in Key : (own[p] ++ v)[k] = IF k \in DOMAIN own[p] THEN own[p][k] ELSE v[k]
    BY <1>1, <2>2, Overwritten
  <2>4. \A k \in Key : (own[p] ++ v)[k] = v[k] BY <2>2, <2>3
  <2>5. own[p] ++ v = v BY <2>2, <2>3, <2>4
  <2> QED BY <2>1, <2>5 DEF Sees, v
<1>3. CASE dialect # "sqlite" BY <1>3 DEF Sees, Outside
<1> QED BY <1>2, <1>3

(* So is what a statement outside transactions sees.                       *)
LEMMA OutsideOk ==
  ASSUME Typed
  PROVE  /\ Contents(Outside)
         /\ \/ Outside = db
            \/ \E q \in Proc : dialect = "sqlite" /\ Open(q) /\ Outside = own[q] ++ db
<1>1. CASE dialect = "sqlite" /\ \E q \in Proc : Open(q)
  <2> DEFINE q == CHOOSE r \in Proc : Open(r)
  <2>1. q \in Proc /\ Open(q) BY <1>1
  <2>2. Outside = own[q] ++ db BY <1>1 DEF Outside
  <2> HIDE DEF q
  <2>3. Contents(own[q] ++ db) BY <2>1 DEF Typed, CallOk, Owns
  <2> QED BY <1>1, <2>1, <2>2, <2>3
<1>2. CASE ~(dialect = "sqlite" /\ \E q \in Proc : Open(q))
  BY <1>2, Zenon DEF Outside, Typed
<1> QED BY <1>1, <1>2

(* The other calls stay where they are.                                    *)
Others(p) ==
  \A q \in Proc \ {p} :
    /\ own'[q] = own[q] /\ pc'[q] = pc[q] /\ rows'[q] = rows[q] /\ stages'[q] = stages[q]
    /\ got'[q] = got[q] /\ last'[q] = last[q] /\ done'[q] = done[q]

(* One call takes a step.                                                  *)
LEMMA OneCall ==
  ASSUME Typed, NEW p \in Proc, UNCHANGED <<dialect, db, copy>>, Arrays', Others(p),
         CallOk(p)', Getting',
         \A q \in Proc \ {p} : DOMAIN own'[p] \cap DOMAIN own[q] = {},
         Open(p)' => Open(p) \/ dialect = "postgres" \/ \A q \in Proc : ~Open(q)
  PROVE  Typed'
<1>1. ASSUME NEW q \in Proc PROVE CallOk(q)'
  <2>1. CASE q = p BY <2>1
  <2>2. CASE q # p
    <3>1. CallOk(q) BY DEF Typed
    <3> QED BY <2>2, <3>1 DEF Others, CallOk
  <2> QED BY <2>1, <2>2
<1>2. Disjoint'
  <2>1. SUFFICES ASSUME NEW q \in Proc, NEW r \in Proc, q # r
                 PROVE  DOMAIN own'[q] \cap DOMAIN own'[r] = {}
    BY DEF Disjoint
  <2>2. DOMAIN own[q] \cap DOMAIN own[r] = {} BY <2>1 DEF Typed, Disjoint
  <2> QED BY <2>1, <2>2 DEF Others
<1>3. OneOpen'
  <2>1. SUFFICES ASSUME dialect = "sqlite", NEW q \in Proc, NEW r \in Proc, Open(q)', Open(r)'
                 PROVE  q = r
    BY DEF OneOpen
  <2>2. \A s \in Proc : s # p => (Open(s)' <=> Open(s)) BY DEF Others, Open
  <2>3. \A s, t \in Proc : Open(s) /\ Open(t) => s = t BY <2>1 DEF Typed, OneOpen
  <2> QED BY <2>1, <2>2, <2>3
<1>4. CopyOk' BY DEF Typed, CopyOk
<1>5. Contents(db)' /\ dialect' \in Dialects BY DEF Typed
<1> QED BY <1>1, <1>2, <1>3, <1>4, <1>5, Zenon DEF Typed

(* A call that is over.                                                    *)
LEMMA OverFields ==
  ASSUME Typed, NEW p \in Proc, Over(p), UNCHANGED gets \/ gets' = [q \in Proc |-> gets'[q]]
  PROVE  /\ Arrays' /\ Others(p)
         /\ own'[p] = Nothing /\ pc'[p] = "idle" /\ rows'[p] = <<>> /\ stages'[p] = <<>>
         /\ got'[p] = Absent /\ last'[p] = 0 /\ done'[p] = <<>>
BY DEF Typed, Arrays, Others, Over

LEMMA RollbackStep ==
  ASSUME Typed, NEW p \in Proc, Rollback(p), pc[p] \in {"called", "open"}
  PROVE  Typed'
<1>1. Over(p) /\ UNCHANGED <<dialect, db, copy, gets>> BY DEF Rollback
<1>2. /\ Arrays' /\ Others(p)
      /\ own'[p] = Nothing /\ pc'[p] = "idle" /\ rows'[p] = <<>> /\ stages'[p] = <<>>
      /\ got'[p] = Absent /\ last'[p] = 0 /\ done'[p] = <<>>
  BY <1>1, OverFields
<1>3. CallOk(p)'
  <2>1. Ready(dialect', Nothing, "idle", <<>>, <<>>, Absent, 0, <<>>) BY ReadyIdle
  <2>2. Owns(dialect', db', Nothing, 0, <<>>) BY <1>1, OwnsNothing DEF Typed
  <2> QED BY <1>2, <2>1, <2>2 DEF CallOk
<1>4. DOMAIN own'[p] = {} BY <1>2 DEF Nothing
<1>5. ~Open(p)' BY <1>2 DEF Open
<1>6. Getting' BY <1>1, <1>2 DEF Typed, Getting, Others
<1> QED BY <1>1, <1>2, <1>3, <1>4, <1>5, <1>6, OneCall

-----------------------------------------------------------------------------
(* Each action keeps the invariant.  First the calls that arrive.          *)

LEMMA ArriveStep ==
  ASSUME Typed, NEW p \in Proc, NEW rs \in Seq(Rows), InOrder(dialect, rs), Arrive(p, rs)
  PROVE  Typed'
<1>1. /\ pc[p] = "idle" /\ UNCHANGED <<dialect, db, own, got, last, done, copy, gets>>
      /\ pc' = [pc EXCEPT ![p] = "called"]
      /\ conf' = [conf EXCEPT ![p] = Outside[Config]]
      /\ rows' = [rows EXCEPT ![p] = rs] /\ stages' = [stages EXCEPT ![p] = StagesOf(rs)]
  BY Zenon DEF Arrive
<1>2. /\ Arrays' /\ Others(p)
      /\ pc'[p] = "called" /\ rows'[p] = rs /\ stages'[p] = StagesOf(rs)
  BY <1>1 DEF Typed, Arrays, Others
<1>3. own[p] = Nothing /\ last[p] = 0 /\ done[p] = <<>> BY <1>1, Closed DEF Open, Typed
<1>4. CallOk(p)'
  <2>1. Ready(dialect', Nothing, "called", rs, StagesOf(rs), got'[p], 0, <<>>)
    BY <1>1, ReadyCalled
  <2>2. Owns(dialect', db', Nothing, 0, <<>>) BY <1>1, OwnsNothing DEF Typed
  <2> QED BY <1>1, <1>2, <1>3, <2>1, <2>2 DEF CallOk
<1>5. DOMAIN own'[p] = {} BY <1>1, <1>3 DEF Nothing
<1>6. ~Open(p)' BY <1>2 DEF Open
<1>7. Getting' BY <1>1, <1>2 DEF Typed, Getting, Others
<1> QED BY <1>1, <1>2, <1>4, <1>5, <1>6, <1>7, OneCall

(* A row, from what it is made of.                                         *)
LEMMA RowIs ==
  ASSUME NEW kind \in Kinds, NEW id \in DocId \cup BlobId \cup {Absent}, NEW payload \in Payload,
         NEW mode \in Modes, RowOk(Row(kind, id, payload, mode))
  PROVE  Row(kind, id, payload, mode) \in Rows /\ Row(kind, id, payload, mode).kind = kind
<1> DEFINE r == Row(kind, id, payload, mode)
<1>1. /\ r \in [kind : Kinds, id : DocId \cup BlobId \cup {Absent}, payload : Payload, mode : Modes]
      /\ r.kind = kind
  BY DEF Row
<1> HIDE DEF r
<1>2. RowOk(r) BY DEF r
<1> QED BY <1>1, <1>2 DEF Rows, r

LEMMA CallStep ==
  ASSUME Setting, Typed, NEW p \in Proc, Call(p)
  PROVE  Typed'
<1>1. PICK rs \in Calls[dialect] : Arrive(p, rs) BY DEF Call
<1>2. rs \in Seq(Rows) /\ InOrder(dialect, rs) BY DEF Typed, Setting
<1> QED BY <1>1, <1>2, ArriveStep

(* A configuration is only added on SQLite.                                *)
LEMMA AddIndexStep ==
  ASSUME Setting, Typed, NEW p \in Proc, AddIndex(p)
  PROVE  Typed'
<1>1. PICK f \in NewIndexes[dialect] :
        Arrive(p, <<Row("config", Absent, Outside[Config] \cup {f}, "rebuild")>>)
  BY DEF AddIndex
<1>2. dialect \in Dialects BY DEF Typed
<1>3. dialect = "sqlite"
  BY <1>1, <1>2, SqlStengAssumption DEF Setting
<1> DEFINE c == Outside[Config] \cup {f}
           r == Row("config", Absent, c, "rebuild")
<1>4. c \in SUBSET IndexNames
  <2>1. Outside[Config] \in SUBSET IndexNames BY OutsideOk DEF Contents
  <2>2. f \in IndexNames BY <1>1, <1>2 DEF IndexNames
  <2> QED BY <2>1, <2>2
<1> HIDE DEF c
<1>5. r \in Rows /\ r.kind = "config"
  <2>1. "config" \in Kinds /\ c \in Payload /\ "rebuild" \in Modes BY <1>4 DEF Kinds, Payload, Modes
  <2>2. RowOk(r) BY <1>4 DEF Row, RowOk
  <2> QED BY <2>1, <2>2, RowIs
<1> HIDE DEF r
<1>6. <<r>> \in Seq(Rows) /\ InOrder(dialect, <<r>>)
  <2>1. <<r>> \in Seq(Rows) /\ DOMAIN <<r>> = {1} /\ <<r>>[1] = r BY <1>5
  <2> QED BY <1>3, <1>5, <2>1 DEF InOrder
<1> QED BY <1>1, <1>6, ArriveStep DEF r, c

(* The elements of a finite set, one after the other.                      *)
LEMMA SetAsSeq ==
  ASSUME NEW S, IsFiniteSet(S)
  PROVE  SetToSeq(S) \in Seq(S)
<1> DEFINE n == Cardinality(S)
<1>1. n \in Nat /\ ExistsBijection(1..n, S) BY FS_CardinalityType
<1>2. PICK f : f \in Bijection(1..n, S) BY <1>1 DEF ExistsBijection
<1>3. f \in [1..n -> S] /\ \A a, b \in 1..n : f[a] = f[b] => a = b
  BY <1>2 DEF Bijection, Injection, IsInjective
<1>4. IsInjective(f) BY <1>3 DEF IsInjective
<1>5. SetToSeq(S) \in [1..n -> S] BY <1>3, <1>4 DEF SetToSeq
<1> QED BY <1>1, <1>5

(* Retention deletes documents and then moves the cutoff.                  *)
LEMMA RetentionRows ==
  ASSUME Setting, NEW p \in Proc, RunRetention(p)
  PROVE  \E rs \in Seq(Rows) : /\ Arrive(p, rs)
                               /\ \A i \in DOMAIN rs : rs[i].kind \in {"delete", "cutoff"}
<1>1. PICK cutoff \in Cutoffs :
        LET old == Expired(cutoff)
        IN Arrive(p, [i \in DOMAIN old |-> Row("delete", old[i], Absent, "none")]
                     \o <<Row("cutoff", Absent, cutoff,
                              IF old = <<>> THEN "none" ELSE "replace")>>)
  BY Zenon DEF RunRetention
<1> DEFINE old == Expired(cutoff)
           a == [i \in DOMAIN old |-> Row("delete", old[i], Absent, "none")]
           r == Row("cutoff", Absent, cutoff, IF old = <<>> THEN "none" ELSE "replace")
           rs == a \o <<r>>
<1>2. old \in Seq(DocId)
  <2> DEFINE S == {d \in Live(TableOf(Outside)) : DocTime[d] < cutoff}
  <2>1. S \subseteq DocId BY DEF Live
  <2>2. IsFiniteSet(S) BY <2>1, FS_Subset DEF Setting
  <2> HIDE DEF S
  <2>3. SetToSeq(S) \in Seq(S) BY <2>2, SetAsSeq
  <2>4. SetToSeq(S) \in Seq(DocId) BY <2>1, <2>3
  <2> QED BY <2>4 DEF S, Expired
<1> HIDE DEF old
<1>3. a \in Seq(Rows) /\ \A i \in 1..Len(a) : a[i].kind = "delete"
  <2>1. DOMAIN old = 1..Len(old) /\ Len(old) \in Nat BY <1>2
  <2>2. \A i \in 1..Len(old) : /\ Row("delete", old[i], Absent, "none") \in Rows
                               /\ Row("delete", old[i], Absent, "none").kind = "delete"
    <3>1. SUFFICES ASSUME NEW d \in DocId
                   PROVE  /\ Row("delete", d, Absent, "none") \in Rows
                          /\ Row("delete", d, Absent, "none").kind = "delete"
      BY <1>2
    <3>2. "delete" \in Kinds /\ Absent \in Payload /\ "none" \in Modes BY DEF Kinds, Payload, Modes
    <3>3. RowOk(Row("delete", d, Absent, "none")) BY DEF Row, RowOk
    <3> QED BY <3>2, <3>3, RowIs
  <2>3. a = [i \in 1..Len(old) |-> Row("delete", old[i], Absent, "none")] BY <2>1
  <2>4. a \in [1..Len(old) -> Rows] /\ \A i \in 1..Len(old) : a[i].kind = "delete"
    BY <2>2, <2>3
  <2> HIDE DEF a
  <2> QED BY <2>1, <2>4
<1>4. r \in Rows /\ r.kind = "cutoff"
  <2>1. cutoff \in Nat BY SqlStengAssumption
  <2>2. "cutoff" \in Kinds /\ cutoff \in Payload BY <2>1 DEF Kinds, Payload
  <2>3. RowOk(r) BY <2>1 DEF Row, RowOk
  <2> DEFINE mode == IF old = <<>> THEN "none" ELSE "replace"
  <2>4. mode \in Modes BY DEF Modes
  <2> HIDE DEF mode
  <2>5. r = Row("cutoff", Absent, cutoff, mode) BY DEF mode
  <2> QED BY <2>2, <2>3, <2>4, <2>5, RowIs
<1> HIDE DEF a, r
<1>5. rs \in Seq(Rows) /\ \A i \in DOMAIN rs : rs[i].kind \in {"delete", "cutoff"}
  <2>1. <<r>> \in Seq(Rows) /\ Len(<<r>>) = 1 /\ <<r>>[1] = r BY <1>4
  <2>2. rs \in Seq(Rows) /\ Len(rs) = Len(a) + 1 BY <1>3, <2>1
  <2>3. \A i \in 1..Len(rs) : rs[i] = IF i <= Len(a) THEN a[i] ELSE <<r>>[i - Len(a)]
    BY <1>3, <2>1
  <2>4. DOMAIN rs = 1..Len(rs) /\ Len(a) \in Nat BY <2>2, <1>3
  <2> HIDE DEF rs
  <2>5. ASSUME NEW i \in DOMAIN rs PROVE rs[i].kind \in {"delete", "cutoff"}
    <3>1. CASE i <= Len(a)
      <4>1. i \in 1..Len(a) /\ rs[i] = a[i] BY <3>1, <2>3, <2>4
      <4> QED BY <4>1, <1>3
    <3>2. CASE ~(i <= Len(a))
      <4>1. i = Len(a) + 1 BY <3>2, <2>2, <2>4
      <4>2. i - Len(a) = 1 BY <4>1, <2>4
      <4>3. rs[i] = r BY <3>2, <4>2, <2>1, <2>3, <2>4
      <4> QED BY <4>3, <1>4
    <3> QED BY <3>1, <3>2
  <2> QED BY <2>2, <2>5
<1> HIDE DEF rs
<1>6. Arrive(p, rs) BY <1>1 DEF rs, a, r, old
<1> QED BY <1>5, <1>6

LEMMA RunRetentionStep ==
  ASSUME Setting, Typed, NEW p \in Proc, RunRetention(p)
  PROVE  Typed'
<1>1. PICK rs \in Seq(Rows) : /\ Arrive(p, rs)
                              /\ \A i \in DOMAIN rs : rs[i].kind \in {"delete", "cutoff"}
  BY RetentionRows
<1>2. InOrder(dialect, rs) BY <1>1 DEF InOrder
<1> QED BY <1>1, <1>2, ArriveStep

(* A transaction begins.                                                   *)
LEMMA BeginStep ==
  ASSUME Typed, NEW p \in Proc, Begin(p)
  PROVE  Typed'
<1>0. pc[p] = "called" BY DEF Begin
<1>1. CASE Rollback(p) BY <1>0, <1>1, RollbackStep
<1>2. CASE /\ ~(dialect = "sqlite" /\ \E q \in Proc : Open(q))
           /\ pc' = [pc EXCEPT ![p] = "open"]
           /\ gets' = IF dialect = "sqlite" THEN Disturbed(DocId) ELSE gets
           /\ UNCHANGED <<dialect, db, own, conf, rows, stages, got, last, done, copy>>
  <2>1. Arrays' /\ Others(p) /\ pc'[p] = "open"
    BY <1>2 DEF Typed, Arrays, Others, Disturbed
  <2>2. \A q \in Proc : gets'[q] # NoGet => gets[q] # NoGet
    BY <1>2 DEF Disturbed
  <2>3. Getting' BY <1>0, <2>1, <2>2 DEF Typed, Getting, Others
  <2>4. CallOk(p)'
    <3>1. CallOk(p) BY DEF Typed
    <3>2. Ready(dialect, own[p], "called", rows[p], stages[p], got[p], last[p], done[p])
      BY <1>0, <3>1 DEF CallOk
    <3>3. Ready(dialect, own[p], "open", rows[p], stages[p], got[p], last[p], done[p])
      BY <3>2, ReadyOpen
    <3> QED BY <1>2, <2>1, <3>1, <3>3 DEF CallOk
  <2>5. \A q \in Proc \ {p} : DOMAIN own'[p] \cap DOMAIN own[q] = {}
    BY <1>2 DEF Typed, Disjoint
  <2>6. Open(p)' => dialect = "postgres" \/ \A q \in Proc : ~Open(q)
    BY <1>2, SqlStengAssumption DEF Typed
  <2> QED BY <1>2, <2>1, <2>3, <2>4, <2>5, <2>6, OneCall
<1> QED BY <1>1, <1>2 DEF Begin

-----------------------------------------------------------------------------
(* The statements of a transaction.                                        *)

(* What they find.                                                         *)
LEMMA AtFacts ==
  ASSUME Typed, NEW p \in Proc, NEW stage, At(p, stage)
  PROVE  /\ pc[p] = "open" /\ rows[p] # <<>> /\ Head(stages[p]) = stage
         /\ rows[p] \in Seq(Rows) /\ Head(rows[p]) \in Rows /\ Head(rows[p]) = rows[p][1]
         /\ 1 \in DOMAIN rows[p]
         /\ stages[p] \in LeftOf(Head(rows[p]))
         /\ Sees(p) = own[p] ++ db /\ Contents(own[p] ++ db) /\ Contents(db)
         /\ Ready(dialect, own[p], "open", rows[p], stages[p], got[p], last[p], done[p])
         /\ Owns(dialect, db, own[p], last[p], done[p])
<1>1. pc[p] = "open" /\ rows[p] # <<>> /\ Head(stages[p]) = stage BY DEF At, Open
<1>2. CallOk(p) /\ Contents(db) BY DEF Typed
<1>3. /\ Ready(dialect, own[p], "open", rows[p], stages[p], got[p], last[p], done[p])
      /\ Owns(dialect, db, own[p], last[p], done[p])
  BY <1>1, <1>2 DEF CallOk
<1>4. rows[p] \in Seq(Rows) /\ stages[p] \in LeftOf(Head(rows[p]))
  BY <1>1, <1>3 DEF Ready, Staged
<1>5. Head(rows[p]) \in Rows /\ Head(rows[p]) = rows[p][1] /\ 1 \in DOMAIN rows[p]
  BY <1>1, <1>4
<1>6. Sees(p) = own[p] ++ db BY <1>1, SeesOwn DEF Open
<1> QED BY <1>1, <1>2, <1>3, <1>4, <1>5, <1>6 DEF Owns

(* The row at hand is dropped, or done, or has its next statement.         *)
Skips(p) ==
  /\ rows'[p] = Tail(rows[p]) /\ stages'[p] = StagesOf(Tail(rows[p]))
  /\ done'[p] = done[p]
Finishes(p) ==
  /\ rows'[p] = Tail(rows[p]) /\ stages'[p] = StagesOf(Tail(rows[p]))
  /\ done'[p] = Append(done[p], Head(rows[p]))
Stays(p) ==
  /\ rows'[p] = rows[p] /\ stages'[p] = Tail(stages[p]) /\ done'[p] = done[p]

(* What a statement changes of its own call, and of no other one.          *)
LEMMA StatementFields ==
  ASSUME Typed, NEW p \in Proc, UNCHANGED <<dialect, db, pc, conf, gets>>,
         NEW o, (UNCHANGED own /\ o = own[p]) \/ own' = [own EXCEPT ![p] = o],
         NEW g, (UNCHANGED got /\ g = got[p]) \/ got' = [got EXCEPT ![p] = g],
         NEW l, (UNCHANGED last /\ l = last[p]) \/ last' = [last EXCEPT ![p] = l],
         (NextRow(p) /\ UNCHANGED done) \/ Advance(p)
  PROVE  /\ Arrays' /\ Others(p) /\ own'[p] = o /\ got'[p] = g /\ last'[p] = l
         /\ NextRow(p) /\ UNCHANGED done => Skips(p)
         /\ Advance(p) => IF Len(stages[p]) = 1 THEN Finishes(p) ELSE Stays(p)
<1>1. Arrays' /\ Others(p) /\ own'[p] = o /\ got'[p] = g /\ last'[p] = l
  BY DEF Typed, Arrays, Others, NextRow, Advance
<1>2. /\ rows = [q \in Proc |-> rows[q]] /\ stages = [q \in Proc |-> stages[q]]
      /\ done = [q \in Proc |-> done[q]]
  BY Zenon DEF Typed, Arrays
<1>3. ASSUME NextRow(p)
      PROVE  rows'[p] = Tail(rows[p]) /\ stages'[p] = StagesOf(Tail(rows[p]))
  BY <1>2, <1>3 DEF NextRow
<1>4. NextRow(p) /\ UNCHANGED done => Skips(p) BY <1>3 DEF Skips
<1>5. ASSUME Advance(p), Len(stages[p]) = 1 PROVE Finishes(p)
  <2>1. NextRow(p) /\ done' = [done EXCEPT ![p] = Append(@, Head(rows[p]))]
    BY <1>5 DEF Advance
  <2>2. done'[p] = Append(done[p], Head(rows[p])) BY <1>2, <2>1
  <2> QED BY <1>3, <2>1, <2>2 DEF Finishes
<1>6. ASSUME Advance(p), Len(stages[p]) # 1 PROVE Stays(p)
  BY <1>2, <1>6 DEF Stays, Advance
<1> QED BY <1>1, <1>4, <1>5, <1>6

(* A statement of one transaction that others do not notice.               *)
LEMMA StatementStep ==
  ASSUME Typed, NEW p \in Proc, NEW stage, At(p, stage),
         UNCHANGED <<dialect, db, copy, pc, conf, gets>>,
         NEW o, (UNCHANGED own /\ o = own[p]) \/ own' = [own EXCEPT ![p] = o],
         NEW g, (UNCHANGED got /\ g = got[p]) \/ got' = [got EXCEPT ![p] = g],
         NEW l, (UNCHANGED last /\ l = last[p]) \/ last' = [last EXCEPT ![p] = l],
         (NextRow(p) /\ UNCHANGED done) \/ Advance(p),
         Owns(dialect, db, o, l, done'[p]),
         \A q \in Proc \ {p} : DOMAIN o \cap DOMAIN own[q] = {},
         Len(stages[p]) # 1 /\ Stays(p) =>
           ReadOk(rows[p], Tail(stages[p]), g) /\ OpOk(rows[p], Tail(stages[p]), l)
  PROVE  Typed'
<1>0. /\ pc[p] = "open" /\ rows[p] # <<>>
      /\ Ready(dialect, own[p], "open", rows[p], stages[p], got[p], last[p], done[p])
  BY AtFacts
<1>1. /\ Arrays' /\ Others(p) /\ own'[p] = o /\ got'[p] = g /\ last'[p] = l
      /\ NextRow(p) /\ UNCHANGED done => Skips(p)
      /\ Advance(p) => IF Len(stages[p]) = 1 THEN Finishes(p) ELSE Stays(p)
  BY StatementFields
<1>2. /\ Skips(p) \/ Finishes(p) \/ (Len(stages[p]) # 1 /\ Stays(p))
      /\ pc'[p] = "open"
  BY <1>0, <1>1
<1>3. Ready(dialect, o, "open", rows'[p], stages'[p], g, l, done'[p])
  <2>1. CASE Skips(p) \/ Finishes(p)
    <3>1. Ready(dialect, o, "open", Tail(rows[p]), StagesOf(Tail(rows[p])), g, l, done'[p])
      BY <1>0, ReadyNext
    <3> QED BY <2>1, <3>1 DEF Skips, Finishes
  <2>2. CASE Len(stages[p]) # 1 /\ Stays(p)
    <3>1. Ready(dialect, o, "open", rows[p], Tail(stages[p]), g, l, done'[p])
      BY <1>0, <2>2, ReadyStay
    <3> QED BY <2>2, <3>1 DEF Stays
  <2> QED BY <1>2, <2>1, <2>2
<1>4. CallOk(p)' BY <1>1, <1>2, <1>3 DEF CallOk
<1>5. Getting' BY DEF Typed, Getting
<1>6. Open(p) BY <1>0 DEF Open
<1> QED BY <1>1, <1>4, <1>5, <1>6, OneCall


-----------------------------------------------------------------------------

(* A document that is read before it is written.                           *)
LEMMA ReadFinds ==
  ASSUME NEW v, Contents(v), NEW r \in Rows, NEW ss \in LeftOf(r), Head(ss) = "read"
  PROVE  /\ v[ReadKey(r)] = CASE r.kind \in {"cutoff", "merge"} -> v[Watermark]
                               [] r.kind = "blob" -> v[BlobKey(r.id)]
                               [] r.kind = "apply" -> v[DocKey(r.payload.id)]
                               [] OTHER -> v[DocKey(r.id)]
         /\ ~Fails(r, v[ReadKey(r)]) => Usable(r, v[ReadKey(r)])
         /\ ~Fails(r, v[ReadKey(r)]) => Seen(TableOf(v), r, v[ReadKey(r)])
<1> DEFINE old == v[ReadKey(r)]
           t == TableOf(v)
<1>0. /\ RowOk(r) /\ r.kind \in {"update", "delete", "doc", "blob", "cutoff", "merge", "apply"}
      /\ r.kind = "apply" => r.payload.op_type \in {"UPDATE", "DELETE"}
  BY LeftFacts DEF Rows
<1>a. /\ t.docs = [d \in DocId |-> v[DocKey(d)]] /\ t.watermark = v[Watermark]
      /\ Live(t) = {d \in DocId : v[DocKey(d)] \notin {Absent, Dead}}
  BY TableFields
<1>b. v[Watermark] \in Nat /\ \A d \in DocId : v[DocKey(d)] \in Doc BY DEF Contents
<1> HIDE DEF t
<1>1. \A d \in DocId : /\ t.docs[d] = v[DocKey(d)] /\ v[DocKey(d)] \in Doc
                       /\ v[DocKey(d)] \notin {Absent, Dead} => d \in Live(t) /\ v[DocKey(d)] \in Value
  BY <1>a, <1>b DEF Doc
<1>2. t.watermark = v[Watermark] /\ v[Watermark] \in Nat BY <1>a, <1>b
<1>3. CASE r.kind \in {"cutoff", "merge"}
  <2>1. old = v[Watermark] BY <1>3 DEF ReadKey
  <2> QED BY <1>2, <1>3, <2>1 DEF Usable, Seen, t
<1>4. CASE r.kind = "blob"
  <2>1. old = v[BlobKey(r.id)] BY <1>4 DEF ReadKey
  <2> QED BY <1>4, <2>1 DEF Usable, Seen
<1>5. CASE r.kind = "apply"
  <2> DEFINE op == r.payload
  <2>1. old = v[DocKey(op.id)] BY <1>5 DEF ReadKey
  <2>2. op.id \in DocId BY <1>0, <1>5 DEF RowOk, Entry, EntryOk
  <2>3. ~Fails(r, old) => (op.op_type = "UPDATE" => old \notin {Absent, Dead})
    BY <1>5 DEF Fails
  <2> HIDE DEF op
  <2>4. ~Fails(r, old) /\ op.op_type = "UPDATE" => old \in Value /\ op.id \in Live(t) /\ old = t.docs[op.id]
    BY <1>1, <2>1, <2>2, <2>3
  <2>5. Usable(r, old) <=> (op.op_type = "UPDATE" => old \in Value) BY <1>5 DEF Usable, op
  <2>6. Seen(t, r, old) <=> (op.op_type = "UPDATE" => old = t.docs[op.id] /\ op.id \in Live(t))
    BY <1>5 DEF Seen, op
  <2> QED BY <1>5, <2>1, <2>4, <2>5, <2>6 DEF t, op
<1>6. CASE r.kind \in {"update", "delete", "doc"}
  <2>1. old = v[DocKey(r.id)] /\ r.id \in DocId BY <1>0, <1>6 DEF ReadKey, RowOk
  <2>2. ~Fails(r, old) => (r.kind = "update" => old \notin {Absent, Dead}) BY DEF Fails
  <2>3. ~Fails(r, old) /\ r.kind = "update" => old \in Value /\ r.id \in Live(t) /\ old = t.docs[r.id]
    BY <1>1, <2>1, <2>2
  <2>4. old = t.docs[r.id] BY <1>1, <2>1
  <2> QED BY <1>6, <2>1, <2>3, <2>4 DEF Usable, Seen, t
<1> QED BY <1>0, <1>3, <1>4, <1>5, <1>6

(* What is read is of use to the write that follows.                       *)
LEMMA UsableIs ==
  ASSUME NEW rs, rs # <<>>, NEW ss, NEW g
  PROVE  ReadOk(rs, ss, g) <=> (Head(ss) = "write" => Usable(Head(rs), g))
BY DEF ReadOk, Usable

(* Nothing else of the state moves with a statement.                       *)
LEMMA ReadStep ==
  ASSUME Typed, NEW p \in Proc, Read(p)
  PROVE  Typed'
<1> DEFINE r == Head(rows[p])
           old == Sees(p)[ReadKey(r)]
<1>1. /\ At(p, "read")
      /\ \/ Rollback(p)
         \/ /\ NextRow(p)
            /\ UNCHANGED <<dialect, db, own, pc, conf, got, last, done, copy, gets>>
         \/ /\ ~Fails(r, old) /\ Advance(p) /\ got' = [got EXCEPT ![p] = old]
            /\ UNCHANGED <<dialect, db, own, pc, conf, last, copy, gets>>
  BY Zenon DEF Read
<1>2. /\ pc[p] = "open" /\ rows[p] # <<>> /\ Head(stages[p]) = "read"
      /\ r \in Rows /\ stages[p] \in LeftOf(r)
      /\ Sees(p) = own[p] ++ db /\ Contents(own[p] ++ db)
      /\ Ready(dialect, own[p], "open", rows[p], stages[p], got[p], last[p], done[p])
      /\ Owns(dialect, db, own[p], last[p], done[p])
  BY <1>1, AtFacts
<1>3. \A q \in Proc \ {p} : DOMAIN own[p] \cap DOMAIN own[q] = {} BY DEF Typed, Disjoint
<1>4. CASE Rollback(p) BY <1>2, <1>4, RollbackStep
<1>5. Len(stages[p]) # 1 BY <1>2, LeftFacts
<1>6. CASE /\ NextRow(p)
           /\ UNCHANGED <<dialect, db, own, pc, conf, got, last, done, copy, gets>>
  <2>1. rows[p] \in Seq(Rows) BY <1>1, AtFacts
  <2>2. ~Stays(p)
    <3>1. rows'[p] = Tail(rows[p]) BY <1>6 DEF NextRow, Typed, Arrays
    <3>2. Len(Tail(rows[p])) # Len(rows[p]) BY <1>2, <2>1
    <3> QED BY <3>1, <3>2 DEF Stays
  <2>3. Owns(dialect, db, own[p], last[p], done'[p]) BY <1>2, <1>6
  <2> QED BY <1>1, <1>3, <1>6, <2>2, <2>3, StatementStep
<1>7. CASE /\ ~Fails(r, old) /\ Advance(p) /\ got' = [got EXCEPT ![p] = old]
           /\ UNCHANGED <<dialect, db, own, pc, conf, last, copy, gets>>
  <2>1. done'[p] = done[p] BY <1>5, <1>7 DEF Advance
  <2>2. Owns(dialect, db, own[p], last[p], done'[p]) BY <1>2, <2>1
  <2>3. Usable(r, old) BY <1>2, <1>7, ReadFinds
  <2>4. ReadOk(rows[p], Tail(stages[p]), old) BY <1>2, <2>3, UsableIs
  <2>5. OpOk(rows[p], Tail(stages[p]), last[p]) BY <1>2 DEF Ready, OpOk
  <2> HIDE DEF old
  <2> QED BY <1>1, <1>3, <1>7, <2>2, <2>4, <2>5, StatementStep
<1> QED BY <1>1, <1>4, <1>6, <1>7

LEMMA CheckStep ==
  ASSUME Typed, NEW p \in Proc, Check(p)
  PROVE  Typed'
<1> DEFINE r == Head(rows[p])
           n == r.payload.op_seq
<1>1. /\ At(p, "check")
      /\ \/ Rollback(p)
         \/ /\ NextRow(p)
            /\ UNCHANGED <<dialect, db, own, pc, conf, got, last, done, copy, gets>>
         \/ /\ n = last[p] + 1 /\ Advance(p)
            /\ UNCHANGED <<dialect, db, own, pc, conf, got, last, copy, gets>>
  BY Zenon DEF Check
<1>2. /\ pc[p] = "open" /\ rows[p] # <<>> /\ Head(stages[p]) = "check"
      /\ r \in Rows /\ stages[p] \in LeftOf(r)
      /\ Ready(dialect, own[p], "open", rows[p], stages[p], got[p], last[p], done[p])
      /\ Owns(dialect, db, own[p], last[p], done[p])
  BY <1>1, AtFacts
<1>3. \A q \in Proc \ {p} : DOMAIN own[p] \cap DOMAIN own[q] = {} BY DEF Typed, Disjoint
<1>4. CASE Rollback(p) BY <1>2, <1>4, RollbackStep
<1>5. /\ Len(stages[p]) # 1 /\ r.kind = "apply"
      /\ Head(Tail(stages[p])) = "write" => r.payload.op_type \notin {"UPDATE", "DELETE"}
  BY <1>2, LeftFacts
<1>6. CASE /\ NextRow(p)
           /\ UNCHANGED <<dialect, db, own, pc, conf, got, last, done, copy, gets>>
  <2>1. rows[p] \in Seq(Rows) BY <1>1, AtFacts
  <2>2. ~Stays(p)
    <3>1. rows'[p] = Tail(rows[p]) BY <1>6 DEF NextRow, Typed, Arrays
    <3>2. Len(Tail(rows[p])) # Len(rows[p]) BY <1>2, <2>1
    <3> QED BY <3>1, <3>2 DEF Stays
  <2>3. Owns(dialect, db, own[p], last[p], done'[p]) BY <1>2, <1>6
  <2> QED BY <1>1, <1>3, <1>6, <2>2, <2>3, StatementStep
<1>7. CASE /\ n = last[p] + 1 /\ Advance(p)
           /\ UNCHANGED <<dialect, db, own, pc, conf, got, last, copy, gets>>
  <2>1. done'[p] = done[p] BY <1>5, <1>7 DEF Advance
  <2>2. Owns(dialect, db, own[p], last[p], done'[p]) BY <1>2, <2>1
  <2>3. Head(Tail(stages[p])) = "write" => Usable(r, got[p]) BY <1>5 DEF Usable
  <2>4. ReadOk(rows[p], Tail(stages[p]), got[p]) BY <1>2, <2>3, UsableIs
  <2>5. OpOk(rows[p], Tail(stages[p]), last[p]) BY <1>7 DEF OpOk
  <2> QED BY <1>1, <1>3, <1>7, <2>2, <2>4, <2>5, StatementStep
<1> QED BY <1>1, <1>4, <1>6, <1>7

(* latestSeqTx.                                                            *)
LEMMA Seq1Step ==
  ASSUME Typed, NEW p \in Proc, Seq1(p)
  PROVE  Typed'
<1> DEFINE r == Head(rows[p])
           v == own[p] ++ db
<1>1. /\ At(p, "seq") /\ last' = [last EXCEPT ![p] = latestSeq(Sees(p))] /\ Advance(p)
      /\ UNCHANGED <<dialect, db, own, pc, conf, got, copy, gets>>
  BY DEF Seq1
<1>2. /\ rows[p] # <<>> /\ Head(stages[p]) = "seq"
      /\ r \in Rows /\ stages[p] \in LeftOf(r) /\ Sees(p) = v /\ Contents(v)
      /\ Ready(dialect, own[p], "open", rows[p], stages[p], got[p], last[p], done[p])
      /\ Owns(dialect, db, own[p], last[p], done[p])
  BY <1>1, AtFacts
<1>3. \A q \in Proc \ {p} : DOMAIN own[p] \cap DOMAIN own[q] = {} BY DEF Typed, Disjoint
<1>4. latestSeq(v) \in Nat /\ latestSeq(v) <= latestSeq(v) BY <1>2, SqlStengAssumption DEF Contents
<1>5. Owns(dialect, db, own[p], latestSeq(v), done[p]) BY <1>2, <1>4, OwnsLast
<1>6. Owns(dialect, db, own[p], latestSeq(v), done'[p])
  <2>1. CASE Len(stages[p]) # 1
    <3>1. done'[p] = done[p] BY <1>1, <2>1 DEF Advance
    <3> QED BY <1>5, <3>1
  <2>2. CASE Len(stages[p]) = 1
    <3>1. done'[p] = Append(done[p], r) BY <1>1, <2>2 DEF Advance, Typed, Arrays
    <3>2. r.kind = "latest" BY <1>2, <2>2, LeftFacts
    <3>3. ~Adds(r) /\ r.kind # "clear" BY <3>2 DEF Adds
    <3>4. Owns(dialect, db, own[p], latestSeq(v), Append(done[p], r))
      BY <1>2, <1>5, <3>3, OwnsDone
    <3> QED BY <3>1, <3>4
  <2> QED BY <2>1, <2>2
<1>7. Len(stages[p]) # 1 => /\ ReadOk(rows[p], Tail(stages[p]), got[p])
                            /\ OpOk(rows[p], Tail(stages[p]), latestSeq(v))
  BY <1>2, LeftFacts DEF ReadOk, OpOk, Plain
<1>8. last' = [last EXCEPT ![p] = latestSeq(v)] BY <1>1, <1>2
<1> HIDE DEF v, r
<1> QED BY <1>1, <1>3, <1>6, <1>7, <1>8, StatementStep

(* A row is written.                                                       *)
LEMMA WriteOwns ==
  ASSUME Setting, NEW x, NEW b, Contents(b), NEW o, NEW rs, NEW ss, NEW g, NEW l, NEW dn,
         Ready(x, o, "open", rs, ss, g, l, dn), Owns(x, b, o, l, dn),
         rs # <<>>, Head(ss) = "write",
         NEW c, NEW w, w = Written(Head(rs), o ++ b, g, c),
         NEW dn2, dn2 = IF Len(ss) = 1 THEN Append(dn, Head(rs)) ELSE dn
  PROVE  Owns(x, b, w ++ o, l, dn2)
<1> DEFINE r == Head(rs)
           v == o ++ b
<1>1. /\ rs \in Seq(Rows) /\ r \in Rows /\ r = rs[1] /\ 1 \in DOMAIN rs
      /\ ss \in LeftOf(r) /\ LeftInOrder(x, o, "open", rs, l, dn) /\ ReadOk(rs, ss, g)
  BY DEF Ready, Staged
<1>2. r.kind # "latest" /\ (Len(ss) = 1 <=> r.kind \in Short) BY <1>1, LeftFacts
<1>3. Contents(v) /\ dn \in Seq(Rows) BY DEF Owns, Counted
<1>4. Usable(r, g) BY <1>1, UsableIs
<1>5. RowOk(r) /\ r.kind \in Kinds BY <1>1 DEF Rows
<1>6. CASE r.kind = "clear"
  <2>1. x = "sqlite" /\ o = Nothing /\ l = 0 /\ dn = <<>> BY <1>1, <1>6 DEF LeftInOrder
  <2>2. dn2 = Append(<<>>, r) BY <1>2, <1>6, <2>1 DEF Short
  <2>3. w = Clear(Nothing ++ b) BY <1>6, <2>1 DEF Written
  <2>4. Absent \notin Nat BY DEF Setting
  <2> HIDE DEF r, v
  <2> QED BY <1>1, <1>6, <2>1, <2>2, <2>3, <2>4, OwnsClear
<1>7. CASE r.kind = "config"
  <2>1. x = "sqlite" BY <1>1, <1>7 DEF LeftInOrder
  <2>2. dn2 = Append(dn, r) BY <1>2, <1>7 DEF Short
  <2> DEFINE rebuild == r.mode = "rebuild"
  <2>3. w = Reconfigure(v, r.payload, rebuild) /\ rebuild \in BOOLEAN BY <1>7 DEF Written
  <2>4. r.payload \in SUBSET IndexNames BY <1>5, <1>7 DEF RowOk
  <2> HIDE DEF rebuild, r, v
  <2>5. ConfigPut(w, v, r.payload, rebuild) BY <1>3, <2>3, <2>4, ConfigWritten
  <2>6. /\ DOMAIN w \subseteq Key /\ Contents(w ++ v)
        /\ \A n \in 1..MaxOps : OpKey(n) \notin DOMAIN w /\ (w ++ v)[OpKey(n)] = v[OpKey(n)]
    BY <2>5 DEF ConfigPut
  <2>7. Owns(x, b, w ++ o, l, dn) BY <2>1, <2>6, OwnsOver DEF v
  <2>8. ~Adds(r) /\ r.kind # "clear" BY <1>7 DEF Adds
  <2> QED BY <1>1, <2>2, <2>7, <2>8, OwnsDone
<1>8. CASE r.kind \notin {"clear", "config"}
  <2> HIDE DEF r, v
  <2>1. WriteOk(w, v, c) BY <1>1, <1>2, <1>3, <1>4, <1>8, WrittenOk DEF r, v
  <2>2. /\ DOMAIN w \subseteq Key /\ Contents(w ++ v)
        /\ \A n \in 1..MaxOps : OpKey(n) \notin DOMAIN w /\ (w ++ v)[OpKey(n)] = v[OpKey(n)]
        /\ \A d \in DocId : DocKey(d) \in DOMAIN w => IdxKey(d) \in DOMAIN w
    BY <2>1 DEF WriteOk
  <2>3. Owns(x, b, w ++ o, l, dn) BY <2>2, OwnsOver DEF v
  <2>4. CASE r.kind \in Short
    <3>1. dn2 = Append(dn, r) BY <1>2, <2>4 DEF r
    <3>2. ~Adds(r) /\ r.kind # "clear" BY <1>8, <2>4 DEF Adds, Short
    <3> QED BY <1>1, <2>3, <3>1, <3>2, OwnsDone
  <2>5. CASE r.kind \notin Short BY <1>2, <2>3, <2>5
  <2> QED BY <2>4, <2>5
<1> QED BY <1>6, <1>7, <1>8

LEMMA WriteStep ==
  ASSUME Setting, Typed, NEW p \in Proc, Write(p)
  PROVE  Typed'
<1> DEFINE w == Written(Head(rows[p]), Sees(p), got[p], conf[p])
           o == w ++ own[p]
<1>1. /\ At(p, "write") /\ Advance(p) /\ \A k \in DOMAIN w : ~Locked(p, k)
      /\ own' = [own EXCEPT ![p] = w ++ @]
      /\ UNCHANGED <<dialect, db, pc, conf, got, last, copy, gets>>
  BY DEF Write, Put
<1>2. /\ rows[p] # <<>> /\ Head(stages[p]) = "write"
      /\ Head(rows[p]) \in Rows /\ stages[p] \in LeftOf(Head(rows[p]))
      /\ Sees(p) = own[p] ++ db /\ Contents(db)
      /\ Ready(dialect, own[p], "open", rows[p], stages[p], got[p], last[p], done[p])
      /\ Owns(dialect, db, own[p], last[p], done[p])
  BY <1>1, AtFacts
<1>3. own' = [own EXCEPT ![p] = o] BY <1>1
<1>4. DOMAIN o = DOMAIN w \cup DOMAIN own[p] BY DEF ++
<1> HIDE DEF o
<1>5. \A q \in Proc \ {p} : DOMAIN o \cap DOMAIN own[q] = {}
  BY <1>1, <1>4 DEF Typed, Disjoint, Locked
<1>6. done'[p] = IF Len(stages[p]) = 1 THEN Append(done[p], Head(rows[p])) ELSE done[p]
  BY <1>1 DEF Advance, Typed, Arrays
<1>7. w = Written(Head(rows[p]), own[p] ++ db, got[p], conf[p]) BY <1>2
<1> HIDE DEF w
<1>8. Owns(dialect, db, o, last[p], done'[p]) BY <1>2, <1>6, <1>7, WriteOwns DEF o
<1>9. Len(stages[p]) # 1 => /\ ReadOk(rows[p], Tail(stages[p]), got[p])
                            /\ OpOk(rows[p], Tail(stages[p]), last[p])
  <2>1. SUFFICES ASSUME Len(stages[p]) # 1
                 PROVE  /\ ReadOk(rows[p], Tail(stages[p]), got[p])
                        /\ OpOk(rows[p], Tail(stages[p]), last[p])
    OBVIOUS
  <2>2. Head(rows[p]).kind \notin Short /\ Head(rows[p]).kind # "latest"
    BY <1>2, <2>1, LeftFacts
  <2>3. Head(rows[p]).kind \in Plain \cup {"apply"}
    BY <1>2, <2>2 DEF Rows, Kinds, Plain, Short
  <2>4. Head(Tail(stages[p])) \in {"seq", "log"} BY <1>2, <2>3, LeftFacts
  <2>5. ReadOk(rows[p], Tail(stages[p]), got[p]) BY <2>4 DEF ReadOk
  <2>6. OpOk(rows[p], Tail(stages[p]), last[p]) BY <1>2 DEF Ready, OpOk
  <2> QED BY <2>5, <2>6
<1> QED BY <1>1, <1>3, <1>5, <1>8, <1>9, StatementStep

(* The number of an entry that finds its place free is the next one.       *)
LEMMA NumberIs ==
  ASSUME Typed, NEW p \in Proc, At(p, "log"), Number(p) <= MaxOps,
         Sees(p)[OpKey(Number(p))] = Absent
  PROVE  /\ Number(p) = latestSeq(own[p] ++ db) + 1 /\ Number(p) \in Nat
         /\ Number(p) = last[p] + 1
<1> DEFINE n == Number(p)
           v == own[p] ++ db
<1>1. /\ rows[p] # <<>> /\ Head(stages[p]) = "log" /\ Sees(p) = v /\ Contents(v)
      /\ Ready(dialect, own[p], "open", rows[p], stages[p], got[p], last[p], done[p])
      /\ Owns(dialect, db, own[p], last[p], done[p])
  BY AtFacts
<1>2. last[p] \in Nat /\ last[p] <= latestSeq(v) BY <1>1 DEF Owns
<1>3. n = last[p] + 1 BY <1>1 DEF Number, Ready, OpOk
<1>4. latestSeq(v) \in Nat /\ MaxOps \in Nat BY <1>1, SqlStengAssumption DEF Contents
<1>5. n \in 1..MaxOps BY <1>2, <1>3, <1>4
<1> HIDE DEF n
<1>6. v[OpKey(n)] = Absent BY <1>1 DEF n
<1>7. ~(n <= latestSeq(v)) BY <1>1, <1>5, <1>6 DEF Contents, Unbroken
<1> HIDE DEF v
<1>8. n = latestSeq(v) + 1 BY <1>2, <1>3, <1>4, <1>7
<1> QED BY <1>3, <1>5, <1>8 DEF n, v

LEMMA LogStep ==
  ASSUME Setting, Typed, NEW p \in Proc, Log(p)
  PROVE  Typed'
<1> DEFINE r == Head(rows[p])
           n == Number(p)
           e == OpRow(r, got[p], n)
           o == Cell(OpKey(n), e) ++ own[p]
<1>1. /\ At(p, "log") /\ n <= MaxOps /\ ~Locked(p, OpKey(n))
      /\ \/ Rollback(p)
         \/ /\ Sees(p)[OpKey(n)] = Absent
            /\ own' = [own EXCEPT ![p] = Cell(OpKey(n), e) ++ @]
            /\ last' = [last EXCEPT ![p] = n] /\ Advance(p)
            /\ UNCHANGED <<dialect, db, pc, conf, got, copy, gets>>
  BY DEF Log, Put
<1>2. /\ pc[p] = "open" /\ rows[p] # <<>> /\ Head(stages[p]) = "log"
      /\ r \in Rows /\ stages[p] \in LeftOf(r) /\ Contents(db)
      /\ Owns(dialect, db, own[p], last[p], done[p])
  BY <1>1, AtFacts
<1>3. CASE Rollback(p) BY <1>2, <1>3, RollbackStep
<1>4. CASE /\ Sees(p)[OpKey(n)] = Absent
           /\ own' = [own EXCEPT ![p] = Cell(OpKey(n), e) ++ @]
           /\ last' = [last EXCEPT ![p] = n] /\ Advance(p)
           /\ UNCHANGED <<dialect, db, pc, conf, got, copy, gets>>
  <2>1. n = latestSeq(own[p] ++ db) + 1 /\ n \in Nat BY <1>1, <1>4, NumberIs
  <2>2. Len(stages[p]) = 1 /\ r.kind \in Plain \cup {"apply"} BY <1>2, LeftFacts
  <2>3. Absent \notin Entry /\ Dead \notin Content BY DEF Setting
  <2>4. e \in Entry /\ e.id = IdOf(r) BY <1>2, <2>1, <2>2, <2>3, OpRowOk
  <2>5. Adds(r) /\ r.kind # "clear" BY <2>2 DEF Adds, Plain
  <2>6. done'[p] = Append(done[p], r) BY <1>4, <2>2 DEF Advance, Typed, Arrays
  <2>7. own' = [own EXCEPT ![p] = o] BY <1>4
  <2>8. DOMAIN o = {OpKey(n)} \cup DOMAIN own[p] BY DEF ++, Cell
  <2> HIDE DEF n, e, r
  <2>9. Owns(dialect, db, o, n, done'[p])
    BY <1>1, <1>2, <2>1, <2>3, <2>4, <2>5, <2>6, OwnsOp
  <2> HIDE DEF o
  <2>10. \A q \in Proc \ {p} : DOMAIN o \cap DOMAIN own[q] = {}
    BY <1>1, <2>8 DEF Typed, Disjoint, Locked
  <2> QED BY <1>1, <1>4, <2>2, <2>7, <2>9, <2>10, StatementStep
<1> QED BY <1>1, <1>3, <1>4

(* What a call that commits on Postgres leaves behind keeps the log.       *)
LEMMA CommitLog ==
  ASSUME NEW x, NEW b, Contents(b), NEW o, NEW l, NEW dn, Owns(x, b, o, l, dn), ~Cleared(dn)
  PROVE  /\ Len(LogOf(b)) <= Len(LogOf(o ++ b))
         /\ \A n \in 1..Len(LogOf(b)) : LogOf(o ++ b)[n] = LogOf(b)[n]
         /\ IsPrefix(LogOf(b), LogOf(o ++ b))
<1> DEFINE v == o ++ b
           s == LogOf(b)
           t == LogOf(v)
<1>1. Contents(v) /\ DOMAIN o \subseteq Key BY DEF Owns, Held
<1>2. /\ s \in Seq(Entry) /\ Len(s) = latestSeq(b)
      /\ \A n \in 1..latestSeq(b) : s[n] = b[OpKey(n)]
      /\ t \in Seq(Entry) /\ Len(t) = latestSeq(v)
      /\ \A n \in 1..latestSeq(v) : t[n] = v[OpKey(n)]
  BY <1>1, LogIsSeq
<1>3. /\ latestSeq(b) \in 0..MaxOps /\ latestSeq(v) \in 0..MaxOps /\ MaxOps \in Nat
      /\ latestSeq(b) <= latestSeq(v)
  <2>1. latestSeq(b) \in 0..MaxOps /\ latestSeq(v) \in 0..MaxOps /\ MaxOps \in Nat
    BY <1>1, SqlStengAssumption DEF Contents
  <2>2. latestSeq(v) = latestSeq(b) + Len(Entries(dn)) /\ Len(Entries(dn)) \in Nat
    BY DEF Owns, Counted, Base
  <2> QED BY <2>1, <2>2
<1>4. ASSUME NEW n \in 1..latestSeq(b) PROVE v[OpKey(n)] = b[OpKey(n)]
  <2>1. n \in 1..MaxOps BY <1>3
  <2>2. OpKey(n) \notin DOMAIN o BY <1>3, <2>1 DEF Owns, Held
  <2>3. b = [k \in Key |-> b[k]] BY DEF Contents
  <2> QED BY <1>1, <2>1, <2>2, <2>3, KeysKnown, Overwritten
<1> HIDE DEF v, s, t
<1>5. \A n \in 1..Len(s) : t[n] = s[n] BY <1>2, <1>3, <1>4
<1>6. IsPrefix(s, t)
  <2>1. Len(s) <= Len(t) /\ Len(s) \in Nat BY <1>2, <1>3
  <2>2. SubSeq(s, 1, Len(s)) = s BY <1>2
  <2>3. SubSeq(t, 1, Len(s)) = s
    <3> DEFINE u == SubSeq(t, 1, Len(s))
    <3>1. u \in Seq(Entry) /\ Len(u) = Len(s) /\ \A n \in 1..Len(s) : u[n] = t[n]
      BY <1>2, <2>1
    <3> HIDE DEF u
    <3>2. u = s BY <1>2, <1>5, <3>1, SeqEqual
    <3> QED BY <3>2 DEF u
  <2> QED BY <2>1, <2>2, <2>3 DEF IsPrefix
<1> QED BY <1>2, <1>3, <1>5, <1>6 DEF s, t, v

(* A log that continues another one continues its prefixes.                *)
LEMMA PrefixOn ==
  ASSUME NEW S, NEW a \in Seq(S), NEW b \in Seq(S), NEW c \in Seq(S), IsPrefix(a, b),
         Len(b) <= Len(c), \A n \in 1..Len(b) : c[n] = b[n]
  PROVE  IsPrefix(a, c)
<1>1. Len(a) <= Len(b) /\ Len(a) \in Nat /\ SubSeq(a, 1, Len(a)) = SubSeq(b, 1, Len(a))
  BY DEF IsPrefix
<1> DEFINE u == SubSeq(b, 1, Len(a))
           w == SubSeq(c, 1, Len(a))
<1>2. /\ u \in Seq(S) /\ Len(u) = Len(a) /\ \A n \in 1..Len(a) : u[n] = b[n]
      /\ w \in Seq(S) /\ Len(w) = Len(a) /\ \A n \in 1..Len(a) : w[n] = c[n]
  BY <1>1
<1> HIDE DEF u, w
<1>3. u = w
  <2>1. \A n \in 1..Len(u) : u[n] = w[n] BY <1>1, <1>2
  <2> QED BY <1>2, <2>1, SeqEqual
<1>4. Len(a) <= Len(c) BY <1>1
<1> QED BY <1>1, <1>3, <1>4 DEF IsPrefix, u, w

(* A call commits.                                                         *)
LEMMA CommitStep ==
  ASSUME Typed, NEW p \in Proc, Commit(p)
  PROVE  Typed'
<1>1. /\ Open(p) /\ Over(p) /\ db' = own[p] ++ db /\ UNCHANGED <<dialect, copy>>
      /\ \E D : gets' = Disturbed(D)
  BY DEF Commit
<1>2. PICK D : gets' = Disturbed(D) BY <1>1
<1>3. gets' = [q \in Proc |-> gets'[q]] /\ \A q \in Proc : gets'[q] # NoGet => gets[q] # NoGet
  BY <1>2 DEF Disturbed
<1>4. /\ Arrays' /\ Others(p)
      /\ own'[p] = Nothing /\ pc'[p] = "idle" /\ rows'[p] = <<>> /\ stages'[p] = <<>>
      /\ got'[p] = Absent /\ last'[p] = 0 /\ done'[p] = <<>>
  BY <1>1, <1>3, OverFields
<1>5. CallOk(p) /\ Contents(db) BY DEF Typed
<1>6. Owns(dialect, db, own[p], last[p], done[p]) BY <1>5 DEF CallOk
<1>7. Contents(db') BY <1>1, <1>6 DEF Owns
<1>8. ASSUME NEW q \in Proc PROVE CallOk(q)'
  <2>1. CASE q = p
    <3>1. Ready(dialect', Nothing, "idle", <<>>, <<>>, Absent, 0, <<>>) BY ReadyIdle
    <3>2. Owns(dialect', db', Nothing, 0, <<>>) BY <1>7, OwnsNothing
    <3> QED BY <1>4, <2>1, <3>1, <3>2 DEF CallOk
  <2>2. CASE q # p
    <3>1. CallOk(q) BY DEF Typed
    <3>2. /\ own'[q] = own[q] /\ pc'[q] = pc[q] /\ rows'[q] = rows[q] /\ stages'[q] = stages[q]
          /\ got'[q] = got[q] /\ last'[q] = last[q] /\ done'[q] = done[q]
      BY <1>4, <2>2 DEF Others
    <3>3. Owns(dialect, db', own[q], last[q], done[q])
      <4>1. CASE dialect = "postgres"
        <5>1. DOMAIN own[q] \cap DOMAIN own[p] = {} BY <2>2 DEF Typed, Disjoint
        <5>2. Owns("postgres", db, own[q], last[q], done[q]) BY <3>1, <4>1 DEF CallOk
        <5>3. Owns("postgres", db, own[p], last[p], done[p]) BY <1>6, <4>1
        <5> QED BY <1>1, <1>5, <4>1, <5>1, <5>2, <5>3, OwnsBase
      <4>2. CASE dialect # "postgres"
        <5>1. dialect = "sqlite" BY <4>2, SqlStengAssumption DEF Typed
        <5>2. ~Open(q) BY <1>1, <2>2, <5>1 DEF Typed, OneOpen
        <5>3. own[q] = Nothing /\ last[q] = 0 /\ done[q] = <<>> BY <3>1, <5>2, Closed
        <5> QED BY <1>7, <5>3, OwnsNothing
      <4> QED BY <4>1, <4>2
    <3> QED BY <1>1, <3>1, <3>2, <3>3 DEF CallOk
  <2> QED BY <2>1, <2>2
<1>9. Disjoint'
  <2>1. SUFFICES ASSUME NEW q \in Proc, NEW r \in Proc, q # r
                 PROVE  DOMAIN own'[q] \cap DOMAIN own'[r] = {}
    BY DEF Disjoint
  <2>2. DOMAIN own[q] \cap DOMAIN own[r] = {} BY <2>1 DEF Typed, Disjoint
  <2>3. DOMAIN own'[p] = {} BY <1>4 DEF Nothing
  <2> QED BY <1>4, <2>1, <2>2, <2>3 DEF Others
<1>10. OneOpen'
  <2>1. SUFFICES ASSUME dialect = "sqlite", NEW q \in Proc, NEW r \in Proc, Open(q)', Open(r)'
                 PROVE  q = r
    BY <1>1 DEF OneOpen
  <2>2. \A s \in Proc : Open(s)' => Open(s) BY <1>4 DEF Others, Open
  <2> QED BY <2>1, <2>2 DEF Typed, OneOpen
<1>11. CopyOk'
  <2>1. SUFFICES ASSUME dialect = "postgres"
                 PROVE  copy \in Seq(Entry) /\ IsPrefix(copy, LogOf(db'))
    BY <1>1 DEF CopyOk
  <2>2. copy \in Seq(Entry) /\ IsPrefix(copy, LogOf(db)) BY <2>1 DEF Typed, CopyOk
  <2>3. ~Cleared(done[p]) BY <1>6, <2>1 DEF Owns, Held
  <2>4. /\ Len(LogOf(db)) <= Len(LogOf(db'))
        /\ \A n \in 1..Len(LogOf(db)) : LogOf(db')[n] = LogOf(db)[n]
    BY <1>1, <1>5, <1>6, <2>3, CommitLog
  <2>5. LogOf(db) \in Seq(Entry) /\ LogOf(db') \in Seq(Entry) BY <1>5, <1>7, LogIsSeq
  <2> QED BY <2>2, <2>4, <2>5, PrefixOn
<1>12. Getting' BY <1>1, <1>3, <1>4 DEF Typed, Getting, Others, Open
<1>13. dialect' \in Dialects BY <1>1 DEF Typed
<1> QED BY <1>4, <1>7, <1>8, <1>9, <1>10, <1>11, <1>12, <1>13, Zenon DEF Typed

(* A peer reads the log.                                                   *)
LEMMA ShipStep ==
  ASSUME Typed, Ship
  PROVE  Typed'
<1>1. UNCHANGED <<dialect, db, own, pc, conf, rows, stages, got, last, done, gets>>
  BY DEF Ship, callVars
<1>2. CopyOk'
  <2>1. SUFFICES ASSUME dialect = "postgres"
                 PROVE  copy' \in Seq(Entry) /\ IsPrefix(copy', LogOf(db))
    BY <1>1 DEF CopyOk
  <2> DEFINE log == LogOf(db)
  <2>2. Outside = db BY <2>1 DEF Outside
  <2>3. log \in Seq(Entry) BY LogIsSeq DEF Typed
  <2>4. copy \in Seq(Entry) /\ IsPrefix(copy, log) BY <2>1 DEF Typed, CopyOk
  <2>5. Len(log) > Len(copy) /\ copy' = copy \o SubSeq(log, Len(copy) + 1, Len(log))
    BY <2>2 DEF Ship
  <2> HIDE DEF log
  <2>6. \A n \in 1..Len(copy) : copy[n] = log[n]
    <3>1. SubSeq(copy, 1, Len(copy)) = SubSeq(log, 1, Len(copy)) BY <2>4 DEF IsPrefix
    <3>2. \A n \in 1..Len(copy) : SubSeq(copy, 1, Len(copy))[n] = copy[n] BY <2>4
    <3>3. \A n \in 1..Len(copy) : SubSeq(log, 1, Len(copy))[n] = log[n] BY <2>3, <2>4, <2>5
    <3> QED BY <3>1, <3>2, <3>3
  <2> DEFINE k == Len(copy)
             rest == SubSeq(log, k + 1, Len(log))
  <2>7. /\ rest \in Seq(Entry) /\ Len(rest) = Len(log) - k
        /\ \A n \in 1..(Len(log) - k) : rest[n] = log[k + n]
        /\ k \in Nat /\ Len(log) \in Nat
    BY <2>3, <2>4, <2>5
  <2>8. copy' = copy \o rest BY <2>5
  <2> HIDE DEF rest
  <2>9. /\ copy' \in Seq(Entry) /\ Len(copy') = Len(log)
        /\ \A n \in 1..Len(log) : copy'[n] = IF n <= k THEN copy[n] ELSE rest[n - k]
    BY <2>4, <2>7, <2>8
  <2>10. ASSUME NEW n \in 1..Len(log) PROVE copy'[n] = log[n]
    <3>1. CASE n <= k
      <4>1. n \in 1..Len(copy) /\ copy'[n] = copy[n] BY <3>1, <2>7, <2>9
      <4> QED BY <4>1, <2>6
    <3>2. CASE ~(n <= k)
      <4>1. n - k \in 1..(Len(log) - k) /\ k + (n - k) = n BY <3>2, <2>7
      <4>2. copy'[n] = rest[n - k] BY <3>2, <2>9
      <4> HIDE DEF k
      <4> QED BY <4>1, <4>2, <2>7
    <3> QED BY <3>1, <3>2
  <2>11. copy' = log BY <2>3, <2>9, <2>10, SeqEqual
  <2>12. IsPrefix(log, log) BY <2>3, <2>7 DEF IsPrefix
  <2> QED BY <2>3, <2>11, <2>12 DEF log
<1>3. \A p \in Proc : CallOk(p)' BY <1>1 DEF Typed, CallOk
<1>4. Arrays' /\ Disjoint' /\ OneOpen' /\ Getting' /\ Contents(db)' /\ dialect' \in Dialects
  BY <1>1 DEF Typed, Arrays, Disjoint, OneOpen, Getting, Open
<1> QED BY <1>2, <1>3, <1>4, Zenon DEF Typed

(* A read leaves the calls alone.                                          *)
LEMMA GetStep ==
  ASSUME Typed, NEW p \in Proc, GetObjs(p) \/ QueryIds(p) \/ FetchDocs(p)
  PROVE  Typed'
<1>1. /\ UNCHANGED <<dialect, db, own, conf, rows, stages, got, last, done, copy>>
      /\ \E g : gets' = [gets EXCEPT ![p] = g]
      /\ \/ pc[p] = "idle" /\ pc' = [pc EXCEPT ![p] = "get"]
         \/ pc[p] = "get" /\ UNCHANGED pc
         \/ pc[p] = "get" /\ pc' = [pc EXCEPT ![p] = "idle"] /\ gets' = [gets EXCEPT ![p] = NoGet]
  <2>1. CASE GetObjs(p) BY <2>1 DEF GetObjs
  <2>2. CASE QueryIds(p)
    <3>1. pc[p] = "get" BY <2>2 DEF QueryIds, Typed, Getting
    <3>2. UNCHANGED <<dialect, db, own, pc, conf, rows, stages, got, last, done, copy>>
      BY <2>2 DEF QueryIds, callVars
    <3>3. \E g : gets' = [gets EXCEPT ![p] = g] BY <2>2, Zenon DEF QueryIds
    <3> QED BY <3>1, <3>2, <3>3
  <2>3. CASE FetchDocs(p)
    <3>1. pc[p] = "get" BY <2>3 DEF FetchDocs, Typed, Getting
    <3> QED BY <2>3, <3>1 DEF FetchDocs
  <2> QED BY <2>1, <2>2, <2>3
<1>2. PICK g : gets' = [gets EXCEPT ![p] = g] BY <1>1
<1>3. /\ pc' = [q \in Proc |-> pc'[q]] /\ gets' = [q \in Proc |-> gets'[q]]
      /\ pc[p] \in {"idle", "get"} /\ pc'[p] \in {"idle", "get"}
      /\ gets'[p] # NoGet => pc'[p] = "get"
      /\ \A q \in Proc \ {p} : pc'[q] = pc[q] /\ gets'[q] = gets[q]
  BY <1>1, <1>2 DEF Typed, Arrays
<1>4. Arrays' /\ Others(p) BY <1>1, <1>3 DEF Typed, Arrays, Others
<1>5. Getting' BY <1>3 DEF Typed, Getting
<1>6. CallOk(p)'
  <2>1. CallOk(p) BY DEF Typed
  <2>2. /\ own[p] = Nothing /\ last[p] = 0 /\ done[p] = <<>>
        /\ rows[p] = <<>> /\ stages[p] = <<>>
    BY <1>3, <2>1 DEF CallOk, Ready, Staged
  <2>3. Ready(dialect', Nothing, pc'[p], <<>>, <<>>, got'[p], 0, <<>>) BY <1>3, ReadyIdle
  <2> QED BY <1>1, <2>1, <2>2, <2>3 DEF CallOk
<1>7. \A q \in Proc \ {p} : DOMAIN own'[p] \cap DOMAIN own[q] = {}
  BY <1>1 DEF Typed, Disjoint
<1>8. ~Open(p)' BY <1>3 DEF Open
<1> QED BY <1>1, <1>4, <1>5, <1>6, <1>7, <1>8, OneCall

(* Postgres ends a deadlock.                                               *)
LEMMA DeadlockedStep ==
  ASSUME Typed, NEW p \in Proc, Deadlocked(p)
  PROVE  Typed'
<1>1. Rollback(p) /\ dialect = "postgres" BY DEF Deadlocked
<1>2. PICK S \in SUBSET Proc : p \in S /\ \A q \in S : \E o \in S \ {q} : Wanted(q) \cap DOMAIN own[o] # {}
  BY DEF Deadlocked
<1>3. Wanted(p) # {} BY <1>2
<1>4. pc[p] = "open" BY <1>3 DEF Wanted, At, Open
<1> QED BY <1>1, <1>4, RollbackStep

(* Every step keeps the invariant.                                         *)
LEMMA TypedStep ==
  ASSUME Setting, Typed, [Next]_vars
  PROVE  Typed'
<1>1. CASE UNCHANGED vars
  <2>1. UNCHANGED <<dialect, db, own, pc, conf, rows, stages, got, last, done, copy, gets>>
    BY <1>1 DEF vars, callVars
  <2>2. \A p \in Proc : CallOk(p)' BY <2>1 DEF Typed, CallOk
  <2>3. /\ Arrays' /\ Disjoint' /\ OneOpen' /\ Getting' /\ Contents(db)' /\ CopyOk'
        /\ dialect' \in Dialects
    BY <2>1 DEF Typed, Arrays, Disjoint, OneOpen, Getting, Open, CopyOk
  <2> QED BY <2>2, <2>3, Zenon DEF Typed
<1>2. CASE Ship BY <1>2, ShipStep
<1>3. ASSUME NEW p \in Proc,
             \/ Call(p) \/ AddIndex(p) \/ RunRetention(p) \/ Begin(p)
             \/ Read(p) \/ Check(p) \/ Write(p) \/ Seq1(p) \/ Log(p)
             \/ Commit(p) \/ Deadlocked(p)
             \/ GetObjs(p) \/ QueryIds(p) \/ FetchDocs(p)
      PROVE  Typed'
  BY <1>3, CallStep, AddIndexStep, RunRetentionStep, BeginStep, ReadStep, CheckStep,
     WriteStep, Seq1Step, LogStep, CommitStep, DeadlockedStep, GetStep
<1> QED BY <1>1, <1>2, <1>3 DEF Next

(* A new database.                                                         *)
LEMMA TypedInit ==
  ASSUME Setting, Init
  PROVE  Typed
<1>1. /\ dialect \in Dialects
      /\ db = [k \in Key |-> CASE k = Config -> Indexes
                             [] k = Watermark -> 0
                             [] OTHER -> Absent]
  BY DEF Init
<1>2. /\ db = [k \in Key |-> db[k]] /\ db[Config] = Indexes /\ db[Watermark] = 0
      /\ \A d \in DocId : db[DocKey(d)] = Absent /\ db[IdxKey(d)] = Absent
      /\ \A b \in BlobId : db[BlobKey(b)] = Absent
      /\ \A n \in 1..MaxOps : db[OpKey(n)] = Absent
  BY <1>1, KeysApart, KeysKnown
<1>3. latestSeq(db) = 0 /\ Unbroken(db)
  <2>1. \A n \in 1..MaxOps : db[OpKey(n)] # Absent <=> n <= 0 BY <1>2
  <2>2. 0 \in 0..MaxOps BY SqlStengAssumption
  <2> QED BY <2>1, <2>2, LatestIs
<1>4. Contents(db)
  <2>1. Indexes \in SUBSET IndexNames BY DEF IndexNames
  <2> QED BY <1>2, <1>3, <2>1, SqlStengAssumption DEF Contents, IndexOk, Doc
<1>5. \A p \in Proc : CallOk(p)
  <2>1. SUFFICES ASSUME NEW p \in Proc PROVE CallOk(p) OBVIOUS
  <2>2. /\ own[p] = Nothing /\ pc[p] = "idle" /\ rows[p] = <<>> /\ stages[p] = <<>>
        /\ last[p] = 0 /\ done[p] = <<>>
    BY DEF Init
  <2>3. Ready(dialect, Nothing, "idle", <<>>, <<>>, got[p], 0, <<>>) BY ReadyIdle
  <2>4. Owns(dialect, db, Nothing, 0, <<>>) BY <1>4, OwnsNothing
  <2> QED BY <2>2, <2>3, <2>4 DEF CallOk
<1>6. Arrays BY DEF Init, Arrays
<1>7. Disjoint /\ OneOpen BY DEF Init, Disjoint, OneOpen, Open, Nothing
<1>8. CopyOk
  <2>1. copy = <<>> /\ Len(copy) = 0 /\ <<>> \in Seq(Entry) BY DEF Init
  <2>2. LogOf(db) \in Seq(Entry) BY <1>4, LogIsSeq
  <2>3. SubSeq(copy, 1, 0) = <<>> /\ SubSeq(LogOf(db), 1, 0) = <<>> BY <2>1, <2>2
  <2> QED BY <2>1, <2>2, <2>3 DEF CopyOk, IsPrefix
<1>9. Getting BY DEF Init, Getting
<1> QED BY <1>1, <1>4, <1>5, <1>6, <1>7, <1>8, <1>9, Zenon DEF Typed

(* In every reachable state the database, the open transactions and the    *)
(* copy of a peer fit together.                                            *)
THEOREM TransactionsFit ==
  ASSUME Setting PROVE Spec => []Typed
<1>1. Init => Typed BY TypedInit
<1>2. Typed /\ [Next]_vars => Typed' BY TypedStep
<1> QED BY <1>1, <1>2, PTL DEF Spec

(* An index entry never says what its document does not hold, whatever     *)
(* calls run side by side, fail or are rolled back.                        *)
THEOREM IndexAgrees ==
  ASSUME Setting PROVE Spec => []IndexNeverStale
<1>1. Typed => IndexNeverStale BY DEF Typed, Contents, IndexOk, IndexNeverStale
<1> QED BY <1>1, TransactionsFit, PTL

(* On Postgres a peer never takes over an entry that the log then lacks.   *)
THEOREM ShippedStays ==
  ASSUME Setting PROVE Spec => []ShippedIsLogged
<1>1. Typed => ShippedIsLogged BY DEF Typed, CopyOk, ShippedIsLogged
<1> QED BY <1>1, TransactionsFit, PTL

(* What a commit adds to the log.                                          *)
LEMMA CommitGrows ==
  ASSUME Typed, NEW p \in Proc, Commit(p)
  PROVE  LET before == IF \E i \in DOMAIN done[p] : done[p][i].kind = "clear" THEN <<>>
                       ELSE LogOf(db)
             mine == Entries(done[p])
             after == LogOf(db')
         IN /\ Len(after) = Len(before) + Len(mine)
            /\ IsPrefix(before, after)
            /\ \A i \in DOMAIN mine : after[Len(before) + i].id =
                 IF mine[i].kind = "apply" THEN mine[i].payload.id ELSE mine[i].id
<1> DEFINE dn == done[p]
           before == IF \E i \in DOMAIN dn : dn[i].kind = "clear" THEN <<>> ELSE LogOf(db)
           mine == Entries(dn)
           after == LogOf(db')
<1>1. Contents(db) /\ db' = own[p] ++ db /\ Owns(dialect, db, own[p], last[p], dn)
  BY DEF Typed, CallOk, Commit
<1>2. Contents(db') BY <1>1 DEF Owns
<1>3. /\ mine \in Seq(Rows) /\ latestSeq(db') = Base(db, dn) + Len(mine)
      /\ \A i \in 1..Len(mine) : db'[OpKey(Base(db, dn) + i)].id = IdOf(mine[i])
  BY <1>1 DEF Owns, Counted
<1>4. /\ after \in Seq(Entry) /\ Len(after) = latestSeq(db')
      /\ \A n \in 1..latestSeq(db') : after[n] = db'[OpKey(n)]
      /\ LogOf(db) \in Seq(Entry) /\ Len(LogOf(db)) = latestSeq(db)
  BY <1>1, <1>2, LogIsSeq
<1> HIDE DEF dn, mine, after
<1>5. before \in Seq(Entry) /\ Len(before) = Base(db, dn) /\ IsPrefix(before, after)
  <2>1. CASE Cleared(dn)
    <3>1. before = <<>> /\ Base(db, dn) = 0 BY <2>1 DEF Cleared, Base
    <3>2. SubSeq(after, 1, 0) = <<>> BY <1>4
    <3> HIDE DEF before
    <3>3. before \in Seq(Entry) /\ Len(before) = 0 /\ SubSeq(before, 1, 0) = <<>> BY <3>1
    <3>4. Len(before) <= Len(after) BY <1>4, <3>3
    <3> QED BY <3>1, <3>2, <3>3, <3>4 DEF IsPrefix
  <2>2. CASE ~Cleared(dn)
    <3>1. before = LogOf(db) /\ Base(db, dn) = latestSeq(db) BY <2>2 DEF Cleared, Base
    <3>2. IsPrefix(LogOf(db), after) BY <1>1, <2>2, CommitLog DEF after
    <3> HIDE DEF before
    <3> QED BY <1>4, <3>1, <3>2
  <2> QED BY <2>1, <2>2
<1> HIDE DEF before
<1>6. Len(after) = Len(before) + Len(mine) BY <1>3, <1>4, <1>5
<1>7. ASSUME NEW i \in DOMAIN mine
      PROVE  after[Len(before) + i].id = IF mine[i].kind = "apply" THEN mine[i].payload.id ELSE mine[i].id
  <2>1. i \in 1..Len(mine) /\ Len(before) \in Nat /\ Len(mine) \in Nat BY <1>3, <1>5
  <2>2. Len(before) + i \in 1..Len(after) BY <1>6, <2>1
  <2>3. after[Len(before) + i] = db'[OpKey(Len(before) + i)] BY <1>4, <2>2
  <2>4. db'[OpKey(Len(before) + i)].id = IdOf(mine[i]) BY <1>3, <1>5, <2>1
  <2> QED BY <2>3, <2>4 DEF IdOf
<1> QED BY <1>5, <1>6, <1>7, Zenon DEF before, mine, after, dn

(* On either database an acknowledged call adds its entries to the end of  *)
(* the log, one for each row and none between them, and changes none that  *)
(* was there; a restored table starts its log anew.                        *)
THEOREM CommitsAddToTheLog ==
  ASSUME Setting PROVE Spec => LogGrows
<1>1. Typed /\ [Next]_vars =>
        [\A p \in Proc : Commit(p) =>
           LET before == IF \E i \in DOMAIN done[p] : done[p][i].kind = "clear" THEN <<>>
                         ELSE LogOf(db)
               mine == Entries(done[p])
               after == LogOf(db')
           IN /\ Len(after) = Len(before) + Len(mine)
              /\ IsPrefix(before, after)
              /\ \A i \in DOMAIN mine : after[Len(before) + i].id =
                   IF mine[i].kind = "apply" THEN mine[i].payload.id ELSE mine[i].id]_vars
  <2>1. SUFFICES ASSUME Typed, NEW p \in Proc, Commit(p)
                 PROVE  LET before == IF \E i \in DOMAIN done[p] : done[p][i].kind = "clear" THEN <<>>
                                      ELSE LogOf(db)
                            mine == Entries(done[p])
                            after == LogOf(db')
                        IN /\ Len(after) = Len(before) + Len(mine)
                           /\ IsPrefix(before, after)
                           /\ \A i \in DOMAIN mine : after[Len(before) + i].id =
                                IF mine[i].kind = "apply" THEN mine[i].payload.id ELSE mine[i].id
    BY Zenon
  <2> QED BY <2>1, CommitGrows
<1> QED BY <1>1, TransactionsFit, PTL DEF LogGrows, Spec

-----------------------------------------------------------------------------
(* SQLite: one transaction at a time does what the memory engine does.     *)
(* Here t is what the memory engine makes of the rows that are done, v the *)
(* table the transaction sees.                                             *)

Serial(t, v, rs, ss, g, l) ==
  LET r == Head(rs)
      stage == Head(ss)
  IN /\ Whole(t)
     /\ IF rs = <<>> THEN v = t
        ELSE
        /\ v = IF r.kind # "latest" /\ stage \in {"seq", "log"} THEN Changed(t, r) ELSE t
        /\ stage \in {"write", "seq", "log"} => Seen(t, r, g)
        /\ stage = "log" \/ r.kind = "apply" => l = t.latestSeq

Outcome(b, dn) == FoldLeft(InMemory, TableOf(b), dn)

Run == INSTANCE FoldProofs WITH Op <- InMemory

(* The rows that are done, one after the other.                            *)
LEMMA OutcomeFold ==
  ASSUME NEW b, NEW rs
  PROVE  Outcome(b, rs) = Run!Fold(TableOf(b), rs)
BY DEF Outcome, FoldLeft, MapThenFoldSet, Max,
       Run!Fold, Run!FoldLeft, Run!MapThenFoldSet, Run!Max

LEMMA OutcomeEmpty ==
  ASSUME NEW b PROVE Outcome(b, <<>>) = TableOf(b)
<1>1. Run!Fold(TableOf(b), <<>>) = TableOf(b) BY Run!FoldEmpty
<1> QED BY <1>1, OutcomeFold

LEMMA OutcomeNext ==
  ASSUME NEW b, NEW dn \in Seq(Rows), NEW r \in Rows
  PROVE  Outcome(b, Append(dn, r)) = InMemory(Outcome(b, dn), r)
<1>1. Run!Fold(TableOf(b), Append(dn, r)) = InMemory(Run!Fold(TableOf(b), dn), r)
  BY Run!FoldAppend
<1> QED BY <1>1, OutcomeFold

(* The first statement of the next row.                                    *)
LEMMA SerialStart ==
  ASSUME NEW rs \in Seq(Rows), NEW t, Whole(t), NEW g, NEW l,
         rs # <<>> /\ Head(rs).kind = "apply" => l = t.latestSeq
  PROVE  Serial(t, t, rs, StagesOf(rs), g, l)
<1>1. CASE rs = <<>> BY <1>1 DEF Serial
<1>2. CASE rs # <<>>
  <2> DEFINE r == Head(rs)
  <2>1. r \in Rows /\ StagesOf(rs) = Stages(r) BY <1>2 DEF StagesOf
  <2>2. /\ Head(Stages(r)) \in {"read", "check", "write", "seq"}
        /\ Head(Stages(r)) = "write" =>
             r.kind \in {"add", "replace", "blob_add", "blob_del", "clear", "config", "restore"}
        /\ Head(Stages(r)) = "seq" => r.kind = "latest"
    BY <2>1, FirstStage
  <2> HIDE DEF r
  <2>3. Head(Stages(r)) \in {"write", "seq", "log"} => Seen(t, r, g) BY <2>2 DEF Seen
  <2>4. ~(r.kind # "latest" /\ Head(Stages(r)) \in {"seq", "log"}) BY <2>2
  <2>5. Head(Stages(r)) = "log" \/ r.kind = "apply" => l = t.latestSeq BY <1>2, <2>2 DEF r
  <2> QED BY <1>2, <2>1, <2>3, <2>4, <2>5 DEF Serial, r
<1> QED BY <1>1, <1>2

LEMMA SerialNext ==
  ASSUME NEW x, NEW o, NEW rs, NEW ss, NEW g, NEW l, NEW dn,
         Ready(x, o, "open", rs, ss, g, l, dn), rs # <<>>,
         NEW t, Whole(t), NEW g2, NEW l2, Head(rs).kind \in {"apply", "latest"} => l2 = t.latestSeq
  PROVE  Serial(t, t, Tail(rs), StagesOf(Tail(rs)), g2, l2)
<1> DEFINE ts == Tail(rs)
<1>1. /\ rs \in Seq(Rows) /\ ts \in Seq(Rows) /\ LeftInOrder(x, o, "open", rs, l, dn)
      /\ Head(rs) = rs[1] /\ 1 \in DOMAIN rs
      /\ ts # <<>> => Head(ts) = rs[2] /\ 2 \in DOMAIN rs
  BY DEF Ready, Staged
<1>2. ts # <<>> /\ Head(ts).kind = "apply" => Head(rs).kind \in {"apply", "latest"}
  BY <1>1 DEF LeftInOrder
<1> HIDE DEF ts
<1>3. ts # <<>> /\ Head(ts).kind = "apply" => l2 = t.latestSeq BY <1>2
<1>4. Serial(t, t, ts, StagesOf(ts), g2, l2) BY <1>1, <1>3, SerialStart
<1> QED BY <1>4 DEF ts

(* A write leaves the log as it is.                                        *)
LEMMA ChangedKeeps ==
  ASSUME NEW t, Whole(t), NEW r \in Rows, r.kind \in Plain
  PROVE  Changed(t, r).latestSeq = t.latestSeq /\ Whole(Changed(t, r))
<1>1. ASSUME NEW D, NEW B
      PROVE  /\ Fields(D, B, t.ops, t.latestSeq, t.watermark).latestSeq = t.latestSeq
             /\ Whole(Fields(D, B, t.ops, t.latestSeq, t.watermark))
  BY DEF Fields, Whole
<1>2. ASSUME NEW i, NEW y
      PROVE  writeDoc(t, i, y).latestSeq = t.latestSeq /\ Whole(writeDoc(t, i, y))
  <2> DEFINE D == [t.docs EXCEPT ![i] = y]
  <2>1. writeDoc(t, i, y) = Fields(D, t.blobs, t.ops, t.latestSeq, t.watermark)
    BY ChangedDoc DEF writeDoc
  <2> HIDE DEF D
  <2> QED BY <2>1, <1>1
<1>3. ASSUME NEW i, NEW y
      PROVE  /\ [t EXCEPT !.blobs[i] = y].latestSeq = t.latestSeq
             /\ Whole([t EXCEPT !.blobs[i] = y])
  <2> DEFINE B == [t.blobs EXCEPT ![i] = y]
             u == [t EXCEPT !.blobs[i] = y]
  <2>1. u = Fields(t.docs, B, t.ops, t.latestSeq, t.watermark) BY ChangedBlob
  <2> HIDE DEF B, u
  <2>2. u.latestSeq = t.latestSeq /\ Whole(u) BY <2>1, <1>1
  <2> QED BY <2>2 DEF u
<1>4. CASE r.kind \in {"add", "replace", "doc", "update", "delete"}
  <2>1. \E y : Changed(t, r) = writeDoc(t, r.id, y) BY <1>4 DEF Changed
  <2> QED BY <2>1, <1>2
<1>5. CASE r.kind \in {"blob", "blob_add", "blob_del"}
  <2>1. \E y : Changed(t, r) = [t EXCEPT !.blobs[r.id] = y] BY <1>5 DEF Changed
  <2> QED BY <2>1, <1>3
<1> QED BY <1>4, <1>5 DEF Plain

(* A row that adds an entry does to a table what the memory engine does.   *)
LEMMA RecordedIs ==
  ASSUME NEW t, Whole(t), NEW r \in Rows, r.kind \in Plain \cup {"apply"},
         NEW g, Seen(t, r, g), t.latestSeq \in Nat,
         NEW n, n = t.latestSeq + 1, r.kind = "apply" => r.payload.op_seq = n,
         Dead \notin Content
  PROVE  InMemory(t, r) = Recorded(Changed(t, r), OpRow(r, g, n))
<1> DEFINE u == Changed(t, r)
           Op(type, p) == [op_seq |-> n, op_type |-> type, id |-> r.id, payload |-> p]
<1>0. RowOk(r) BY DEF Rows
<1>1. r.kind \in Plain => u.latestSeq + 1 = n BY ChangedKeeps
<1>2. ASSUME NEW type, NEW p, r.kind \in Plain
      PROVE  appendOp(u, type, r.id, p) = Recorded(u, Op(type, p))
  <2> HIDE DEF u
  <2> QED BY <1>1, <1>2 DEF appendOp
<1>3. r.kind \in Plain =>
        OpRow(r, g, n) = Op(Logged(r, g), IF r.payload = Dead THEN Absent ELSE r.payload)
  BY DEF OpRow, Plain
<1> HIDE DEF Op
<1>4. CASE r.kind \in {"add", "replace", "update"}
  <2>1. r.payload # Dead BY <1>0, <1>4, StengAssumption DEF RowOk
  <2>2. OpRow(r, g, n) = Op(Logged(r, g), r.payload) BY <1>3, <1>4, <2>1 DEF Plain
  <2>3. InMemory(t, r) = appendOp(u, Logged(r, g), r.id, r.payload)
    BY <1>4 DEF InMemory, Changed, Logged, add_objs, replace_objs, update_objs
  <2> QED BY <1>2, <1>4, <2>2, <2>3 DEF Plain
<1>5. CASE r.kind = "delete"
  <2>1. r.payload = Absent /\ Absent # Dead BY <1>0, <1>5, StengAssumption DEF RowOk
  <2>2. OpRow(r, g, n) = Op("DELETE", Absent) BY <1>3, <1>5, <2>1 DEF Plain, Logged
  <2>3. InMemory(t, r) = appendOp(u, "DELETE", r.id, Absent)
    BY <1>5 DEF InMemory, Changed, delete_objs, writeTombstone, writeDoc
  <2> QED BY <1>2, <1>5, <2>2, <2>3 DEF Plain
<1>6. CASE r.kind = "doc"
  <2>1. g = t.docs[r.id] BY <1>6 DEF Seen
  <2>2. u = writeDoc(t, r.id, r.payload) BY <1>6 DEF Changed
  <2>3. CASE r.payload = Dead
    <3>1. OpRow(r, g, n) = Op("DELETE", Absent) BY <1>3, <1>6, <2>3 DEF Plain, Logged
    <3>2. InMemory(t, r) = appendOp(u, "DELETE", r.id, Absent)
      BY <1>6, <2>2, <2>3 DEF InMemory, importSnapshotDoc, delete_objs, writeTombstone, writeDoc
    <3> QED BY <1>2, <1>6, <3>1, <3>2 DEF Plain
  <2>4. CASE r.payload # Dead
    <3> DEFINE type == IF g \in {Absent, Dead} THEN "ADD" ELSE "REPLACE"
    <3>1. OpRow(r, g, n) = Op(type, r.payload) BY <1>3, <1>6, <2>4 DEF Plain, Logged
    <3>2. InMemory(t, r) = appendOp(u, type, r.id, r.payload)
      BY <1>6, <2>1, <2>2, <2>4 DEF InMemory, importSnapshotDoc, add_objs, replace_objs
    <3> HIDE DEF type
    <3> QED BY <1>2, <1>6, <3>1, <3>2 DEF Plain
  <2> QED BY <2>3, <2>4
<1>7. CASE r.kind \in {"blob", "blob_add"}
  <2>1. r.payload # Dead BY <1>0, <1>7 DEF RowOk
  <2>2. OpRow(r, g, n) = Op("BLOB_ADD", r.payload) BY <1>3, <1>7, <2>1 DEF Plain, Logged
  <2>3. InMemory(t, r) = appendOp(u, "BLOB_ADD", r.id, r.payload)
    BY <1>7 DEF InMemory, Changed, importSnapshotBlob, add_blob
  <2> QED BY <1>2, <1>7, <2>2, <2>3 DEF Plain
<1>8. CASE r.kind = "blob_del"
  <2>1. r.payload = Absent /\ Absent # Dead BY <1>0, <1>8, StengAssumption DEF RowOk
  <2>2. OpRow(r, g, n) = Op("BLOB_DEL", Absent) BY <1>3, <1>8, <2>1 DEF Plain, Logged
  <2>3. InMemory(t, r) = appendOp(u, "BLOB_DEL", r.id, Absent)
    BY <1>8 DEF InMemory, Changed, delete_blobs
  <2> QED BY <1>2, <1>8, <2>2, <2>3 DEF Plain
<1>9. CASE r.kind = "apply"
  <2> DEFINE op == r.payload
             s == [table |-> t, ok |-> TRUE]
  <2>1. OpRow(r, g, n) = op /\ u = Effect(t, op) BY <1>9 DEF OpRow, Changed
  <2>2. op.op_seq = t.latestSeq + 1 /\ ~(op.op_seq <= t.latestSeq) BY <1>9
  <2>3. op.op_type = "UPDATE" => op.id \in Live(t) BY <1>9 DEF Seen
  <2>4. ~Refused(t, op) BY <2>2, <2>3 DEF Refused
  <2>5. InMemory(t, r) = ApplyOne(s, op).table BY <1>9 DEF InMemory
  <2>6. s.table = t /\ s.ok = TRUE OBVIOUS
  <2> HIDE DEF op
  <2>7. ApplyOne(s, op) = [s EXCEPT !.table = Recorded(Effect(@, op), op)]
    BY <2>2, <2>4, <2>6 DEF ApplyOne
  <2>8. ApplyOne(s, op).table = Recorded(Effect(t, op), op) BY <2>7
  <2> QED BY <2>1, <2>5, <2>8
<1> QED BY <1>4, <1>5, <1>6, <1>7, <1>8, <1>9 DEF Plain

(* The table after a write.                                                *)
LEMMA WriteSerial ==
  ASSUME Setting, NEW x, NEW b, Contents(b), NEW o, NEW rs, NEW ss, NEW g, NEW l, NEW dn,
         Ready(x, o, "open", rs, ss, g, l, dn), Owns(x, b, o, l, dn),
         rs # <<>>, Head(ss) = "write",
         NEW c, NEW w, w = Written(Head(rs), o ++ b, g, c),
         Serial(Outcome(b, dn), TableOf(o ++ b), rs, ss, g, l)
  PROVE  IF Len(ss) = 1
         THEN Serial(Outcome(b, Append(dn, Head(rs))), TableOf((w ++ o) ++ b), Tail(rs),
                     StagesOf(Tail(rs)), g, l)
         ELSE Serial(Outcome(b, dn), TableOf((w ++ o) ++ b), rs, Tail(ss), g, l)
<1> DEFINE r == Head(rs)
           v == o ++ b
           t == Outcome(b, dn)
           u == w ++ v
<1>1. /\ r \in Rows /\ r = rs[1] /\ 1 \in DOMAIN rs
      /\ ss \in LeftOf(r) /\ LeftInOrder(x, o, "open", rs, l, dn) /\ ReadOk(rs, ss, g)
  BY DEF Ready, Staged
<1>2. /\ r.kind # "latest" /\ (Len(ss) = 1 <=> r.kind \in Short)
      /\ r.kind \in Plain => Head(Tail(ss)) = "seq"
      /\ r.kind = "apply" => Head(Tail(ss)) = "log"
  BY <1>1, LeftFacts
<1>3. Contents(v) /\ dn \in Seq(Rows) /\ DOMAIN o \subseteq Key BY DEF Owns, Counted, Held
<1>4. Usable(r, g) BY <1>1, UsableIs
<1>5. RowOk(r) /\ r.kind \in Kinds BY <1>1 DEF Rows
<1>6. /\ TableOf(v) = t /\ Seen(t, r, g) /\ Whole(t)
      /\ r.kind = "apply" => l = t.latestSeq
  <2> HIDE DEF v, t
  <2> QED BY <1>2 DEF Serial, v, t
<1>7. Outcome(b, Append(dn, r)) = InMemory(t, r) BY <1>1, <1>3, OutcomeNext
<1>8. DOMAIN w \subseteq Key => (w ++ o) ++ b = u BY <1>3, WrittenTwice DEF Contents
<1> HIDE DEF u
<1>9. ASSUME DOMAIN w \subseteq Key, TableOf(u) = InMemory(t, r), r.kind \in Short
      PROVE  Serial(Outcome(b, Append(dn, r)), TableOf((w ++ o) ++ b), Tail(rs), StagesOf(Tail(rs)), g, l)
  <2>1. r.kind \notin {"apply", "latest"} BY <1>9 DEF Short
  <2> DEFINE t2 == InMemory(t, r)
  <2>3. Whole(t2) BY <1>9, TableIs
  <2> HIDE DEF t2
  <2>2. Serial(t2, t2, Tail(rs), StagesOf(Tail(rs)), g, l) BY <2>1, <2>3, SerialNext
  <2> QED BY <1>7, <1>8, <1>9, <2>2 DEF t2
<1>10. CASE r.kind = "clear"
  <2>1. o = Nothing BY <1>1, <1>10 DEF LeftInOrder
  <2>2. w = Clear(v) BY <1>10 DEF Written
  <2>3. Absent \notin Nat BY DEF Setting
  <2>4. ClearPut(w, v) BY <1>3, <2>2, <2>3, ClearWritten
  <2>5. DOMAIN w \subseteq Key /\ TableOf(u) = NewTable BY <2>4 DEF ClearPut, u
  <2>6. InMemory(t, r) = NewTable BY <1>10 DEF InMemory, resetTableData
  <2>7. r.kind \in Short BY <1>10 DEF Short
  <2> QED BY <1>2, <1>9, <2>5, <2>6, <2>7
<1>11. CASE r.kind = "config"
  <2> DEFINE rebuild == r.mode = "rebuild"
  <2>3. w = Reconfigure(v, r.payload, rebuild) /\ rebuild \in BOOLEAN BY <1>11 DEF Written
  <2>4. r.payload \in SUBSET IndexNames BY <1>5, <1>11 DEF RowOk
  <2>5. ConfigPut(w, v, r.payload, rebuild) BY <1>3, <2>3, <2>4, ConfigWritten
  <2>6. DOMAIN w \subseteq Key /\ TableOf(u) = t BY <1>6, <2>5 DEF ConfigPut, u
  <2>7. InMemory(t, r) = t BY <1>11 DEF InMemory
  <2>8. r.kind \in Short BY <1>11 DEF Short
  <2> QED BY <1>2, <1>9, <2>6, <2>7, <2>8
<1>12. CASE r.kind \notin {"clear", "config"}
  <2> HIDE DEF r, v, t
  <2>1. WriteOk(w, v, c) /\ TableOf(w ++ v) = Changed(t, r)
    BY <1>1, <1>2, <1>3, <1>4, <1>6, <1>12, WrittenOk DEF r, v, t
  <2>2. DOMAIN w \subseteq Key /\ TableOf(u) = Changed(t, r) BY <2>1 DEF WriteOk, u
  <2>3. CASE r.kind \in Short
    <3>1. InMemory(t, r) = Changed(t, r) BY <1>12, <2>3 DEF Short, Changed
    <3>2. TableOf(u) = InMemory(t, r) BY <2>2, <3>1
    <3> QED BY <1>2, <1>9, <2>2, <2>3, <3>2 DEF r
  <2>4. CASE r.kind \notin Short
    <3>1. r.kind \in Plain \cup {"apply"} BY <1>2, <1>5, <2>4 DEF Kinds, Plain, Short
    <3>2. Head(Tail(ss)) \in {"seq", "log"} BY <1>2, <3>1
    <3>3. Head(Tail(ss)) = "log" \/ r.kind = "apply" => l = t.latestSeq
      BY <1>2, <1>6, <3>1
    <3>4. TableOf((w ++ o) ++ b) = Changed(t, r) BY <1>8, <2>2
    <3>5. Serial(t, TableOf((w ++ o) ++ b), rs, Tail(ss), g, l)
      BY <1>2, <1>6, <3>2, <3>3, <3>4 DEF Serial, r
    <3> QED BY <1>2, <2>4, <3>5 DEF t, r
  <2> QED BY <2>3, <2>4
<1> QED BY <1>10, <1>11, <1>12

(* The table after an entry is added.                                      *)
LEMMA LogSerial ==
  ASSUME Setting, NEW x, NEW b, Contents(b), NEW o, NEW rs, NEW ss, NEW g, NEW l, NEW dn,
         Ready(x, o, "open", rs, ss, g, l, dn), Owns(x, b, o, l, dn),
         rs # <<>>, Head(ss) = "log",
         NEW n \in Nat, n <= MaxOps, n = latestSeq(o ++ b) + 1, n = l + 1,
         NEW w, w = Cell(OpKey(n), OpRow(Head(rs), g, n)),
         Serial(Outcome(b, dn), TableOf(o ++ b), rs, ss, g, l)
  PROVE  Serial(Outcome(b, Append(dn, Head(rs))), TableOf((w ++ o) ++ b), Tail(rs),
                StagesOf(Tail(rs)), g, n)
<1> DEFINE r == Head(rs)
           v == o ++ b
           t == Outcome(b, dn)
           e == OpRow(r, g, n)
           s == Changed(t, r)
<1>1. r \in Rows /\ ss \in LeftOf(r) /\ OpOk(rs, ss, l) BY DEF Ready, Staged
<1>2. r.kind \in Plain \cup {"apply"} BY <1>1, LeftFacts
<1>3. Contents(v) /\ dn \in Seq(Rows) /\ DOMAIN o \subseteq Key /\ l \in Nat
  BY DEF Owns, Counted, Held
<1>4. Absent \notin Entry /\ Dead \notin Content BY DEF Setting
<1>5. e \in Entry BY <1>1, <1>2, <1>4, OpRowOk
<1>6. TableOf(v) = s /\ Seen(t, r, g) /\ l = t.latestSeq /\ Whole(t)
  <2> HIDE DEF v, t, s
  <2> QED BY <1>2 DEF Serial, v, t, s, Plain
<1>7. r.kind = "apply" => r.payload.op_seq = n BY DEF OpOk, Ready
<1> HIDE DEF r, v, e
<1>8. OpPut(w, v, n, e) BY <1>3, <1>4, <1>5, OpWritten DEF v, e, r
<1>10. InMemory(t, r) = Recorded(s, e)
  <2>1. t.latestSeq \in Nat /\ n = t.latestSeq + 1 BY <1>3, <1>6
  <2> HIDE DEF t
  <2> QED BY <1>1, <1>2, <1>4, <1>6, <1>7, <2>1, RecordedIs DEF e
<1>11. TableOf(w ++ v) = Recorded(s, e)
  <2>1. e.op_seq = n
    BY <1>2, <1>7 DEF e, OpRow
  <2>2. TableOf(w ++ v) = Fields(s.docs, s.blobs, Append(s.ops, e), n, s.watermark)
    BY <1>6, <1>8 DEF OpPut
  <2>3. Whole(s) BY <1>6, TableIs
  <2> HIDE DEF s
  <2> DEFINE ops == Append(s.ops, e)
  <2>4. [s EXCEPT !.latestSeq = n, !.ops = ops] = Fields(s.docs, s.blobs, ops, n, s.watermark)
    <3> HIDE DEF ops
    <3> QED BY <2>3, ChangedLog
  <2>5. Recorded(s, e) = [s EXCEPT !.latestSeq = n, !.ops = ops] BY <2>1, <2>3 DEF Recorded, Whole, Fields
  <2> QED BY <2>2, <2>4, <2>5
<1>12. (w ++ o) ++ b = w ++ v
  <2>1. DOMAIN w \subseteq Key BY <1>8 DEF OpPut
  <2> QED BY <2>1, <1>3, WrittenTwice DEF Contents, v
<1>13. Outcome(b, Append(dn, r)) = InMemory(t, r) BY <1>1, <1>3, OutcomeNext
<1>14. latestSeq(w ++ v) = n BY <1>8 DEF OpPut
<1> DEFINE t2 == InMemory(t, r)
<1>15. t2.latestSeq = n
  <2>1. t2 = TableOf(w ++ v) BY <1>10, <1>11
  <2>2. TableOf(w ++ v).latestSeq = latestSeq(w ++ v) BY TableFields
  <2> HIDE DEF t2
  <2> QED BY <1>14, <2>1, <2>2
<1>16. TableOf((w ++ o) ++ b) = t2 BY <1>10, <1>11, <1>12
<1>19. Whole(t2) BY <1>16, TableIs
<1> HIDE DEF t2
<1>17. Serial(t2, t2, Tail(rs), StagesOf(Tail(rs)), g, n) BY <1>15, <1>19, SerialNext
<1>18. Outcome(b, Append(dn, r)) = t2 BY <1>13 DEF t2
<1> QED BY <1>16, <1>17, <1>18 DEF r

-----------------------------------------------------------------------------
(* The invariant of SQLite.                                                *)

Line(p) ==
  /\ Open(p) => Serial(Outcome(db, done[p]), TableOf(own[p] ++ db), rows[p], stages[p],
                       got[p], last[p])
  /\ pc[p] = "called" => stages[p] = StagesOf(rows[p])

InSeries == dialect = "sqlite" => \A p \in Proc : Line(p)

(* One call takes a step.                                                  *)
LEMMA OneLine ==
  ASSUME InSeries, NEW p \in Proc, UNCHANGED <<dialect, db>>, Others(p),
         dialect = "sqlite" => Line(p)'
  PROVE  InSeries'
<1> SUFFICES ASSUME dialect = "sqlite", NEW q \in Proc PROVE Line(q)'
  BY DEF InSeries
<1>1. CASE q = p BY <1>1
<1>2. CASE q # p
  <2>1. Line(q) BY DEF InSeries
  <2> QED BY <1>2, <2>1 DEF Others, Line, Open
<1> QED BY <1>1, <1>2

(* A call that arrives.                                                    *)
LEMMA ArriveSeries ==
  ASSUME Typed, InSeries, NEW p \in Proc, NEW rs, Arrive(p, rs)
  PROVE  InSeries'
<1>1. /\ UNCHANGED <<dialect, db, own, got, last, done>>
      /\ pc' = [pc EXCEPT ![p] = "called"]
      /\ rows' = [rows EXCEPT ![p] = rs] /\ stages' = [stages EXCEPT ![p] = StagesOf(rs)]
  BY Zenon DEF Arrive
<1>2. Others(p) /\ pc'[p] = "called" /\ rows'[p] = rs /\ stages'[p] = StagesOf(rs)
  BY <1>1 DEF Typed, Arrays, Others
<1>3. Line(p)' BY <1>2 DEF Line, Open
<1> QED BY <1>1, <1>2, <1>3, OneLine

(* One that is over.                                                       *)
LEMMA RollbackSeries ==
  ASSUME Typed, InSeries, NEW p \in Proc, Rollback(p)
  PROVE  InSeries'
<1>1. Over(p) /\ UNCHANGED <<dialect, db, gets>> BY DEF Rollback
<1>2. Others(p) /\ pc'[p] = "idle" BY <1>1, OverFields
<1>3. Line(p)' BY <1>2 DEF Line, Open
<1> QED BY <1>1, <1>2, <1>3, OneLine

(* A transaction begins with what is committed.                            *)
LEMMA BeginSeries ==
  ASSUME Typed, InSeries, NEW p \in Proc, Begin(p)
  PROVE  InSeries'
<1>0. pc[p] = "called" BY DEF Begin
<1>1. CASE Rollback(p) BY <1>1, RollbackSeries
<1>2. CASE /\ pc' = [pc EXCEPT ![p] = "open"]
           /\ UNCHANGED <<dialect, db, own, rows, stages, got, last, done>>
  <2>1. Others(p) /\ pc'[p] = "open" BY <1>2 DEF Typed, Arrays, Others
  <2>2. ASSUME dialect = "sqlite" PROVE Line(p)'
    <3>1. CallOk(p) /\ Contents(db) BY DEF Typed
    <3>2. Ready(dialect, own[p], "called", rows[p], stages[p], got[p], last[p], done[p])
      BY <1>0, <3>1 DEF CallOk
    <3>3. /\ own[p] = Nothing /\ done[p] = <<>> /\ rows[p] \in Seq(Rows)
          /\ LeftInOrder(dialect, own[p], "called", rows[p], last[p], done[p])
      BY <3>2 DEF Ready, Staged
    <3>4. rows[p] # <<>> => Head(rows[p]).kind # "apply"
      <4>1. rows[p] # <<>> => Head(rows[p]) = rows[p][1] /\ 1 \in DOMAIN rows[p] BY <3>3
      <4> QED BY <3>3, <4>1 DEF LeftInOrder
    <3>5. stages[p] = StagesOf(rows[p]) BY <1>0, <2>2 DEF InSeries, Line
    <3>6. own[p] ++ db = db BY <3>1, <3>3, NothingWritten DEF Contents
    <3>7. Outcome(db, done[p]) = TableOf(db)
      <4>1. Outcome(db, <<>>) = TableOf(db)
        BY OutcomeEmpty
      <4> QED BY <3>3, <4>1
    <3>8. Serial(TableOf(db), TableOf(db), rows[p], StagesOf(rows[p]), got[p], last[p])
      BY <3>3, <3>4, TableIs, SerialStart
    <3> QED BY <1>2, <2>1, <3>5, <3>6, <3>7, <3>8 DEF Line
  <2> QED BY <1>2, <2>1, <2>2, OneLine
<1> QED BY <1>1, <1>2 DEF Begin

(* A statement of an open transaction.                                     *)
LEMMA StatementSeries ==
  ASSUME Typed, InSeries, NEW p \in Proc, NEW stage, At(p, stage),
         UNCHANGED <<dialect, db, pc, conf, gets>>,
         NEW o, (UNCHANGED own /\ o = own[p]) \/ own' = [own EXCEPT ![p] = o],
         NEW g, (UNCHANGED got /\ g = got[p]) \/ got' = [got EXCEPT ![p] = g],
         NEW l, (UNCHANGED last /\ l = last[p]) \/ last' = [last EXCEPT ![p] = l],
         (NextRow(p) /\ UNCHANGED done) \/ Advance(p),
         dialect = "sqlite" =>
           \/ /\ NextRow(p) /\ UNCHANGED done
              /\ Serial(Outcome(db, done[p]), TableOf(o ++ db), Tail(rows[p]),
                        StagesOf(Tail(rows[p])), g, l)
           \/ /\ Advance(p) /\ Len(stages[p]) = 1
              /\ Serial(Outcome(db, Append(done[p], Head(rows[p]))), TableOf(o ++ db),
                        Tail(rows[p]), StagesOf(Tail(rows[p])), g, l)
           \/ /\ Advance(p) /\ Len(stages[p]) # 1
              /\ Serial(Outcome(db, done[p]), TableOf(o ++ db), rows[p], Tail(stages[p]),
                        g, l)
  PROVE  InSeries'
<1>1. pc[p] = "open" BY AtFacts
<1>2. /\ Others(p) /\ own'[p] = o /\ got'[p] = g /\ last'[p] = l
      /\ NextRow(p) /\ UNCHANGED done => Skips(p)
      /\ Advance(p) => IF Len(stages[p]) = 1 THEN Finishes(p) ELSE Stays(p)
  BY StatementFields
<1>3. ASSUME dialect = "sqlite"
      PROVE  Serial(Outcome(db, done'[p]), TableOf(o ++ db), rows'[p], stages'[p], g, l)
  BY <1>2, <1>3 DEF Skips, Finishes, Stays
<1>4. dialect = "sqlite" => Line(p)' BY <1>1, <1>2, <1>3 DEF Line
<1> QED BY <1>2, <1>4, OneLine

(* What a statement finds.                                                 *)
LEMMA AtSeries ==
  ASSUME Typed, InSeries, dialect = "sqlite", NEW p \in Proc, NEW stage, At(p, stage)
  PROVE  Serial(Outcome(db, done[p]), TableOf(own[p] ++ db), rows[p], stages[p], got[p],
                last[p])
BY DEF InSeries, Line, At

(* A document that is read, or a row that is skipped.                      *)
LEMMA ReadSeries ==
  ASSUME Typed, InSeries, NEW p \in Proc, Read(p)
  PROVE  InSeries'
<1> DEFINE r == Head(rows[p])
           old == Sees(p)[ReadKey(r)]
           t == Outcome(db, done[p])
           v == own[p] ++ db
<1>1. /\ At(p, "read")
      /\ \/ Rollback(p)
         \/ /\ NextRow(p) /\ r.kind \in {"doc", "blob"}
            /\ UNCHANGED <<dialect, db, own, pc, conf, got, last, done, gets>>
         \/ /\ ~Fails(r, old) /\ Advance(p) /\ got' = [got EXCEPT ![p] = old]
            /\ UNCHANGED <<dialect, db, own, pc, conf, last, gets>>
  BY Zenon DEF Read, Skipped
<1>2. /\ rows[p] # <<>> /\ Head(stages[p]) = "read"
      /\ r \in Rows /\ stages[p] \in LeftOf(r) /\ Sees(p) = v /\ Contents(v)
      /\ Ready(dialect, own[p], "open", rows[p], stages[p], got[p], last[p], done[p])
  BY <1>1, AtFacts
<1>3. ASSUME dialect = "sqlite"
      PROVE  /\ TableOf(v) = t /\ Whole(t)
             /\ r.kind = "apply" => last[p] = t.latestSeq
  <2>1. Serial(t, TableOf(v), rows[p], stages[p], got[p], last[p])
    BY <1>1, <1>3, AtSeries
  <2> HIDE DEF t, v
  <2> QED BY <1>2, <2>1 DEF Serial
<1>4. Len(stages[p]) # 1 /\ Head(Tail(stages[p])) = "write" BY <1>2, LeftFacts
<1>5. CASE Rollback(p) BY <1>5, RollbackSeries
<1>6. CASE /\ NextRow(p) /\ r.kind \in {"doc", "blob"}
           /\ UNCHANGED <<dialect, db, own, pc, conf, got, last, done, gets>>
  <2>1. ASSUME dialect = "sqlite"
        PROVE  Serial(t, TableOf(v), Tail(rows[p]), StagesOf(Tail(rows[p])), got[p], last[p])
    <3>1. TableOf(v) = t /\ Whole(t) BY <1>3, <2>1
    <3>2. r.kind \notin {"apply", "latest"} BY <1>6
    <3> HIDE DEF t, v
    <3>3. Serial(t, t, Tail(rows[p]), StagesOf(Tail(rows[p])), got[p], last[p])
      BY <1>2, <3>1, <3>2, SerialNext
    <3> QED BY <3>1, <3>3
  <2> QED BY <1>1, <1>6, <2>1, StatementSeries
<1>7. CASE /\ ~Fails(r, old) /\ Advance(p) /\ got' = [got EXCEPT ![p] = old]
           /\ UNCHANGED <<dialect, db, own, pc, conf, last, gets>>
  <2>1. ASSUME dialect = "sqlite"
        PROVE  Serial(t, TableOf(v), rows[p], Tail(stages[p]), old, last[p])
    <3>1. TableOf(v) = t /\ Whole(t) /\ (r.kind = "apply" => last[p] = t.latestSeq)
      BY <1>3, <2>1
    <3>2. Seen(TableOf(v), r, old) BY <1>2, <1>7, ReadFinds
    <3> HIDE DEF t, v, old
    <3> QED BY <1>2, <1>4, <3>1, <3>2 DEF Serial
  <2> HIDE DEF old
  <2> QED BY <1>1, <1>4, <1>7, <2>1, StatementSeries
<1> QED BY <1>1, <1>5, <1>6, <1>7

(* An entry that is the next one, or one that is there.                    *)
LEMMA CheckSeries ==
  ASSUME Typed, InSeries, NEW p \in Proc, Check(p)
  PROVE  InSeries'
<1> DEFINE r == Head(rows[p])
           t == Outcome(db, done[p])
           v == own[p] ++ db
<1>1. /\ At(p, "check")
      /\ \/ Rollback(p)
         \/ /\ NextRow(p)
            /\ UNCHANGED <<dialect, db, own, pc, conf, got, last, done, gets>>
         \/ /\ Advance(p)
            /\ UNCHANGED <<dialect, db, own, pc, conf, got, last, gets>>
  BY Zenon DEF Check
<1>2. /\ rows[p] # <<>> /\ Head(stages[p]) = "check"
      /\ r \in Rows /\ stages[p] \in LeftOf(r)
      /\ Ready(dialect, own[p], "open", rows[p], stages[p], got[p], last[p], done[p])
  BY <1>1, AtFacts
<1>3. /\ Len(stages[p]) # 1 /\ r.kind = "apply" /\ Head(Tail(stages[p])) \in {"read", "write"}
      /\ Head(Tail(stages[p])) = "write" => r.payload.op_type \notin {"UPDATE", "DELETE"}
  BY <1>2, LeftFacts
<1>4. ASSUME dialect = "sqlite"
      PROVE  /\ TableOf(v) = t /\ Whole(t) /\ last[p] = t.latestSeq
  <2>1. Serial(t, TableOf(v), rows[p], stages[p], got[p], last[p])
    BY <1>1, <1>4, AtSeries
  <2> HIDE DEF t, v
  <2> QED BY <1>2, <1>3, <2>1 DEF Serial
<1>5. CASE Rollback(p) BY <1>5, RollbackSeries
<1>6. CASE /\ NextRow(p)
           /\ UNCHANGED <<dialect, db, own, pc, conf, got, last, done, gets>>
  <2>1. ASSUME dialect = "sqlite"
        PROVE  Serial(t, TableOf(v), Tail(rows[p]), StagesOf(Tail(rows[p])), got[p], last[p])
    <3>1. TableOf(v) = t /\ Whole(t) /\ last[p] = t.latestSeq BY <1>4, <2>1
    <3> HIDE DEF t, v
    <3>2. Serial(t, t, Tail(rows[p]), StagesOf(Tail(rows[p])), got[p], last[p])
      BY <1>2, <3>1, SerialNext
    <3> QED BY <3>1, <3>2
  <2> QED BY <1>1, <1>6, <2>1, StatementSeries
<1>7. CASE /\ Advance(p)
           /\ UNCHANGED <<dialect, db, own, pc, conf, got, last, gets>>
  <2>1. ASSUME dialect = "sqlite"
        PROVE  Serial(t, TableOf(v), rows[p], Tail(stages[p]), got[p], last[p])
    <3>1. TableOf(v) = t /\ Whole(t) /\ last[p] = t.latestSeq BY <1>4, <2>1
    <3> HIDE DEF t, v
    <3>2. Head(Tail(stages[p])) = "write" => Seen(t, r, got[p]) BY <1>3 DEF Seen
    <3> QED BY <1>2, <1>3, <3>1, <3>2 DEF Serial
  <2> QED BY <1>1, <1>3, <1>7, <2>1, StatementSeries
<1> QED BY <1>1, <1>5, <1>6, <1>7

(* A row that is written.                                                  *)
LEMMA WriteSeries ==
  ASSUME Setting, Typed, InSeries, NEW p \in Proc, Write(p)
  PROVE  InSeries'
<1> DEFINE w == Written(Head(rows[p]), Sees(p), got[p], conf[p])
           o == w ++ own[p]
<1>1. /\ At(p, "write") /\ Advance(p)
      /\ own' = [own EXCEPT ![p] = w ++ @]
      /\ UNCHANGED <<dialect, db, pc, conf, got, last, gets>>
  BY DEF Write, Put
<1>2. /\ rows[p] # <<>> /\ Head(stages[p]) = "write"
      /\ Sees(p) = own[p] ++ db /\ Contents(db)
      /\ Ready(dialect, own[p], "open", rows[p], stages[p], got[p], last[p], done[p])
      /\ Owns(dialect, db, own[p], last[p], done[p])
  BY <1>1, AtFacts
<1>3. own' = [own EXCEPT ![p] = o] BY <1>1
<1>4. w = Written(Head(rows[p]), own[p] ++ db, got[p], conf[p]) BY <1>2
<1> HIDE DEF w
<1>5. ASSUME dialect = "sqlite"
      PROVE  IF Len(stages[p]) = 1
             THEN Serial(Outcome(db, Append(done[p], Head(rows[p]))), TableOf(o ++ db),
                         Tail(rows[p]), StagesOf(Tail(rows[p])), got[p], last[p])
             ELSE Serial(Outcome(db, done[p]), TableOf(o ++ db), rows[p], Tail(stages[p]),
                         got[p], last[p])
  <2>1. Serial(Outcome(db, done[p]), TableOf(own[p] ++ db), rows[p], stages[p], got[p],
               last[p])
    BY <1>1, <1>5, AtSeries
  <2> QED BY <1>2, <1>4, <2>1, WriteSerial
<1> HIDE DEF o
<1> QED BY <1>1, <1>3, <1>5, StatementSeries

(* The last number is read.                                                *)
LEMMA Seq1Series ==
  ASSUME Typed, InSeries, NEW p \in Proc, Seq1(p)
  PROVE  InSeries'
<1> DEFINE r == Head(rows[p])
           v == own[p] ++ db
           t == Outcome(db, done[p])
           l == latestSeq(v)
<1>1. /\ At(p, "seq") /\ last' = [last EXCEPT ![p] = latestSeq(Sees(p))] /\ Advance(p)
      /\ UNCHANGED <<dialect, db, own, pc, conf, got, gets>>
  BY DEF Seq1
<1>2. /\ rows[p] # <<>> /\ Head(stages[p]) = "seq"
      /\ r \in Rows /\ stages[p] \in LeftOf(r) /\ Sees(p) = v
      /\ Ready(dialect, own[p], "open", rows[p], stages[p], got[p], last[p], done[p])
      /\ Owns(dialect, db, own[p], last[p], done[p])
  BY <1>1, AtFacts
<1>3. last' = [last EXCEPT ![p] = l] BY <1>1, <1>2
<1>4. TableOf(v).latestSeq = l BY TableFields
<1>5. /\ Len(stages[p]) = 1 => r.kind = "latest"
      /\ Len(stages[p]) # 1 => r.kind \in Plain /\ Head(Tail(stages[p])) = "log"
  BY <1>2, LeftFacts
<1>6. ASSUME dialect = "sqlite"
      PROVE  /\ TableOf(v) = (IF r.kind # "latest" THEN Changed(t, r) ELSE t)
             /\ Whole(t) /\ Seen(t, r, got[p])
  <2>1. Serial(t, TableOf(v), rows[p], stages[p], got[p], last[p])
    BY <1>1, <1>6, AtSeries
  <2> HIDE DEF t, v
  <2> QED BY <1>2, <2>1 DEF Serial
<1> HIDE DEF l
<1>7. ASSUME dialect = "sqlite", Len(stages[p]) = 1
      PROVE  Serial(Outcome(db, Append(done[p], r)), TableOf(v), Tail(rows[p]),
                    StagesOf(Tail(rows[p])), got[p], l)
  <2>1. done[p] \in Seq(Rows) BY <1>2 DEF Owns, Counted
  <2>2. Outcome(db, Append(done[p], r)) = InMemory(t, r) BY <1>2, <2>1, OutcomeNext
  <2>3. InMemory(t, r) = t BY <1>5, <1>7 DEF InMemory
  <2>4. TableOf(v) = t /\ Whole(t) /\ l = t.latestSeq BY <1>4, <1>5, <1>6, <1>7
  <2> HIDE DEF t, v
  <2>5. Serial(t, t, Tail(rows[p]), StagesOf(Tail(rows[p])), got[p], l)
    BY <1>2, <2>4, SerialNext
  <2> QED BY <2>2, <2>3, <2>4, <2>5
<1>8. ASSUME dialect = "sqlite", Len(stages[p]) # 1
      PROVE  Serial(t, TableOf(v), rows[p], Tail(stages[p]), got[p], l)
  <2>1. r.kind \in Plain /\ r.kind # "latest" /\ Head(Tail(stages[p])) = "log"
    BY <1>5, <1>8 DEF Plain
  <2>2. TableOf(v) = Changed(t, r) /\ Whole(t) /\ Seen(t, r, got[p])
    BY <1>6, <1>8, <2>1
  <2>3. Changed(t, r).latestSeq = t.latestSeq
    <3> HIDE DEF t
    <3> QED BY <1>2, <2>1, <2>2, ChangedKeeps
  <2>4. l = t.latestSeq BY <1>4, <2>2, <2>3
  <2> HIDE DEF t, v
  <2> QED BY <1>2, <2>1, <2>2, <2>4 DEF Serial
<1> HIDE DEF v
<1> QED BY <1>1, <1>3, <1>7, <1>8, StatementSeries DEF v

(* An entry is added to the log.                                           *)
LEMMA LogSeries ==
  ASSUME Setting, Typed, InSeries, NEW p \in Proc, Log(p)
  PROVE  InSeries'
<1> DEFINE r == Head(rows[p])
           n == Number(p)
           w == Cell(OpKey(n), OpRow(r, got[p], n))
           o == w ++ own[p]
<1>1. /\ At(p, "log") /\ n <= MaxOps
      /\ \/ Rollback(p)
         \/ /\ Sees(p)[OpKey(n)] = Absent
            /\ own' = [own EXCEPT ![p] = w ++ @]
            /\ last' = [last EXCEPT ![p] = n] /\ Advance(p)
            /\ UNCHANGED <<dialect, db, pc, conf, got, gets>>
  BY DEF Log, Put
<1>2. /\ rows[p] # <<>> /\ Head(stages[p]) = "log"
      /\ r \in Rows /\ stages[p] \in LeftOf(r) /\ Contents(db)
      /\ Ready(dialect, own[p], "open", rows[p], stages[p], got[p], last[p], done[p])
      /\ Owns(dialect, db, own[p], last[p], done[p])
  BY <1>1, AtFacts
<1>3. CASE Rollback(p) BY <1>3, RollbackSeries
<1>4. CASE /\ Sees(p)[OpKey(n)] = Absent
           /\ own' = [own EXCEPT ![p] = w ++ @]
           /\ last' = [last EXCEPT ![p] = n] /\ Advance(p)
           /\ UNCHANGED <<dialect, db, pc, conf, got, gets>>
  <2>1. n = latestSeq(own[p] ++ db) + 1 /\ n \in Nat /\ n = last[p] + 1
    BY <1>1, <1>4, NumberIs
  <2>2. Len(stages[p]) = 1 BY <1>2, LeftFacts
  <2>3. own' = [own EXCEPT ![p] = o] BY <1>4
  <2> HIDE DEF n
  <2>4. ASSUME dialect = "sqlite"
        PROVE  Serial(Outcome(db, Append(done[p], r)), TableOf(o ++ db), Tail(rows[p]),
                      StagesOf(Tail(rows[p])), got[p], n)
    <3>1. Serial(Outcome(db, done[p]), TableOf(own[p] ++ db), rows[p], stages[p], got[p],
                 last[p])
      BY <1>1, <2>4, AtSeries
    <3>2. w = Cell(OpKey(n), OpRow(Head(rows[p]), got[p], n)) OBVIOUS
    <3> HIDE DEF w
    <3> QED BY <1>1, <1>2, <2>1, <3>1, <3>2, LogSerial
  <2> HIDE DEF o
  <2> QED BY <1>1, <1>4, <2>2, <2>3, <2>4, StatementSeries
<1> QED BY <1>1, <1>3, <1>4

(* A call that commits was the only one.                                   *)
LEMMA CommitSeries ==
  ASSUME Typed, InSeries, NEW p \in Proc, Commit(p)
  PROVE  InSeries'
<1>1. /\ Open(p) /\ Over(p) /\ UNCHANGED dialect /\ \E D : gets' = Disturbed(D)
  BY DEF Commit
<1>2. gets' = [q \in Proc |-> gets'[q]] BY <1>1 DEF Disturbed
<1>3. Others(p) /\ pc'[p] = "idle" BY <1>1, <1>2, OverFields
<1>4. SUFFICES ASSUME dialect = "sqlite", NEW q \in Proc PROVE Line(q)'
  BY <1>1 DEF InSeries
<1>5. CASE q = p BY <1>3, <1>5 DEF Line, Open
<1>6. CASE q # p
  <2>1. ~Open(q) BY <1>1, <1>4, <1>6 DEF Typed, OneOpen
  <2>2. Line(q) BY <1>4 DEF InSeries
  <2> QED BY <1>3, <1>6, <2>1, <2>2 DEF Others, Line, Open
<1> QED BY <1>5, <1>6

(* Reads and the peer change no call that writes.                          *)
LEMMA IdleSeries ==
  ASSUME Typed, InSeries, UNCHANGED <<dialect, db, own, rows, stages, got, last, done>>,
         \A p \in Proc : pc'[p] = pc[p] \/ pc'[p] \in {"idle", "get"}
  PROVE  InSeries'
<1> SUFFICES ASSUME dialect = "sqlite", NEW p \in Proc PROVE Line(p)'
  BY DEF InSeries
<1>1. Line(p) BY DEF InSeries
<1> QED BY <1>1 DEF Line, Open

LEMMA SeriesStep ==
  ASSUME Setting, Typed, InSeries, [Next]_vars
  PROVE  InSeries'
<1>1. CASE UNCHANGED vars \/ Ship
  BY <1>1, IdleSeries DEF vars, callVars, Ship
<1>2. ASSUME NEW p \in Proc, GetObjs(p) \/ QueryIds(p) \/ FetchDocs(p)
      PROVE  InSeries'
  <2>1. /\ UNCHANGED <<dialect, db, own, rows, stages, got, last, done>>
        /\ \/ UNCHANGED pc
           \/ pc' = [pc EXCEPT ![p] = "get"]
           \/ pc' = [pc EXCEPT ![p] = "idle"]
    <3>1. CASE GetObjs(p) BY <3>1 DEF GetObjs
    <3>2. CASE QueryIds(p) BY <3>2, Zenon DEF QueryIds, callVars
    <3>3. CASE FetchDocs(p) BY <3>3 DEF FetchDocs
    <3> QED BY <1>2, <3>1, <3>2, <3>3
  <2>2. \A q \in Proc : pc'[q] = pc[q] \/ pc'[q] \in {"idle", "get"}
    BY <2>1 DEF Typed, Arrays
  <2> QED BY <2>1, <2>2, IdleSeries
<1>3. ASSUME NEW p \in Proc, Call(p) \/ AddIndex(p) \/ RunRetention(p)
      PROVE  InSeries'
  <2>1. \E rs : Arrive(p, rs) BY <1>3, Zenon DEF Call, AddIndex, RunRetention
  <2> QED BY <2>1, ArriveSeries
<1>4. ASSUME NEW p \in Proc,
             \/ Begin(p) \/ Read(p) \/ Check(p) \/ Write(p) \/ Seq1(p) \/ Log(p)
             \/ Commit(p) \/ Deadlocked(p)
      PROVE  InSeries'
  <2>1. Deadlocked(p) => Rollback(p) BY DEF Deadlocked
  <2> QED BY <1>4, <2>1, BeginSeries, ReadSeries, CheckSeries, WriteSeries, Seq1Series,
             LogSeries, CommitSeries, RollbackSeries
<1> QED BY <1>1, <1>2, <1>3, <1>4 DEF Next

(* On SQLite an acknowledged call does to the table what the memory engine *)
(* does for the same rows in one go, whatever others try meanwhile.        *)
THEOREM SqliteIsSerial ==
  ASSUME Setting PROVE Spec => SerialCommits
<1>1. Init => InSeries
  <2>1. Init => \A p \in Proc : pc[p] = "idle" BY DEF Init
  <2> QED BY <2>1 DEF InSeries, Line, Open
<1>2. Typed /\ InSeries /\ [Next]_vars => InSeries' BY SeriesStep
<1>3. Typed /\ InSeries /\ [Next]_vars =>
        [\A p \in Proc : dialect = "sqlite" /\ Commit(p) =>
           TableOf(db') = FoldLeft(InMemory, TableOf(db), done[p])]_vars
  <2>1. ASSUME Typed, InSeries, NEW p \in Proc, dialect = "sqlite", Commit(p)
        PROVE  TableOf(db') = Outcome(db, done[p])
    <3>1. Open(p) /\ rows[p] = <<>> /\ db' = own[p] ++ db BY <2>1 DEF Commit
    <3>2. Serial(Outcome(db, done[p]), TableOf(own[p] ++ db), rows[p], stages[p], got[p],
                 last[p])
      BY <2>1, <3>1 DEF InSeries, Line
    <3> QED BY <3>1, <3>2 DEF Serial
  <2> QED BY <2>1 DEF Outcome
<1> QED BY <1>1, <1>2, <1>3, TransactionsFit, PTL DEF SerialCommits, Spec

-----------------------------------------------------------------------------
(* The filtered reads.  They find every document through the indexes when  *)
(* these are there from the start and no configuration drops them; the     *)
(* code answers a filter on a field without an index with an error.  An    *)
(* index that add_index adds is not covered: a call that read the          *)
(* catalogue before leaves documents out of it.                            *)

Names == {Field[c.field] : c \in UNION Filters}

(* No configuration drops one, and each rebuilds the indexes unless the    *)
(* table has just been cleared; <<c, v>> is an index entry.                *)
Configs(rs, bare) ==
  \A i \in DOMAIN rs : rs[i].kind = "config" =>
    /\ Names \subseteq rs[i].payload
    /\ \/ rs[i].mode = "rebuild"
       \/ i = 2 /\ rs[1].kind = "clear"
       \/ i = 1 /\ bare

KnownIndexes ==
  /\ Names \subseteq Indexes
  /\ \A filter \in Filters : \A c \in filter : c = Clause(c.field, c.op, c.value)
  /\ \A x \in Dialects : \A rs \in Calls[x] : Configs(rs, FALSE)
  /\ \A c, v : <<c, v>> # Absent

Lives(v) == v \notin {Absent, Dead}

(* Every live document is in each of these indexes.                        *)
Full(v) ==
  /\ Names \subseteq v[Config]
  /\ \A d \in DocId : Lives(v[DocKey(d)]) =>
       \A f \in Names : v[IdxKey(d)] # Absent /\ f \in v[IdxKey(d)][1]

Bare(v) == \A d \in DocId : v[DocKey(d)] = Absent

(* A call at a time: at is where it stands, v what it sees, c the indexes  *)
(* it knows of, rs the rows left.                                          *)
Filled(at, v, c, rs) ==
  /\ at \in {"called", "open"} => Names \subseteq c
  /\ at = "open" => Full(v)
  /\ Configs(rs, at = "open" /\ Bare(v))

AllFull ==
  /\ Full(db)
  /\ \A p \in Proc : Filled(pc[p], own[p] ++ db, conf[p], rows[p])

LEMMA IndexedFull ==
  ASSUME KnownIndexes, NEW c, Names \subseteq c, NEW v, NEW f \in Names
  PROVE  Indexed(c, v) # Absent /\ f \in Indexed(c, v)[1]
<1>1. Indexed(c, v) = <<c, v>> BY DEF Indexed
<1>2. <<c, v>> # Absent /\ <<c, v>>[1] = c BY DEF KnownIndexes
<1> QED BY <1>1, <1>2

(* The rows that are left after one.                                       *)
LEMMA ConfigsNext ==
  ASSUME NEW rs \in Seq(Rows), rs # <<>>, NEW b1, Configs(rs, b1), NEW b2,
         Head(rs).kind = "clear" => b2
  PROVE  Configs(Tail(rs), b2)
<1> DEFINE ts == Tail(rs)
<1>1. /\ Head(rs) = rs[1] /\ DOMAIN ts = 1..Len(ts) /\ DOMAIN rs = 1..Len(rs)
      /\ Len(ts) = Len(rs) - 1 /\ Len(rs) \in Nat /\ \A i \in 1..Len(ts) : ts[i] = rs[i + 1]
  OBVIOUS
<1> HIDE DEF ts
<1>2. SUFFICES ASSUME NEW i \in DOMAIN ts, ts[i].kind = "config"
               PROVE  /\ Names \subseteq ts[i].payload
                      /\ ts[i].mode = "rebuild" \/ (i = 1 /\ b2)
  BY DEF Configs, ts
<1>3. i \in 1..Len(ts) /\ i + 1 \in DOMAIN rs /\ ts[i] = rs[i + 1] /\ i + 1 # 1 BY <1>1, <1>2
<1>4. /\ Names \subseteq rs[i + 1].payload
      /\ rs[i + 1].mode = "rebuild" \/ (i + 1 = 2 /\ rs[1].kind = "clear")
  BY <1>2, <1>3 DEF Configs
<1>5. i + 1 = 2 => i = 1 BY <1>1, <1>3
<1> QED BY <1>1, <1>3, <1>4, <1>5

(* Those that are left after a statement of one that is none.              *)
LEMMA ConfigsStay ==
  ASSUME NEW rs \in Seq(Rows), NEW b1, Configs(rs, b1), NEW b2,
         rs # <<>> => Head(rs).kind # "config" \/ ~b1
  PROVE  Configs(rs, b2)
<1>1. 1 \in DOMAIN rs => rs # <<>> /\ Head(rs) = rs[1] OBVIOUS
<1> QED BY <1>1 DEF Configs

(* The indexes after a row is written.                                     *)
LEMMA WriteFull ==
  ASSUME KnownIndexes, NEW v, Contents(v), Full(v),
         NEW r \in Rows, r.kind \notin {"clear", "config", "latest"},
         NEW g, Usable(r, g), NEW c, Names \subseteq c,
         NEW w, w = Written(r, v, g, c)
  PROVE  Full(w ++ v)
<1> DEFINE u == w ++ v
<1>1. WriteOk(w, v, c) BY WrittenOk
<1> HIDE DEF u
<1>2. u[Config] = v[Config] BY <1>1 DEF WriteOk, u
<1>3. ASSUME NEW d \in DocId, Lives(u[DocKey(d)]), NEW f \in Names
      PROVE  u[IdxKey(d)] # Absent /\ f \in u[IdxKey(d)][1]
  <2>1. \/ u[DocKey(d)] = v[DocKey(d)] /\ u[IdxKey(d)] = v[IdxKey(d)]
        \/ u[DocKey(d)] \in {Absent, Dead}
        \/ u[IdxKey(d)] = Indexed(c, u[DocKey(d)])
    BY <1>1 DEF WriteOk, u
  <2>2. CASE u[DocKey(d)] = v[DocKey(d)] /\ u[IdxKey(d)] = v[IdxKey(d)]
    BY <1>3, <2>2 DEF Full
  <2>3. CASE u[DocKey(d)] \in {Absent, Dead} BY <1>3, <2>3 DEF Lives
  <2>4. CASE u[IdxKey(d)] = Indexed(c, u[DocKey(d)]) BY <2>4, IndexedFull
  <2> QED BY <2>1, <2>2, <2>3, <2>4
<1> QED BY <1>2, <1>3 DEF Full, u

LEMMA ClearFull ==
  ASSUME NEW v, Contents(v), Full(v), Absent \notin Nat, NEW w, w = Clear(v)
  PROVE  Full(w ++ v) /\ Bare(w ++ v)
<1>1. ClearPut(w, v) BY ClearWritten
<1> QED BY <1>1 DEF ClearPut, Full, Bare, Lives

LEMMA ConfigFull ==
  ASSUME KnownIndexes, NEW v, Contents(v), NEW c \in SUBSET IndexNames, Names \subseteq c,
         NEW rebuild \in BOOLEAN, rebuild \/ Bare(v), NEW w, w = Reconfigure(v, c, rebuild)
  PROVE  Full(w ++ v)
<1> DEFINE u == w ++ v
<1>1. ConfigPut(w, v, c, rebuild) BY ConfigWritten
<1> HIDE DEF u
<1>2. /\ u[Config] = c
      /\ \A d \in DocId : /\ u[DocKey(d)] = v[DocKey(d)]
                          /\ u[IdxKey(d)] = IF rebuild /\ v[DocKey(d)] \notin {Absent, Dead}
                                            THEN Indexed(c, v[DocKey(d)]) ELSE Absent
  BY <1>1 DEF ConfigPut, u
<1>3. ASSUME NEW d \in DocId, Lives(u[DocKey(d)]), NEW f \in Names
      PROVE  u[IdxKey(d)] # Absent /\ f \in u[IdxKey(d)][1]
  <2>1. u[IdxKey(d)] = Indexed(c, v[DocKey(d)]) BY <1>2, <1>3 DEF Bare, Lives
  <2> QED BY <2>1, IndexedFull
<1> QED BY <1>2, <1>3 DEF Full, u

(* Another call commits.                                                   *)
LEMMA FullBase ==
  ASSUME NEW b, Contents(b), NEW o, NEW l, NEW dn, Owns("postgres", b, o, l, dn),
         NEW o2, NEW l2, NEW dn2, Owns("postgres", b, o2, l2, dn2),
         DOMAIN o \cap DOMAIN o2 = {}, Full(o ++ b), Full(o2 ++ b)
  PROVE  Full(o ++ (o2 ++ b))
<1> DEFINE c == o2 ++ b
           v == o ++ b
           u == o ++ c
<1>1. /\ b = [k \in Key |-> b[k]] /\ DOMAIN o \subseteq Key /\ DOMAIN o2 \subseteq Key
      /\ \A d \in DocId : /\ DocKey(d) \in DOMAIN o => IdxKey(d) \in DOMAIN o
                          /\ DocKey(d) \in DOMAIN o2 => IdxKey(d) \in DOMAIN o2
  BY DEF Owns, Held, Contents
<1>2. \A d \in DocId : \/ u[DocKey(d)] = v[DocKey(d)] /\ u[IdxKey(d)] = v[IdxKey(d)]
                       \/ u[DocKey(d)] = c[DocKey(d)] /\ u[IdxKey(d)] = c[IdxKey(d)]
  BY <1>1, PairSeen
<1>3. u[Config] = v[Config] \/ u[Config] = c[Config]
  <2>1. Config \in Key BY KeysKnown
  <2>2. c = [k \in Key |-> c[k]] /\ v[Config] = IF Config \in DOMAIN o THEN o[Config] ELSE b[Config]
    BY <1>1, <2>1, Overwritten
  <2> HIDE DEF c
  <2>3. u[Config] = IF Config \in DOMAIN o THEN o[Config] ELSE c[Config]
    BY <1>1, <2>1, <2>2, Overwritten
  <2> QED BY <2>2, <2>3
<1> HIDE DEF u, v, c
<1>4. Full(v) /\ Full(c) BY DEF v, c
<1>5. Names \subseteq u[Config] BY <1>3, <1>4 DEF Full
<1>6. ASSUME NEW d \in DocId, Lives(u[DocKey(d)]), NEW f \in Names
      PROVE  u[IdxKey(d)] # Absent /\ f \in u[IdxKey(d)][1]
  BY <1>2, <1>4, <1>6 DEF Full
<1> QED BY <1>5, <1>6 DEF Full, u, c

(* What a statement outside transactions sees.                             *)
LEMMA FullOutside ==
  ASSUME Typed, AllFull
  PROVE  Full(Outside)
<1>1. CASE Outside = db BY <1>1 DEF AllFull
<1>2. ASSUME NEW q \in Proc, Open(q), Outside = own[q] ++ db PROVE Full(Outside)
  BY <1>2 DEF AllFull, Filled, Open
<1> QED BY <1>1, <1>2, OutsideOk

(* One call takes a step.                                                  *)
LEMMA OneFull ==
  ASSUME AllFull, NEW p \in Proc, UNCHANGED db, Others(p),
         \A q \in Proc \ {p} : conf'[q] = conf[q],
         Filled(pc'[p], own'[p] ++ db, conf'[p], rows'[p])
  PROVE  AllFull'
<1>1. ASSUME NEW q \in Proc PROVE Filled(pc'[q], own'[q] ++ db', conf'[q], rows'[q])
  <2>1. CASE q = p BY <2>1
  <2>2. CASE q # p
    <3>1. Filled(pc[q], own[q] ++ db, conf[q], rows[q]) BY DEF AllFull
    <3>2. /\ pc'[q] = pc[q] /\ own'[q] = own[q] /\ rows'[q] = rows[q] /\ conf'[q] = conf[q]
          /\ db' = db
      BY <2>2 DEF Others
    <3> QED BY <3>1, <3>2
  <2> QED BY <2>1, <2>2
<1>2. Full(db') BY DEF AllFull
<1> QED BY <1>1, <1>2, Zenon DEF AllFull

(* Nothing is left of a call that is over, and of a read.                  *)
LEMMA FilledIdle ==
  ASSUME NEW v, NEW c, NEW at \in {"idle", "get"}
  PROVE  Filled(at, v, c, <<>>)
BY DEF Filled, Configs

LEMMA RollbackFull ==
  ASSUME Typed, AllFull, NEW p \in Proc, Rollback(p)
  PROVE  AllFull'
<1>1. Over(p) /\ UNCHANGED <<db, gets>> BY DEF Rollback
<1>2. Others(p) /\ pc'[p] = "idle" /\ rows'[p] = <<>> BY <1>1, OverFields
<1>3. \A q \in Proc \ {p} : conf'[q] = conf[q] BY <1>1 DEF Over, Typed, Arrays
<1> QED BY <1>1, <1>2, <1>3, FilledIdle, OneFull

(* The calls that arrive know the indexes there are.                       *)
LEMMA ArriveFull ==
  ASSUME Typed, AllFull, NEW p \in Proc, NEW rs, Configs(rs, FALSE), Arrive(p, rs)
  PROVE  AllFull'
<1>1. /\ UNCHANGED <<db, own, got, last, done>>
      /\ pc' = [pc EXCEPT ![p] = "called"] /\ conf' = [conf EXCEPT ![p] = Outside[Config]]
      /\ rows' = [rows EXCEPT ![p] = rs] /\ stages' = [stages EXCEPT ![p] = StagesOf(rs)]
  BY Zenon DEF Arrive
<1>2. /\ Others(p) /\ pc'[p] = "called" /\ rows'[p] = rs /\ conf'[p] = Outside[Config]
      /\ \A q \in Proc \ {p} : conf'[q] = conf[q]
  BY <1>1 DEF Typed, Arrays, Others
<1>3. Names \subseteq conf'[p] BY <1>2, FullOutside DEF Full
<1>4. Filled("called", own'[p] ++ db, conf'[p], rs) BY <1>3 DEF Filled, Configs
<1> QED BY <1>1, <1>2, <1>4, OneFull

LEMMA CallFull ==
  ASSUME KnownIndexes, Typed, AllFull, NEW p \in Proc, Call(p)
  PROVE  AllFull'
<1>1. PICK rs \in Calls[dialect] : Arrive(p, rs) BY DEF Call
<1>2. Configs(rs, FALSE) BY DEF Typed, KnownIndexes
<1> QED BY <1>1, <1>2, ArriveFull

LEMMA AddIndexFull ==
  ASSUME Typed, AllFull, NEW p \in Proc, AddIndex(p)
  PROVE  AllFull'
<1>1. PICK f \in NewIndexes[dialect] :
        Arrive(p, <<Row("config", Absent, Outside[Config] \cup {f}, "rebuild")>>)
  BY DEF AddIndex
<1> DEFINE r == Row("config", Absent, Outside[Config] \cup {f}, "rebuild")
<1>2. Names \subseteq r.payload /\ r.mode = "rebuild" BY FullOutside DEF Full, Row
<1> HIDE DEF r
<1>3. Configs(<<r>>, FALSE) BY <1>2 DEF Configs
<1> QED BY <1>1, <1>3, ArriveFull DEF r

LEMMA RunRetentionFull ==
  ASSUME Setting, Typed, AllFull, NEW p \in Proc, RunRetention(p)
  PROVE  AllFull'
<1>1. PICK rs \in Seq(Rows) : /\ Arrive(p, rs)
                              /\ \A i \in DOMAIN rs : rs[i].kind \in {"delete", "cutoff"}
  BY RetentionRows
<1>2. Configs(rs, FALSE) BY <1>1 DEF Configs
<1> QED BY <1>1, <1>2, ArriveFull

LEMMA BeginFull ==
  ASSUME Typed, AllFull, NEW p \in Proc, Begin(p)
  PROVE  AllFull'
<1>0. pc[p] = "called" BY DEF Begin
<1>1. CASE Rollback(p) BY <1>1, RollbackFull
<1>2. CASE /\ pc' = [pc EXCEPT ![p] = "open"]
           /\ UNCHANGED <<db, own, conf, rows, stages, got, last, done>>
  <2>1. Others(p) /\ pc'[p] = "open" BY <1>2 DEF Typed, Arrays, Others
  <2>2. CallOk(p) /\ Contents(db) BY DEF Typed
  <2>3. own[p] = Nothing BY <1>0, <2>2, Closed DEF Open
  <2>4. own[p] ++ db = db BY <2>2, <2>3, NothingWritten DEF Contents
  <2>5. Filled("called", own[p] ++ db, conf[p], rows[p]) BY <1>0 DEF AllFull
  <2>6. Full(own[p] ++ db) BY <2>4 DEF AllFull
  <2>7. Filled("open", own[p] ++ db, conf[p], rows[p]) BY <2>5, <2>6 DEF Filled, Configs
  <2> QED BY <1>2, <2>1, <2>7, OneFull
<1> QED BY <1>1, <1>2 DEF Begin

(* A statement of an open transaction, which leaves o of it.               *)
LEMMA StatementFull ==
  ASSUME Typed, AllFull, NEW p \in Proc, NEW stage, At(p, stage),
         UNCHANGED <<dialect, db, pc, conf, gets>>,
         NEW o, (UNCHANGED own /\ o = own[p]) \/ own' = [own EXCEPT ![p] = o],
         NEW g, (UNCHANGED got /\ g = got[p]) \/ got' = [got EXCEPT ![p] = g],
         NEW l, (UNCHANGED last /\ l = last[p]) \/ last' = [last EXCEPT ![p] = l],
         (NextRow(p) /\ UNCHANGED done) \/ Advance(p),
         Full(o ++ db),
         Configs(Tail(rows[p]), Bare(o ++ db)),
         Len(stages[p]) # 1 => Configs(rows[p], Bare(o ++ db))
  PROVE  AllFull'
<1>1. pc[p] = "open" BY AtFacts
<1>2. /\ Others(p) /\ own'[p] = o
      /\ NextRow(p) /\ UNCHANGED done => Skips(p)
      /\ Advance(p) => IF Len(stages[p]) = 1 THEN Finishes(p) ELSE Stays(p)
  BY StatementFields
<1>3. Configs(rows'[p], Bare(o ++ db))
  BY <1>2 DEF Skips, Finishes, Stays
<1>4. Names \subseteq conf[p] BY <1>1 DEF AllFull, Filled
<1>5. Filled("open", o ++ db, conf[p], rows'[p])
  <2>1. Configs(rows'[p], "open" = "open" /\ Bare(o ++ db)) BY <1>3 DEF Configs
  <2> QED BY <1>4, <2>1, Zenon DEF Filled
<1> QED BY <1>1, <1>2, <1>5, OneFull

(* What it finds.                                                          *)
LEMMA AtFull ==
  ASSUME AllFull, NEW p \in Proc, NEW stage, At(p, stage)
  PROVE  /\ Names \subseteq conf[p] /\ Full(own[p] ++ db)
         /\ Configs(rows[p], Bare(own[p] ++ db))
<1>1. pc[p] = "open" BY DEF At, Open
<1>2. Filled("open", own[p] ++ db, conf[p], rows[p]) BY <1>1 DEF AllFull
<1> QED BY <1>2 DEF Filled, Configs

(* A statement that writes nothing.                                        *)
LEMMA QuietFull ==
  ASSUME Typed, AllFull, NEW p \in Proc, NEW stage, At(p, stage),
         UNCHANGED <<dialect, db, own, pc, conf, gets>>,
         NEW g, (UNCHANGED got /\ g = got[p]) \/ got' = [got EXCEPT ![p] = g],
         NEW l, (UNCHANGED last /\ l = last[p]) \/ last' = [last EXCEPT ![p] = l],
         (NextRow(p) /\ UNCHANGED done) \/ Advance(p),
         Head(rows[p]).kind # "clear"
  PROVE  AllFull'
<1>1. Full(own[p] ++ db) /\ Configs(rows[p], Bare(own[p] ++ db)) BY AtFull
<1>2. rows[p] \in Seq(Rows) /\ rows[p] # <<>> BY AtFacts
<1>3. Configs(Tail(rows[p]), Bare(own[p] ++ db)) BY <1>1, <1>2, ConfigsNext
<1> QED BY <1>1, <1>3, StatementFull

LEMMA ReadFull ==
  ASSUME Typed, AllFull, NEW p \in Proc, Read(p)
  PROVE  AllFull'
<1> DEFINE r == Head(rows[p])
           old == Sees(p)[ReadKey(r)]
<1>1. /\ At(p, "read")
      /\ \/ Rollback(p)
         \/ /\ NextRow(p)
            /\ UNCHANGED <<dialect, db, own, pc, conf, got, last, done, gets>>
         \/ /\ Advance(p) /\ got' = [got EXCEPT ![p] = old]
            /\ UNCHANGED <<dialect, db, own, pc, conf, last, gets>>
  BY Zenon DEF Read
<1>2. r.kind # "clear"
  <2>1. r \in Rows /\ stages[p] \in LeftOf(r) /\ Head(stages[p]) = "read" BY <1>1, AtFacts
  <2> QED BY <2>1, LeftFacts
<1>3. CASE Rollback(p) BY <1>3, RollbackFull
<1>4. CASE /\ NextRow(p)
           /\ UNCHANGED <<dialect, db, own, pc, conf, got, last, done, gets>>
  BY <1>1, <1>2, <1>4, QuietFull
<1>5. CASE /\ Advance(p) /\ got' = [got EXCEPT ![p] = old]
           /\ UNCHANGED <<dialect, db, own, pc, conf, last, gets>>
  <2> HIDE DEF old
  <2> QED BY <1>1, <1>2, <1>5, QuietFull
<1> QED BY <1>1, <1>3, <1>4, <1>5

LEMMA CheckFull ==
  ASSUME Typed, AllFull, NEW p \in Proc, Check(p)
  PROVE  AllFull'
<1>1. /\ At(p, "check")
      /\ \/ Rollback(p)
         \/ /\ NextRow(p)
            /\ UNCHANGED <<dialect, db, own, pc, conf, got, last, done, gets>>
         \/ /\ Advance(p)
            /\ UNCHANGED <<dialect, db, own, pc, conf, got, last, gets>>
  BY Zenon DEF Check
<1>2. Head(rows[p]).kind # "clear"
  <2>1. /\ Head(rows[p]) \in Rows /\ stages[p] \in LeftOf(Head(rows[p]))
        /\ Head(stages[p]) = "check"
    BY <1>1, AtFacts
  <2> QED BY <2>1, LeftFacts
<1>3. CASE Rollback(p) BY <1>3, RollbackFull
<1>4. CASE /\ NextRow(p)
           /\ UNCHANGED <<dialect, db, own, pc, conf, got, last, done, gets>>
  BY <1>1, <1>2, <1>4, QuietFull
<1>5. CASE /\ Advance(p)
           /\ UNCHANGED <<dialect, db, own, pc, conf, got, last, gets>>
  BY <1>1, <1>2, <1>5, QuietFull
<1> QED BY <1>1, <1>3, <1>4, <1>5

LEMMA Seq1Full ==
  ASSUME Typed, AllFull, NEW p \in Proc, Seq1(p)
  PROVE  AllFull'
<1> DEFINE n == latestSeq(Sees(p))
<1>1. /\ At(p, "seq") /\ last' = [last EXCEPT ![p] = n] /\ Advance(p)
      /\ UNCHANGED <<dialect, db, own, pc, conf, got, gets>>
  BY DEF Seq1
<1>2. Head(rows[p]).kind # "clear"
  <2>1. /\ Head(rows[p]) \in Rows /\ stages[p] \in LeftOf(Head(rows[p]))
        /\ Head(stages[p]) = "seq"
    BY <1>1, AtFacts
  <2> QED BY <2>1, LeftFacts DEF Short
<1> HIDE DEF n
<1> QED BY <1>1, <1>2, QuietFull

(* A row is written.                                                       *)
LEMMA WriteKeepsFull ==
  ASSUME Setting, KnownIndexes, NEW v, Contents(v), Full(v),
         NEW rs \in Seq(Rows), rs # <<>>, Configs(rs, Bare(v)),
         NEW ss \in LeftOf(Head(rs)), Head(ss) = "write",
         NEW g, Usable(Head(rs), g), NEW c, Names \subseteq c,
         NEW w, w = Written(Head(rs), v, g, c)
  PROVE  /\ Full(w ++ v) /\ Configs(Tail(rs), Bare(w ++ v))
         /\ Len(ss) # 1 => Configs(rs, Bare(w ++ v))
<1> DEFINE r == Head(rs)
           u == w ++ v
<1>1. /\ r \in Rows /\ r = rs[1] /\ 1 \in DOMAIN rs /\ RowOk(r) BY DEF Rows
<1>2. r.kind # "latest" /\ (Len(ss) = 1 <=> r.kind \in Short) BY <1>1, LeftFacts
<1> HIDE DEF u
<1>3. CASE r.kind = "clear"
  <2>1. w = Clear(v) BY <1>3 DEF Written
  <2>2. Absent \notin Nat BY DEF Setting
  <2>3. Full(u) /\ Bare(u) BY <2>1, <2>2, ClearFull DEF u
  <2>4. Configs(Tail(rs), Bare(u)) BY <2>3, ConfigsNext
  <2> QED BY <1>2, <1>3, <2>3, <2>4 DEF Short, u
<1>4. CASE r.kind = "config"
  <2> DEFINE rebuild == r.mode = "rebuild"
  <2>1. w = Reconfigure(v, r.payload, rebuild) /\ rebuild \in BOOLEAN BY <1>4 DEF Written
  <2>2. r.payload \in SUBSET IndexNames BY <1>1, <1>4 DEF RowOk
  <2>3. Names \subseteq r.payload /\ (rebuild \/ Bare(v)) BY <1>1, <1>4 DEF Configs
  <2> HIDE DEF rebuild
  <2>4. Full(u) BY <2>1, <2>2, <2>3, ConfigFull DEF u
  <2>5. Configs(Tail(rs), Bare(u)) BY <1>4, ConfigsNext
  <2> QED BY <1>2, <1>4, <2>4, <2>5 DEF Short, u
<1>5. CASE r.kind \notin {"clear", "config"}
  <2>1. Full(u) BY <1>1, <1>2, <1>5, WriteFull DEF u
  <2>2. Configs(Tail(rs), Bare(u)) BY <1>5, ConfigsNext
  <2>3. Configs(rs, Bare(u)) BY <1>5, ConfigsStay
  <2> QED BY <2>1, <2>2, <2>3 DEF u
<1> QED BY <1>3, <1>4, <1>5

LEMMA WriteFullStep ==
  ASSUME Setting, KnownIndexes, Typed, AllFull, NEW p \in Proc, Write(p)
  PROVE  AllFull'
<1> DEFINE v == own[p] ++ db
           w == Written(Head(rows[p]), v, got[p], conf[p])
           o == w ++ own[p]
<1>1. /\ At(p, "write") /\ Advance(p)
      /\ own' = [own EXCEPT ![p] = Written(Head(rows[p]), Sees(p), got[p], conf[p]) ++ @]
      /\ UNCHANGED <<dialect, db, pc, conf, got, last, gets>>
  BY DEF Write, Put
<1>2. /\ rows[p] # <<>> /\ Head(stages[p]) = "write" /\ rows[p] \in Seq(Rows)
      /\ Head(rows[p]) \in Rows /\ stages[p] \in LeftOf(Head(rows[p]))
      /\ Sees(p) = v /\ Contents(v) /\ Contents(db)
      /\ Ready(dialect, own[p], "open", rows[p], stages[p], got[p], last[p], done[p])
      /\ Owns(dialect, db, own[p], last[p], done[p])
  BY <1>1, AtFacts
<1>3. Names \subseteq conf[p] /\ Full(v) /\ Configs(rows[p], Bare(v)) BY <1>1, AtFull
<1>4. own' = [own EXCEPT ![p] = o] BY <1>1, <1>2
<1>5. Usable(Head(rows[p]), got[p]) BY <1>2, UsableIs DEF Ready
<1> HIDE DEF v, w
<1>6. /\ Full(w ++ v) /\ Configs(Tail(rows[p]), Bare(w ++ v))
      /\ Len(stages[p]) # 1 => Configs(rows[p], Bare(w ++ v))
  BY <1>2, <1>3, <1>5, WriteKeepsFull DEF w
<1>7. o ++ db = w ++ v
  <2>1. DOMAIN own[p] \subseteq Key /\ db = [k \in Key |-> db[k]]
    BY <1>2 DEF Owns, Held, Contents
  <2>2. DOMAIN w \subseteq Key
    <3>1. Owns(dialect, db, w ++ own[p], last[p],
               IF Len(stages[p]) = 1 THEN Append(done[p], Head(rows[p])) ELSE done[p])
      BY <1>2, WriteOwns DEF w, v
    <3>2. DOMAIN (w ++ own[p]) \subseteq Key BY <3>1 DEF Owns, Held
    <3> QED BY <3>2 DEF ++
  <2> QED BY <2>1, <2>2, WrittenTwice DEF v
<1> HIDE DEF o
<1> QED BY <1>1, <1>4, <1>6, <1>7, StatementFull

(* An entry of the log leaves documents and indexes alone.                 *)
LEMMA EntryFull ==
  ASSUME NEW v, Contents(v), Full(v), NEW n \in 1..MaxOps, NEW e
  PROVE  Full(Cell(OpKey(n), e) ++ v)
<1> DEFINE w == Cell(OpKey(n), e)
           u == w ++ v
<1>1. DOMAIN w = {OpKey(n)} /\ OpKey(n) \in Key BY KeysKnown DEF Cell
<1> HIDE DEF w
<1>2. \A k \in Key : u[k] = IF k \in DOMAIN w THEN w[k] ELSE v[k]
  BY <1>1, Overwritten DEF Contents
<1> HIDE DEF u
<1>3. /\ u[Config] = v[Config]
      /\ \A d \in DocId : u[DocKey(d)] = v[DocKey(d)] /\ u[IdxKey(d)] = v[IdxKey(d)]
  BY <1>1, <1>2, KeysApart, KeysKnown
<1> QED BY <1>3 DEF Full, u, w

LEMMA LogFull ==
  ASSUME Typed, AllFull, NEW p \in Proc, Log(p)
  PROVE  AllFull'
<1> DEFINE v == own[p] ++ db
           n == Number(p)
           e == OpRow(Head(rows[p]), got[p], n)
           w == Cell(OpKey(n), e)
           o == w ++ own[p]
<1>1. /\ At(p, "log") /\ n <= MaxOps
      /\ \/ Rollback(p)
         \/ /\ Sees(p)[OpKey(n)] = Absent
            /\ own' = [own EXCEPT ![p] = w ++ @]
            /\ last' = [last EXCEPT ![p] = n]
            /\ Advance(p)
            /\ UNCHANGED <<dialect, db, pc, conf, got, gets>>
  BY Zenon DEF Log, Put
<1>2. CASE Rollback(p) BY <1>2, RollbackFull
<1>3. CASE /\ Sees(p)[OpKey(n)] = Absent
           /\ own' = [own EXCEPT ![p] = w ++ @]
           /\ last' = [last EXCEPT ![p] = n]
           /\ Advance(p)
           /\ UNCHANGED <<dialect, db, pc, conf, got, gets>>
  <2>1. /\ rows[p] # <<>> /\ Head(stages[p]) = "log" /\ rows[p] \in Seq(Rows)
        /\ Head(rows[p]) \in Rows /\ stages[p] \in LeftOf(Head(rows[p]))
        /\ Contents(v) /\ Contents(db) /\ Owns(dialect, db, own[p], last[p], done[p])
    BY <1>1, AtFacts
  <2>2. Full(v) /\ Configs(rows[p], Bare(v)) BY <1>1, AtFull
  <2>3. n \in 1..MaxOps
    <3>1. n \in Nat /\ n = last[p] + 1 BY <1>1, <1>3, NumberIs
    <3>2. last[p] \in Nat BY <2>1 DEF Owns
    <3> HIDE DEF n
    <3> QED BY <1>1, <3>1, <3>2, SqlStengAssumption
  <2>4. Head(rows[p]).kind # "clear" /\ Len(stages[p]) = 1 BY <2>1, LeftFacts DEF Plain
  <2>5. own' = [own EXCEPT ![p] = o] BY <1>3
  <2> HIDE DEF n, e, v
  <2>6. DOMAIN w \subseteq Key BY <2>3, KeysKnown DEF Cell
  <2>7. Full(w ++ v) BY <2>1, <2>2, <2>3, EntryFull
  <2> HIDE DEF w
  <2>8. o ++ db = w ++ v
    <3>1. DOMAIN own[p] \subseteq Key /\ db = [k \in Key |-> db[k]]
      BY <2>1 DEF Owns, Held, Contents
    <3> QED BY <2>6, <3>1, WrittenTwice DEF v
  <2> HIDE DEF o
  <2>9. Configs(Tail(rows[p]), Bare(o ++ db)) BY <2>1, <2>2, <2>4, ConfigsNext
  <2> QED BY <1>1, <1>3, <2>4, <2>5, <2>7, <2>8, <2>9, StatementFull
<1> QED BY <1>1, <1>2, <1>3

(* Another call commits.                                                   *)
LEMMA OtherFull ==
  ASSUME Typed, AllFull, NEW p \in Proc, Open(p), NEW q \in Proc \ {p}
  PROVE  Filled(pc[q], own[q] ++ (own[p] ++ db), conf[q], rows[q])
<1> DEFINE u == own[q] ++ (own[p] ++ db)
<1>1. Filled(pc[q], own[q] ++ db, conf[q], rows[q]) BY DEF AllFull
<1>2. CASE pc[q] # "open" BY <1>1, <1>2 DEF Filled, Configs
<1>3. CASE pc[q] = "open"
  <2>1. dialect = "postgres"
    <3>1. dialect # "sqlite" BY <1>3 DEF Typed, OneOpen, Open
    <3> QED BY <3>1, SqlStengAssumption DEF Typed
  <2>2. CallOk(p) /\ CallOk(q) /\ Contents(db) /\ DOMAIN own[q] \cap DOMAIN own[p] = {}
    BY DEF Typed, Disjoint
  <2>3. /\ Owns("postgres", db, own[p], last[p], done[p])
        /\ Owns("postgres", db, own[q], last[q], done[q])
        /\ LeftInOrder("postgres", own[q], "open", rows[q], last[q], done[q])
    BY <1>3, <2>1, <2>2 DEF CallOk, Ready
  <2>4. Full(own[p] ++ db) /\ Full(own[q] ++ db) BY <1>3 DEF AllFull, Filled, Open
  <2>5. Full(u) BY <2>2, <2>3, <2>4, FullBase
  <2>6. Names \subseteq conf[q] BY <1>1, <1>3 DEF Filled
  <2>7. \A i \in DOMAIN rows[q] : rows[q][i].kind # "config" BY <2>3 DEF LeftInOrder
  <2> HIDE DEF u
  <2>8. Filled(pc[q], u, conf[q], rows[q]) BY <2>5, <2>6, <2>7 DEF Filled, Configs
  <2> QED BY <2>8 DEF u
<1> QED BY <1>2, <1>3

LEMMA CommitFull ==
  ASSUME Typed, AllFull, NEW p \in Proc, Commit(p)
  PROVE  AllFull'
<1>1. Open(p) /\ Over(p) /\ db' = own[p] ++ db /\ \E D : gets' = Disturbed(D)
  BY DEF Commit
<1>2. gets' = [q \in Proc |-> gets'[q]] BY <1>1 DEF Disturbed
<1>3. Others(p) /\ pc'[p] = "idle" /\ rows'[p] = <<>> BY <1>1, <1>2, OverFields
<1>4. \A q \in Proc \ {p} : conf'[q] = conf[q] BY <1>1 DEF Over, Typed, Arrays
<1>5. Full(db') BY <1>1 DEF AllFull, Filled, Open
<1>6. ASSUME NEW q \in Proc PROVE Filled(pc'[q], own'[q] ++ db', conf'[q], rows'[q])
  <2>1. CASE q = p BY <1>3, <2>1, FilledIdle
  <2>2. CASE q # p
    <3>1. Filled(pc[q], own[q] ++ db', conf[q], rows[q]) BY <1>1, <2>2, OtherFull
    <3>2. pc'[q] = pc[q] /\ own'[q] = own[q] /\ rows'[q] = rows[q] /\ conf'[q] = conf[q]
      BY <1>3, <1>4, <2>2 DEF Others
    <3> QED BY <3>1, <3>2
  <2> QED BY <2>1, <2>2
<1> QED BY <1>5, <1>6, Zenon DEF AllFull

LEMMA GetFull ==
  ASSUME Typed, AllFull, NEW p \in Proc, GetObjs(p) \/ QueryIds(p) \/ FetchDocs(p)
  PROVE  AllFull'
<1>1. /\ UNCHANGED <<db, own, conf, rows, stages, got, last, done>>
      /\ \/ pc[p] = "idle" /\ pc' = [pc EXCEPT ![p] = "get"]
         \/ pc[p] = "get" /\ UNCHANGED pc
         \/ pc[p] = "get" /\ pc' = [pc EXCEPT ![p] = "idle"]
  <2>1. CASE GetObjs(p) BY <2>1 DEF GetObjs
  <2>2. CASE QueryIds(p)
    <3>1. pc[p] = "get" BY <2>2 DEF QueryIds, Typed, Getting
    <3> QED BY <2>2, <3>1 DEF QueryIds, callVars
  <2>3. CASE FetchDocs(p)
    <3>1. pc[p] = "get" BY <2>3 DEF FetchDocs, Typed, Getting
    <3> QED BY <2>3, <3>1 DEF FetchDocs
  <2> QED BY <2>1, <2>2, <2>3
<1>2. pc'[p] \in {"idle", "get"} /\ pc[p] \in {"idle", "get"} /\ Others(p)
  BY <1>1 DEF Typed, Arrays, Others
<1>3. rows[p] = <<>>
  <2>1. CallOk(p) BY DEF Typed
  <2> QED BY <1>2, <2>1 DEF CallOk, Ready
<1> QED BY <1>1, <1>2, <1>3, FilledIdle, OneFull

LEMMA FullStep ==
  ASSUME Setting, KnownIndexes, Typed, AllFull, [Next]_vars
  PROVE  AllFull'
<1>1. CASE UNCHANGED vars \/ Ship
  <2>1. UNCHANGED <<db, own, pc, conf, rows>> BY <1>1 DEF Ship, vars, callVars
  <2> QED BY <2>1 DEF AllFull
<1>2. ASSUME NEW p \in Proc, Deadlocked(p) PROVE AllFull'
  BY <1>2, RollbackFull DEF Deadlocked
<1>3. ASSUME NEW p \in Proc,
             \/ Call(p) \/ AddIndex(p) \/ RunRetention(p) \/ Begin(p)
             \/ Read(p) \/ Check(p) \/ Write(p) \/ Seq1(p) \/ Log(p)
             \/ Commit(p) \/ GetObjs(p) \/ QueryIds(p) \/ FetchDocs(p)
      PROVE  AllFull'
  BY <1>3, CallFull, AddIndexFull, RunRetentionFull, BeginFull, ReadFull, CheckFull,
     WriteFullStep, Seq1Full, LogFull, CommitFull, GetFull
<1> QED BY <1>1, <1>2, <1>3 DEF Next

LEMMA FullInit ==
  ASSUME KnownIndexes, Init
  PROVE  AllFull
<1>1. /\ db = [k \in Key |-> CASE k = Config -> Indexes
                             [] k = Watermark -> 0
                             [] OTHER -> Absent]
      /\ \A p \in Proc : pc[p] = "idle" /\ rows[p] = <<>>
  BY DEF Init
<1>2. db[Config] = Indexes /\ \A d \in DocId : db[DocKey(d)] = Absent
  BY <1>1, KeysApart, KeysKnown
<1>3. Full(db) BY <1>2 DEF Full, Lives, KnownIndexes
<1>4. \A p \in Proc : Filled(pc[p], own[p] ++ db, conf[p], rows[p]) BY <1>1, FilledIdle
<1> QED BY <1>3, <1>4 DEF AllFull

(* A read between two statements: how its fields depend on each other.     *)
Query(f, l, n, F, e, t) ==
  [filter |-> f, left |-> l, next |-> n, found |-> F, equal |-> e, touched |-> t]
Due(l) == CHOOSE c \in l : TRUE

InTurn(g) ==
  /\ g = Query(g.filter, g.left, g.next, g.found, g.equal, g.touched)
  /\ g.filter \in Filters /\ g.left \subseteq g.filter
  /\ g.next \in {"live", "lookup", "equal", "others", "recheck", "end"}
  /\ g.next = "live" => g.filter = {}
  /\ g.next \in {"lookup", "equal", "others"} =>
       g.left # {} /\ (g.next = "lookup" <=> Due(g.left).op # "!=")
  /\ g.next = "recheck" => g.left = {}

(* What it has found of document d, x being what is committed of it: the   *)
(* clauses that are done hold.                                             *)
FoundOk(g, d, x) ==
  /\ g.next = "live" => d \in g.found
  /\ g.next = "end" => (d \in g.found <=> Lives(x) /\ matchesFilter(x, g.filter))
  /\ g.next \notin {"live", "end"} =>
       (d \in g.found <=> \A c \in g.filter \ g.left : Lives(x) /\ matchClause(x, c))
  /\ g.next = "others" =>
       (d \in g.equal <=> Lives(x) /\ matchClause(x, [Due(g.left) EXCEPT !.op = "=="]))

Found(g, v) ==
  InTurn(g) /\ \A d \in DocId \ g.touched : FoundOk(g, d, v[DocKey(d)])

AllFound == \A p \in Proc : gets[p] # NoGet => Found(gets[p], db)

(* On a shared connection a transaction disturbs every read.               *)
AllTouched ==
  dialect = "sqlite" /\ (\E q \in Proc : Open(q)) =>
    \A p \in Proc : gets[p] # NoGet => DocId \subseteq gets[p].touched

(* Its fields after a statement.                                           *)
More(g, D) == [g EXCEPT !.touched = @ \cup D]
Compared(g, n, e) == [g EXCEPT !.next = n, !.equal = e]
Narrowed(g, n, l, F) == [g EXCEPT !.next = n, !.left = l, !.found = F, !.equal = {}]
Answered(g, v, c) ==
  LET found == g.found \cap Selected(v, g, c)
      left == {b \in g.left : b # c}
  IN IF g.next = "equal"
     THEN Compared(g, "others", querySimpleIndexIds(v, [c EXCEPT !.op = "=="]))
     ELSE Narrowed(g, IF found = {} \/ g.next \in {"live", "recheck"} THEN "end"
                      ELSE First(left),
                   left, found)

LEMMA QueryMore ==
  ASSUME NEW f, NEW l, NEW n, NEW F, NEW e, NEW t, NEW D
  PROVE  More(Query(f, l, n, F, e, t), D) = Query(f, l, n, F, e, t \cup D)
BY DEF Query, More

LEMMA QueryCompared ==
  ASSUME NEW f, NEW l, NEW n, NEW F, NEW e, NEW t, NEW n2, NEW e2
  PROVE  Compared(Query(f, l, n, F, e, t), n2, e2) = Query(f, l, n2, F, e2, t)
<1> DEFINE g == Query(f, l, n, F, e, t)
           u == [g EXCEPT !.next = n2]
<1>1. u = Query(f, l, n2, F, e, t) BY DEF Query
<1>2. Compared(g, n2, e2) = [u EXCEPT !.equal = e2] BY DEF Query, Compared
<1> HIDE DEF u
<1>3. [u EXCEPT !.equal = e2] = Query(f, l, n2, F, e2, t) BY <1>1 DEF Query
<1> QED BY <1>2, <1>3

LEMMA QueryNarrowed ==
  ASSUME NEW f, NEW l, NEW n, NEW F, NEW e, NEW t, NEW n2, NEW l2, NEW F2
  PROVE  Narrowed(Query(f, l, n, F, e, t), n2, l2, F2) = Query(f, l2, n2, F2, {}, t)
<1> DEFINE g == Query(f, l, n, F, e, t)
           u == [g EXCEPT !.next = n2]
           w == [u EXCEPT !.left = l2]
           y == [w EXCEPT !.found = F2]
<1>1. u = Query(f, l, n2, F, e, t) BY DEF Query
<1>2. Narrowed(g, n2, l2, F2) = [y EXCEPT !.equal = {}] BY DEF Query, Narrowed
<1> HIDE DEF u
<1>3. w = Query(f, l2, n2, F, e, t) BY <1>1 DEF Query
<1> HIDE DEF w
<1>4. y = Query(f, l2, n2, F2, e, t) BY <1>3 DEF Query
<1> HIDE DEF y
<1>5. [y EXCEPT !.equal = {}] = Query(f, l2, n2, F2, {}, t) BY <1>4 DEF Query
<1> QED BY <1>2, <1>5

LEMMA QueryIs ==
  ASSUME NEW f, NEW l, NEW n, NEW F, NEW e, NEW t, NEW g, g = Query(f, l, n, F, e, t)
  PROVE  /\ g.filter = f /\ g.left = l /\ g.next = n /\ g.found = F /\ g.equal = e
         /\ g.touched = t
         /\ g = Query(g.filter, g.left, g.next, g.found, g.equal, g.touched)
BY DEF Query

-----------------------------------------------------------------------------
(* What a clause says of a document.                                       *)
LEMMA ClauseField ==
  ASSUME NEW x, NEW c, c.op # "!=", matchClause(x, c)
  PROVE  c.field \in DOMAIN x
BY DEF matchClause

LEMMA ClauseDiffers ==
  ASSUME NEW x, NEW c, c.op = "!=", NEW e, e.op = "==", e.field = c.field, e.value = c.value
  PROVE  matchClause(x, c) <=> ~matchClause(x, e)
BY DEF matchClause

(* What the index finds is what a look at every document would.            *)
LEMMA LookupFinds ==
  ASSUME KnownIndexes, NEW v, Contents(v), Full(v), NEW c, Field[c.field] \in Names,
         c.op # "!=", NEW d \in DocId
  PROVE  d \in querySimpleIndexIds(v, c) <=>
           Lives(v[DocKey(d)]) /\ matchClause(v[DocKey(d)], c)
<1> DEFINE x == v[DocKey(d)]
           i == v[IdxKey(d)]
<1>1. i # Absent => Lives(x) /\ i[2] = x BY DEF Contents, IndexOk, Lives
<1>2. Lives(x) => i # Absent /\ Field[c.field] \in i[1] BY DEF Full
<1>3. d \in querySimpleIndexIds(v, c) <=>
        /\ i # Absent /\ Field[c.field] \in i[1]
        /\ c.field \in DOMAIN i[2] /\ matchClause(i[2], c)
  BY DEF querySimpleIndexIds
<1>4. matchClause(x, c) => c.field \in DOMAIN x BY ClauseField
<1> HIDE DEF x, i
<1> QED BY <1>1, <1>2, <1>3, <1>4 DEF x, i

(* One clause further.                                                     *)
LEMMA ClauseDone ==
  ASSUME NEW g, InTurn(g), g.next \in {"lookup", "others"}, NEW d, NEW x, FoundOk(g, d, x),
         NEW h, InTurn(h), h.filter = g.filter, h.left = {b \in g.left : b # Due(g.left)},
         NEW S, d \in S <=> Lives(x) /\ matchClause(x, Due(g.left)),
         h.found = g.found \cap S,
         h.next = IF h.found = {} THEN "end" ELSE First(h.left)
  PROVE  FoundOk(h, d, x)
<1> DEFINE c == Due(g.left)
<1>1. c \in g.left /\ g.left \subseteq g.filter BY DEF InTurn, Due
<1> HIDE DEF c
<1>2. h.left = {b \in g.left : b # c} BY DEF c
<1>3. \A b : b \in h.filter \ h.left <=> b \in g.filter \ g.left \/ b = c BY <1>1, <1>2
<1>4. d \in g.found <=> \A b \in g.filter \ g.left : Lives(x) /\ matchClause(x, b)
  BY DEF FoundOk
<1>5. d \in h.found <=> d \in g.found /\ Lives(x) /\ matchClause(x, c) BY DEF c
<1>6. d \in h.found <=> \A b \in h.filter \ h.left : Lives(x) /\ matchClause(x, b)
  BY <1>3, <1>4, <1>5
<1>7. h.next \in {"recheck", "equal", "lookup", "end"} BY DEF First
<1>8. ASSUME h.next = "end"
      PROVE  d \in h.found <=> Lives(x) /\ matchesFilter(x, h.filter)
  <2>1. h.found = {} BY <1>8 DEF First
  <2>2. ~(\A b \in h.filter \ h.left : Lives(x) /\ matchClause(x, b)) BY <1>6, <2>1
  <2> QED BY <2>1, <2>2 DEF matchesFilter
<1> QED BY <1>6, <1>7, <1>8, Zenon DEF FoundOk

(* What comes first of the clauses that are left.                          *)
LEMMA FirstInTurn ==
  ASSUME NEW f \in Filters, NEW l, l \subseteq f, NEW F, NEW t,
         NEW n, n = "end" \/ n = First(l), NEW g, g = Query(f, l, n, F, {}, t)
  PROVE  InTurn(g)
<1>1. /\ g.filter = f /\ g.left = l /\ g.next = n
      /\ g = Query(g.filter, g.left, g.next, g.found, g.equal, g.touched)
  BY QueryIs
<1>2. CASE n = "end" BY <1>1, <1>2 DEF InTurn
<1>3. CASE l = {} /\ n = "recheck" BY <1>1, <1>3 DEF InTurn
<1>4. CASE l # {} /\ n = IF Due(l).op = "!=" THEN "equal" ELSE "lookup"
  BY <1>1, <1>4 DEF InTurn
<1> QED BY <1>2, <1>3, <1>4 DEF First, Due

(* A statement of a read, that sees v.                                     *)
LEMMA QueryStep ==
  ASSUME KnownIndexes, NEW g, InTurn(g), g.next # "end", NEW v,
         NEW c, c = Due(g.left), NEW h, h = Answered(g, v, c)
  PROVE  /\ InTurn(h) /\ h.touched = g.touched
         /\ Contents(v) /\ Full(v) =>
              \A d \in DocId : FoundOk(g, d, v[DocKey(d)]) => FoundOk(h, d, v[DocKey(d)])
<1> DEFINE F == g.found \cap Selected(v, g, c)
           l == {b \in g.left : b # c}
           n == IF F = {} \/ g.next \in {"live", "recheck"} THEN "end" ELSE First(l)
           e == [c EXCEPT !.op = "=="]
           E == querySimpleIndexIds(v, e)
<1>0. /\ g = Query(g.filter, g.left, g.next, g.found, g.equal, g.touched)
      /\ g.filter \in Filters /\ g.left \subseteq g.filter
      /\ g.next \in {"live", "lookup", "equal", "others", "recheck", "end"}
      /\ g.next = "live" => g.filter = {}
      /\ g.next \in {"lookup", "equal", "others"} =>
           g.left # {} /\ (g.next = "lookup" <=> c.op # "!=")
      /\ g.next = "recheck" => g.left = {}
  BY DEF InTurn
<1>1. ASSUME g.left # {}
      PROVE  /\ c \in g.filter /\ Field[c.field] \in Names
             /\ e.op = "==" /\ e.field = c.field /\ e.value = c.value
  <2>1. c \in g.left BY <1>1 DEF Due
  <2>2. c \in g.filter BY <2>1, <1>0
  <2>3. c = Clause(c.field, c.op, c.value) BY <1>0, <2>2 DEF KnownIndexes
  <2>4. e.op = "==" /\ e.field = c.field /\ e.value = c.value BY <2>3 DEF Clause
  <2>5. Field[c.field] \in Names BY <1>0, <2>2 DEF Names
  <2> QED BY <2>2, <2>4, <2>5
<1>2. ASSUME Contents(v), Full(v), NEW d \in DocId, g.left # {}
      PROVE  d \in E <=> Lives(v[DocKey(d)]) /\ matchClause(v[DocKey(d)], e)
  <2>1. Field[e.field] \in Names /\ e.op # "!=" BY <1>1, <1>2
  <2> HIDE DEF e
  <2> QED BY <1>2, <2>1, LookupFinds
<1>3. CASE g.next = "equal"
  <2>1. h = Query(g.filter, g.left, "others", g.found, E, g.touched)
    <3>1. h = Compared(g, "others", E) BY <1>3 DEF Answered
    <3> HIDE DEF E
    <3> QED BY <1>0, <3>1, QueryCompared
  <2>2. /\ h.filter = g.filter /\ h.left = g.left /\ h.next = "others" /\ h.found = g.found
        /\ h.equal = E /\ h.touched = g.touched
        /\ h = Query(h.filter, h.left, h.next, h.found, h.equal, h.touched)
    BY <2>1, QueryIs
  <2>3. InTurn(h) BY <1>0, <1>3, <2>2 DEF InTurn
  <2>4. ASSUME Contents(v), Full(v), NEW d \in DocId, FoundOk(g, d, v[DocKey(d)])
        PROVE  FoundOk(h, d, v[DocKey(d)])
    <3>1. d \in h.equal <=> Lives(v[DocKey(d)]) /\ matchClause(v[DocKey(d)], e)
      BY <1>0, <1>2, <1>3, <2>2, <2>4
    <3>2. d \in g.found <=> \A b \in g.filter \ g.left :
                              Lives(v[DocKey(d)]) /\ matchClause(v[DocKey(d)], b)
      BY <1>3, <2>4 DEF FoundOk
    <3>3. e = [Due(h.left) EXCEPT !.op = "=="] BY <2>2
    <3> HIDE DEF e, E
    <3> QED BY <2>2, <3>1, <3>2, <3>3 DEF FoundOk
  <2> QED BY <2>2, <2>3, <2>4
<1>4. CASE g.next # "equal"
  <2>1. h = Query(g.filter, l, n, F, {}, g.touched)
    <3>1. h = Narrowed(g, n, l, F) BY <1>4 DEF Answered
    <3> HIDE DEF n, l, F
    <3> QED BY <1>0, <3>1, QueryNarrowed
  <2>2. /\ h.filter = g.filter /\ h.left = l /\ h.next = n /\ h.found = F
        /\ h.touched = g.touched
    BY <2>1, QueryIs
  <2>3. InTurn(h)
    <3>1. l \subseteq g.filter /\ (n = "end" \/ n = First(l)) BY <1>0
    <3> HIDE DEF l, n
    <3> QED BY <1>0, <2>1, <3>1, FirstInTurn
  <2>4. ASSUME Contents(v), Full(v), NEW d \in DocId, FoundOk(g, d, v[DocKey(d)])
        PROVE  FoundOk(h, d, v[DocKey(d)])
    <3> DEFINE x == v[DocKey(d)]
               S == Selected(v, g, c)
    <3>0. /\ F = g.found \cap S /\ (d \in Live(TableOf(v)) <=> Lives(x))
      BY TableFields DEF Lives
    <3>1. CASE g.next = "live"
      <4>1. d \in S <=> Lives(x) BY <3>0, <3>1 DEF Selected
      <4>2. d \in g.found BY <2>4, <3>1 DEF FoundOk
      <4>3. h.next = "end" /\ h.filter = {} BY <1>0, <2>2, <3>1
      <4>4. matchesFilter(x, h.filter) BY <4>3 DEF matchesFilter
      <4> HIDE DEF x, S, n
      <4>5. d \in h.found <=> Lives(x) BY <2>2, <3>0, <4>1, <4>2
      <4>6. FoundOk(h, d, x) BY <4>3, <4>4, <4>5 DEF FoundOk
      <4> QED BY <4>6 DEF x
    <3>2. CASE g.next = "recheck"
      <4>1. d \in S <=> Lives(x) /\ matchesFilter(x, g.filter)
        BY <3>0, <3>2 DEF Selected
      <4>2. d \in g.found <=> \A b \in g.filter \ g.left : Lives(x) /\ matchClause(x, b)
        BY <2>4, <3>2 DEF FoundOk
      <4>3. Lives(x) /\ matchesFilter(x, g.filter) => d \in g.found
        BY <4>2 DEF matchesFilter
      <4>4. h.next = "end" BY <2>2, <3>2
      <4> HIDE DEF x, S, n
      <4>5. d \in h.found <=> Lives(x) /\ matchesFilter(x, h.filter)
        BY <2>2, <3>0, <4>1, <4>3
      <4>6. FoundOk(h, d, x) BY <4>4, <4>5 DEF FoundOk
      <4> QED BY <4>6 DEF x
    <3>3. CASE g.next \in {"lookup", "others"}
      <4>0. g.left # {} BY <1>0, <3>3
      <4>1. d \in S <=> Lives(x) /\ matchClause(x, c)
        <5>1. CASE g.next = "lookup"
          <6>1. S = querySimpleIndexIds(v, c) BY <5>1 DEF Selected
          <6>2. c.op # "!=" BY <1>0, <5>1
          <6> QED BY <1>1, <2>4, <4>0, <6>1, <6>2, LookupFinds
        <5>2. CASE g.next = "others"
          <6>1. S = Live(TableOf(v)) \ g.equal BY <5>2 DEF Selected
          <6>2. d \in g.equal <=> Lives(x) /\ matchClause(x, e) BY <2>4, <5>2 DEF FoundOk
          <6>3. c.op = "!=" BY <1>0, <5>2
          <6> HIDE DEF x, S, e
          <6>4. matchClause(x, c) <=> ~matchClause(x, e)
            BY <1>1, <4>0, <6>3, ClauseDiffers
          <6> QED BY <3>0, <6>1, <6>2, <6>4
        <5> QED BY <3>3, <5>1, <5>2
      <4>2. h.next = IF h.found = {} THEN "end" ELSE First(h.left) BY <2>2, <3>3
      <4>3. h.left = {b \in g.left : b # Due(g.left)} BY <2>2
      <4>4. FoundOk(g, d, x) BY <2>4
      <4>5. d \in S <=> Lives(x) /\ matchClause(x, Due(g.left)) BY <4>1
      <4> HIDE DEF x, S
      <4>6. FoundOk(h, d, x)
        BY <2>2, <2>3, <3>0, <3>3, <4>2, <4>3, <4>4, <4>5, ClauseDone
      <4> QED BY <4>6 DEF x
    <3> QED BY <1>0, <1>4, <3>1, <3>2, <3>3
  <2> QED BY <2>2, <2>3, <2>4
<1> QED BY <1>3, <1>4

(* More of what it has found may have changed.                             *)
LEMMA TouchedStep ==
  ASSUME NEW g, InTurn(g), NEW D, NEW h, h = More(g, D)
  PROVE  /\ InTurn(h) /\ h.touched = g.touched \cup D
         /\ \A d, x : FoundOk(g, d, x) => FoundOk(h, d, x)
<1> DEFINE t == g.touched \cup D
<1>1. g = Query(g.filter, g.left, g.next, g.found, g.equal, g.touched) BY DEF InTurn
<1>2. h = Query(g.filter, g.left, g.next, g.found, g.equal, t) BY <1>1, QueryMore
<1> HIDE DEF t
<1>3. /\ h.filter = g.filter /\ h.left = g.left /\ h.next = g.next /\ h.found = g.found
      /\ h.equal = g.equal /\ h.touched = t
      /\ h = Query(h.filter, h.left, h.next, h.found, h.equal, h.touched)
  BY <1>2, QueryIs
<1>4. InTurn(h) BY <1>3 DEF InTurn
<1>5. \A d, x : FoundOk(g, d, x) => FoundOk(h, d, x) BY <1>3 DEF FoundOk
<1> QED BY <1>3, <1>4, <1>5 DEF t

-----------------------------------------------------------------------------
(* The reads that are under way.                                           *)

(* A step that leaves the reads, what is committed and what is open alone. *)
LEMMA ReadsStay ==
  ASSUME AllFound, AllTouched, UNCHANGED <<dialect, db, gets>>,
         \A q \in Proc : pc'[q] = "open" => pc[q] = "open"
  PROVE  AllFound' /\ AllTouched'
<1>1. AllFound' BY DEF AllFound
<1>2. AllTouched' BY DEF AllTouched, Open
<1> QED BY <1>1, <1>2

LEMMA RollbackReads ==
  ASSUME Typed, AllFound, AllTouched, NEW p \in Proc, Rollback(p)
  PROVE  AllFound' /\ AllTouched'
<1>1. UNCHANGED <<dialect, db, gets>> /\ pc' = [pc EXCEPT ![p] = "idle"] BY DEF Rollback, Over
<1>2. \A q \in Proc : pc'[q] = "open" => pc[q] = "open" BY <1>1 DEF Typed, Arrays
<1> QED BY <1>1, <1>2, ReadsStay

LEMMA ArriveReads ==
  ASSUME Typed, AllFound, AllTouched, NEW p \in Proc, NEW rs, Arrive(p, rs)
  PROVE  AllFound' /\ AllTouched'
<1>1. UNCHANGED <<dialect, db, gets>> /\ pc' = [pc EXCEPT ![p] = "called"]
  BY Zenon DEF Arrive
<1>2. \A q \in Proc : pc'[q] = "open" => pc[q] = "open" BY <1>1 DEF Typed, Arrays
<1> QED BY <1>1, <1>2, ReadsStay

LEMMA CallReads ==
  ASSUME Setting, Typed, AllFound, AllTouched, NEW p \in Proc,
         Call(p) \/ AddIndex(p) \/ RunRetention(p)
  PROVE  AllFound' /\ AllTouched'
<1>1. \E rs : Arrive(p, rs)
  <2>1. CASE Call(p) BY <2>1 DEF Call
  <2>2. CASE AddIndex(p) BY <2>2 DEF AddIndex
  <2>3. CASE RunRetention(p) BY <2>3, RetentionRows
  <2> QED BY <2>1, <2>2, <2>3
<1> QED BY <1>1, ArriveReads

LEMMA StatementReads ==
  ASSUME Typed, AllFound, AllTouched, NEW p \in Proc,
         Read(p) \/ Check(p) \/ Write(p) \/ Seq1(p) \/ Log(p)
  PROVE  AllFound' /\ AllTouched'
<1>1. Rollback(p) \/ UNCHANGED <<dialect, db, pc, gets>>
  BY Zenon DEF Read, Check, Write, Seq1, Log
<1>2. CASE Rollback(p) BY <1>2, RollbackReads
<1>3. CASE UNCHANGED <<dialect, db, pc, gets>> BY <1>3, ReadsStay
<1> QED BY <1>1, <1>2, <1>3

(* Documents change, but not those that count as untouched.                *)
LEMMA DisturbedReads ==
  ASSUME Typed, AllFound, NEW D, gets' = Disturbed(D),
         \A d \in DocId \ D : db'[DocKey(d)] = db[DocKey(d)]
  PROVE  /\ AllFound'
         /\ \A p \in Proc : gets'[p] # NoGet =>
              gets[p] # NoGet /\ gets'[p].touched = gets[p].touched \cup D
<1>1. ASSUME NEW p \in Proc, gets'[p] # NoGet
      PROVE  /\ Found(gets'[p], db')
             /\ gets[p] # NoGet /\ gets'[p].touched = gets[p].touched \cup D
  <2> DEFINE g == gets[p]
             h == gets'[p]
  <2>1. g # NoGet /\ h = More(g, D) BY <1>1 DEF Disturbed, More
  <2>2. Found(g, db) BY <2>1 DEF AllFound
  <2>3. InTurn(g) /\ \A d \in DocId \ g.touched : FoundOk(g, d, db[DocKey(d)])
    BY <2>2 DEF Found
  <2> HIDE DEF g, h
  <2>4. /\ InTurn(h) /\ h.touched = g.touched \cup D
        /\ \A d, x : FoundOk(g, d, x) => FoundOk(h, d, x)
    BY <2>1, <2>3, TouchedStep
  <2>5. \A d \in DocId \ h.touched : FoundOk(h, d, db'[DocKey(d)])
    BY <2>3, <2>4
  <2>6. Found(h, db') BY <2>4, <2>5 DEF Found
  <2> QED BY <2>1, <2>4, <2>6 DEF g, h
<1>2. AllFound' BY <1>1, Zenon DEF AllFound
<1> QED BY <1>1, <1>2

LEMMA BeginReads ==
  ASSUME Typed, AllFound, AllTouched, NEW p \in Proc, Begin(p)
  PROVE  AllFound' /\ AllTouched'
<1>1. CASE Rollback(p) BY <1>1, RollbackReads
<1>2. CASE /\ UNCHANGED <<dialect, db>>
           /\ gets' = IF dialect = "sqlite" THEN Disturbed(DocId) ELSE gets
  <2>1. CASE dialect = "sqlite"
    <3>1. gets' = Disturbed(DocId) BY <1>2, <2>1
    <3>2. /\ AllFound'
          /\ \A q \in Proc : gets'[q] # NoGet =>
               gets[q] # NoGet /\ gets'[q].touched = gets[q].touched \cup DocId
      BY <1>2, <3>1, DisturbedReads
    <3> QED BY <3>2 DEF AllTouched
  <2>2. CASE dialect # "sqlite" BY <1>2, <2>2 DEF AllFound, AllTouched
  <2> QED BY <2>1, <2>2
<1> QED BY <1>1, <1>2 DEF Begin

LEMMA CommitReads ==
  ASSUME Typed, AllFound, AllTouched, NEW p \in Proc, Commit(p)
  PROVE  AllFound' /\ AllTouched'
<1> DEFINE D == {d \in DocId : DocKey(d) \in DOMAIN own[p]}
<1>1. /\ db' = own[p] ++ db /\ gets' = Disturbed(D) /\ dialect' = dialect
      /\ pc' = [pc EXCEPT ![p] = "idle"] /\ pc[p] = "open"
  BY DEF Commit, Over, Open
<1>2. \A d \in DocId \ D : db'[DocKey(d)] = db[DocKey(d)]
  <2>1. CallOk(p) /\ Contents(db) BY DEF Typed
  <2>2. DOMAIN own[p] \subseteq Key BY <2>1 DEF CallOk, Owns, Held
  <2>3. \A k \in Key : db'[k] = IF k \in DOMAIN own[p] THEN own[p][k] ELSE db[k]
    BY <1>1, <2>1, <2>2, Overwritten DEF Contents
  <2> QED BY <2>3, KeysKnown
<1> HIDE DEF D
<1>3. /\ AllFound'
      /\ \A q \in Proc : gets'[q] # NoGet =>
           gets[q] # NoGet /\ gets'[q].touched = gets[q].touched \cup D
  BY <1>1, <1>2, DisturbedReads
<1>4. \A q \in Proc : pc'[q] = "open" => pc[q] = "open" BY <1>1 DEF Typed, Arrays
<1>5. AllTouched' BY <1>1, <1>3, <1>4 DEF AllTouched, Open
<1> QED BY <1>3, <1>5

(* One read takes a step.                                                  *)
LEMMA OneRead ==
  ASSUME AllFound, AllTouched, NEW p \in Proc, UNCHANGED <<dialect, db>>,
         \A q \in Proc : pc'[q] = "open" => pc[q] = "open",
         \A q \in Proc \ {p} : gets'[q] = gets[q],
         gets'[p] # NoGet => Found(gets'[p], db),
         gets'[p] # NoGet /\ dialect = "sqlite" /\ (\E q \in Proc : Open(q)) =>
           DocId \subseteq gets'[p].touched
  PROVE  AllFound' /\ AllTouched'
<1>1. ASSUME NEW q \in Proc, gets'[q] # NoGet PROVE Found(gets'[q], db')
  <2>1. CASE q = p BY <1>1, <2>1
  <2>2. CASE q # p
    <3>1. gets'[q] = gets[q] /\ db' = db BY <2>2
    <3>2. Found(gets[q], db) BY <1>1, <3>1 DEF AllFound
    <3> QED BY <3>1, <3>2
  <2> QED BY <2>1, <2>2
<1>2. AllFound' BY <1>1, Zenon DEF AllFound
<1>3. ASSUME dialect = "sqlite", NEW r \in Proc, pc'[r] = "open", NEW q \in Proc,
             gets'[q] # NoGet
      PROVE  DocId \subseteq gets'[q].touched
  <2>1. Open(r) BY <1>3 DEF Open
  <2>2. CASE q = p BY <1>3, <2>1, <2>2
  <2>3. CASE q # p BY <1>3, <2>1, <2>3 DEF AllTouched
  <2> QED BY <2>2, <2>3
<1>4. AllTouched' BY <1>3 DEF AllTouched, Open
<1> QED BY <1>2, <1>4

LEMMA GetObjsReads ==
  ASSUME Typed, AllFound, AllTouched, NEW p \in Proc, GetObjs(p)
  PROVE  AllFound' /\ AllTouched'
<1> DEFINE t == IF dialect = "sqlite" /\ \E q \in Proc : Open(q) THEN DocId ELSE {}
<1>1. /\ UNCHANGED <<dialect, db>> /\ pc' = [pc EXCEPT ![p] = "get"] /\ pc[p] = "idle"
      /\ \E f \in Filters :
           gets' = [gets EXCEPT ![p] =
             Query(f, f, IF f = {} THEN "live" ELSE First(f), DocId, {}, t)]
  BY Zenon DEF GetObjs, Query
<1>2. PICK f \in Filters :
        gets' = [gets EXCEPT ![p] =
          Query(f, f, IF f = {} THEN "live" ELSE First(f), DocId, {}, t)]
  BY <1>1
<1> DEFINE n == IF f = {} THEN "live" ELSE First(f)
           h == Query(f, f, n, DocId, {}, t)
<1>3. gets'[p] = h /\ \A q \in Proc \ {p} : gets'[q] = gets[q] BY <1>2 DEF Typed, Arrays
<1>4. \A q \in Proc : pc'[q] = "open" => pc[q] = "open" BY <1>1 DEF Typed, Arrays
<1> HIDE DEF t, n, h
<1>5. /\ h.filter = f /\ h.left = f /\ h.next = n /\ h.found = DocId /\ h.touched = t
      /\ h = Query(h.filter, h.left, h.next, h.found, h.equal, h.touched)
  BY QueryIs DEF h
<1>6. InTurn(h)
  <2>1. CASE f = {} BY <1>5, <2>1 DEF InTurn, n
  <2>2. CASE f # {}
    <3>1. n = First(f) BY <2>2 DEF n
    <3> QED BY <3>1, FirstInTurn DEF h
  <2> QED BY <2>1, <2>2
<1>7. h.next \in {"live", "lookup", "equal", "recheck"} BY <1>5 DEF n, First
<1>8. \A d \in DocId : \A x : FoundOk(h, d, x) BY <1>5, <1>7 DEF FoundOk
<1>9. Found(h, db) BY <1>6, <1>8 DEF Found
<1>10. dialect = "sqlite" /\ (\E q \in Proc : Open(q)) => DocId \subseteq h.touched
  BY <1>5 DEF t
<1> QED BY <1>1, <1>3, <1>4, <1>9, <1>10, OneRead

LEMMA QueryIdsReads ==
  ASSUME KnownIndexes, Typed, AllFull, AllFound, AllTouched, NEW p \in Proc, QueryIds(p)
  PROVE  AllFound' /\ AllTouched'
<1> DEFINE g == gets[p]
           c == Due(g.left)
           h == Answered(g, Outside, c)
<1>1. /\ g # NoGet /\ g.next # "end" /\ UNCHANGED <<dialect, db, pc>>
      /\ gets' = [gets EXCEPT ![p] = h]
  BY Zenon DEF QueryIds, Answered, Compared, Narrowed, Due, callVars
<1>2. gets'[p] = h /\ \A q \in Proc \ {p} : gets'[q] = gets[q]
  <2> HIDE DEF h
  <2> QED BY <1>1 DEF Typed, Arrays
<1>3. InTurn(g) /\ \A d \in DocId \ g.touched : FoundOk(g, d, db[DocKey(d)])
  BY <1>1 DEF AllFound, Found
<1> DEFINE Grows == /\ InTurn(h) /\ h.touched = g.touched
                    /\ Contents(Outside) /\ Full(Outside) =>
                         \A d \in DocId : FoundOk(g, d, Outside[DocKey(d)]) =>
                                            FoundOk(h, d, Outside[DocKey(d)])
<1>4. Grows
  <2>1. InTurn(g) /\ g.next # "end" /\ c = Due(g.left) /\ h = Answered(g, Outside, c)
    BY <1>1, <1>3
  <2> HIDE DEF g, h, c
  <2> QED BY <2>1, QueryStep
<1> HIDE DEF h, g
<1>5. InTurn(h) /\ h.touched = g.touched BY <1>4
<1>6. dialect = "sqlite" /\ (\E q \in Proc : Open(q)) => DocId \subseteq h.touched
  BY <1>1, <1>5 DEF AllTouched, g
<1>7. \A d \in DocId \ h.touched : FoundOk(h, d, db[DocKey(d)])
  <2>1. CASE dialect = "sqlite" /\ \E q \in Proc : Open(q) BY <2>1, <1>6
  <2>2. CASE ~(dialect = "sqlite" /\ \E q \in Proc : Open(q))
    <3>1. Outside = db BY <2>2, Zenon DEF Outside
    <3>2. Contents(Outside) /\ Full(Outside) BY OutsideOk, FullOutside
    <3> QED BY <1>3, <1>4, <1>5, <3>1, <3>2
  <2> QED BY <2>1, <2>2
<1>8. Found(h, db) BY <1>5, <1>7 DEF Found
<1> QED BY <1>1, <1>2, <1>6, <1>8, OneRead

LEMMA FetchReads ==
  ASSUME Typed, AllFound, AllTouched, NEW p \in Proc, FetchDocs(p)
  PROVE  AllFound' /\ AllTouched'
<1>1. /\ gets' = [gets EXCEPT ![p] = NoGet] /\ pc' = [pc EXCEPT ![p] = "idle"]
      /\ UNCHANGED <<dialect, db>>
  BY DEF FetchDocs
<1>2. /\ gets'[p] = NoGet /\ \A q \in Proc \ {p} : gets'[q] = gets[q]
      /\ \A q \in Proc : pc'[q] = "open" => pc[q] = "open"
  BY <1>1 DEF Typed, Arrays
<1> QED BY <1>1, <1>2, OneRead

LEMMA ReadsStep ==
  ASSUME Setting, KnownIndexes, Typed, AllFull, AllFound, AllTouched, [Next]_vars
  PROVE  AllFound' /\ AllTouched'
<1>1. CASE UNCHANGED vars \/ Ship
  <2>1. UNCHANGED <<dialect, db, pc, gets>> BY <1>1 DEF Ship, vars, callVars
  <2> QED BY <2>1, ReadsStay
<1>2. ASSUME NEW p \in Proc, Deadlocked(p) PROVE AllFound' /\ AllTouched'
  BY <1>2, RollbackReads DEF Deadlocked
<1>3. ASSUME NEW p \in Proc,
             \/ Call(p) \/ AddIndex(p) \/ RunRetention(p) \/ Begin(p)
             \/ Read(p) \/ Check(p) \/ Write(p) \/ Seq1(p) \/ Log(p)
             \/ Commit(p) \/ GetObjs(p) \/ QueryIds(p) \/ FetchDocs(p)
      PROVE  AllFound' /\ AllTouched'
  BY <1>3, CallReads, StatementReads, BeginReads, CommitReads, GetObjsReads,
     QueryIdsReads, FetchReads
<1> QED BY <1>1, <1>2, <1>3 DEF Next

(* A filtered read finds through the indexes what a look at every document *)
(* would, of those that no call changed meanwhile, if the indexes of its   *)
(* filter are there from the start and no configuration drops them.        *)
THEOREM IndexesFindAll ==
  ASSUME Setting, KnownIndexes PROVE Spec => []ReadsFindMatches
<1>1. Init => AllFull /\ AllFound /\ AllTouched
  <2>1. Init => \A p \in Proc : gets[p] = NoGet BY DEF Init
  <2> QED BY <2>1, FullInit DEF AllFound, AllTouched
<1>2. Typed /\ AllFull /\ AllFound /\ AllTouched /\ [Next]_vars =>
        AllFull' /\ AllFound' /\ AllTouched'
  BY FullStep, ReadsStep
<1>3. Typed /\ AllFull /\ AllFound => ReadsFindMatches
  <2>1. SUFFICES ASSUME AllFound, NEW p \in Proc, gets[p] # NoGet, gets[p].next = "end",
                        NEW d \in DocId \ gets[p].touched
                 PROVE  d \in gets[p].found <=>
                          d \in Live(TableOf(db)) /\ matchesFilter(db[DocKey(d)], gets[p].filter)
    BY Zenon DEF ReadsFindMatches
  <2>2. FoundOk(gets[p], d, db[DocKey(d)]) BY <2>1 DEF AllFound, Found
  <2>3. d \in Live(TableOf(db)) <=> Lives(db[DocKey(d)]) BY TableFields DEF Lives
  <2> QED BY <2>1, <2>2, <2>3 DEF FoundOk
<1> QED BY <1>1, <1>2, <1>3, TransactionsFit, PTL DEF Spec
===============================================================================
