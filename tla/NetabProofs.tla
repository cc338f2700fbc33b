---------------------------- MODULE NetabProofs -----------------------------
(* What TLAPS proves of the netab services, for every set of services,     *)
(* clusters and clients, all rules, requests and tables to start with.     *)
EXTENDS NetabService, StengProofs

(* A request has the fields of its kind.                                   *)
Writing == {"add", "update", "replace", "delete"}
ReqOk(r) ==
  /\ r.op \in {"get", "subscribe"} \cup Writing
  /\ r.op = "get" =>
       /\ r = [op |-> r.op, ids |-> r.ids, filter |-> r.filter, start |-> r.start,
               mode |-> r.mode]
       /\ r.ids \subseteq DocId
  /\ r.op \in {"add", "update", "replace"} => r.value \in Value
  /\ r.op \in {"update", "replace", "delete"} => r.id \in DocId

TokenOk(ctx) == ctx.site \in Site \cup {NoSite}

(* What may come.                                                          *)
BudgetOk(b) ==
  /\ {"asks", "tokens", "cutoffs"} \subseteq DOMAIN b
  /\ \A r \in b.asks : ReqOk(r)
  /\ \A ctx \in b.tokens : TokenOk(ctx)
  /\ b.cutoffs \subseteq Nat

(* Tables whose log fits their documents, and a step that logs one entry.  *)
Sound == Good(FALSE)
Logs(t, u) == Wrote(FALSE, t, u)

(* What the constants are: every store starts with a table whose log fits  *)
(* its documents, and what comes is typed.                                 *)
Setting ==
  /\ StoresAtStart \in [Service -> Sound]
  /\ SiteScoped => "siteId" \in Leaf
  /\ \A b \in Budgets : BudgetOk(b)

-----------------------------------------------------------------------------
(* Tables.                                                                 *)

(* From t to u the documents of ids alone change, none to nothing, and the *)
(* log keeps what it has.                                                  *)
Turned(t, u, ids) ==
  /\ u \in Sound
  /\ \A i \in DocId : IF i \in ids THEN u.docs[i] # Absent ELSE u.docs[i] = t.docs[i]
  /\ Len(t.ops) <= Len(u.ops)
  /\ \A n \in 1..Len(t.ops) : u.ops[n] = t.ops[n]

(* From t to u the document i alone changes.                               *)
Turned1(t, u, i) == Turned(t, u, {i}) /\ u.watermark = t.watermark

(* The entries that u has after those of t are deletions.                  *)
Deletes(t, u) ==
  \A n \in 1..Len(u.ops) : n > Len(t.ops) => u.ops[n].op_type = "DELETE"

(* What is in a table.                                                     *)
LEMMA GoodFields ==
  ASSUME NEW t \in Sound
  PROVE  /\ t.docs \in [DocId -> Value \cup {Absent, Dead}]
         /\ t.ops \in Seq(Entry) /\ t.latestSeq = Len(t.ops)
         /\ \A n \in 1..Len(t.ops) : t.ops[n].op_seq = n /\ t.ops[n] \in Entry
         /\ t \in Tables /\ Numbered(t) /\ t.latestSeq \in Nat /\ t.watermark \in Nat
<1>1. t \in Tables /\ Numbered(t) BY DEF Sound, Good
<1>2. /\ t.docs \in [DocId -> Value \cup {Absent, Dead}] /\ t.ops \in Seq(Entry)
      /\ t.latestSeq \in Nat /\ t.watermark \in Nat
  BY <1>1 DEF Tables, Shape, Doc
<1> QED BY <1>1, <1>2 DEF Numbered

(* A table to which a document was written and an entry logged.            *)
LEMMA LoggedWrite ==
  ASSUME NEW t \in Sound, NEW i \in DocId, NEW v \in Value \cup {Dead},
         NEW type, NEW payload, NEW u, u = appendOp(writeDoc(t, i, v), type, i, payload),
         Logs(t, u)
  PROVE  /\ Turned1(t, u, i)
         /\ u.docs = [t.docs EXCEPT ![i] = v]
         /\ Len(u.ops) = Len(t.ops) + 1 /\ u.ops[Len(t.ops) + 1].op_type = type
<1>1. t \in Shape /\ t.ops \in Seq(Entry) /\ t.docs \in [DocId -> Value \cup {Absent, Dead}]
  BY GoodFields DEF Tables
<1> DEFINE op == [op_seq |-> t.latestSeq + 1, op_type |-> type, id |-> i, payload |-> payload]
<1>2. /\ u.ops = Append(t.ops, op) /\ u.docs = [t.docs EXCEPT ![i] = v]
      /\ u.watermark = t.watermark
  BY <1>1 DEF appendOp, Recorded, Shape, writeDoc
<1>3. op.op_type = type OBVIOUS
<1>4. u \in Sound BY DEF Logs, Wrote, Sound
<1> HIDE DEF op
<1>5. PICK e \in Entry : u.ops = Append(t.ops, e) BY DEF Logs, Wrote, Sound
<1>6. /\ Len(u.ops) = Len(t.ops) + 1 /\ u.ops[Len(t.ops) + 1] = e
      /\ \A n \in 1..Len(t.ops) : u.ops[n] = t.ops[n]
      /\ Len(t.ops) <= Len(u.ops)
  <2> DEFINE log == t.ops
             new == u.ops
  <2>1. log \in Seq(Entry) /\ new = Append(log, e) BY <1>1, <1>5
  <2> HIDE DEF log, new
  <2>2. /\ Len(new) = Len(log) + 1 /\ new[Len(log) + 1] = e /\ Len(log) <= Len(new)
        /\ \A n \in 1..Len(log) : new[n] = log[n]
    BY <2>1
  <2> QED BY <2>2 DEF log, new
<1>7. u.ops[Len(t.ops) + 1].op_type = type
  <2> DEFINE log == t.ops
  <2>1. Append(log, op)[Len(log) + 1] = op BY <1>1
  <2> QED BY <1>2, <1>3, <2>1
<1>8. v # Absent BY StengAssumption
<1>10. \A j \in DocId : IF j \in {i} THEN u.docs[j] # Absent ELSE u.docs[j] = t.docs[j]
  BY <1>1, <1>2, <1>8
<1> QED BY <1>2, <1>4, <1>6, <1>7, <1>10 DEF Turned, Turned1

(* Each of the engine's writes of one document.                            *)
LEMMA WriteTurns ==
  ASSUME NEW t \in Sound, NEW i \in DocId
  PROVE  /\ \A v \in Value :
              /\ Turned1(t, add_objs(t, i, v), i)
              /\ Turned1(t, replace_objs(t, i, v), i)
              /\ i \in Live(t) => Turned1(t, update_objs(t, i, v, "deep"), i)
         /\ Turned1(t, delete_objs(t, i), i)
         /\ delete_objs(t, i).docs = [t.docs EXCEPT ![i] = Dead]
         /\ Deletes(t, delete_objs(t, i))
<1>0. t.docs \in [DocId -> Value \cup {Absent, Dead}] /\ t.ops \in Seq(Entry) BY GoodFields
<1>1. ASSUME NEW v \in Value
      PROVE  /\ Turned1(t, add_objs(t, i, v), i)
             /\ Turned1(t, replace_objs(t, i, v), i)
  <2> DEFINE a == add_objs(t, i, v)
             r == replace_objs(t, i, v)
  <2>1. a = appendOp(writeDoc(t, i, v), "ADD", i, v) BY DEF add_objs
  <2>2. r = appendOp(writeDoc(t, i, v), "REPLACE", i, v) BY DEF replace_objs
  <2>3. Logs(t, a) /\ Logs(t, r) BY AddGood DEF Sound, Logs
  <2> HIDE DEF a, r
  <2>4. Turned1(t, a, i) BY <2>1, <2>3, LoggedWrite
  <2>5. Turned1(t, r, i) BY <2>2, <2>3, LoggedWrite
  <2> QED BY <2>4, <2>5 DEF a, r
<1>2. ASSUME NEW v \in Value, i \in Live(t)
      PROVE  Turned1(t, update_objs(t, i, v, "deep"), i)
  <2> DEFINE u == update_objs(t, i, v, "deep")
             m == Merge("deep", t.docs[i], v)
  <2>1. t.docs[i] \in Value BY <1>0, <1>2 DEF Live
  <2>2. m \in Value BY <2>1, MergeType
  <2>3. u = appendOp(writeDoc(t, i, m), "UPDATE", i, v) BY DEF update_objs
  <2>4. Logs(t, u) BY <1>2, UpdateGood DEF Sound, Logs
  <2> HIDE DEF u, m
  <2>5. Turned1(t, u, i) BY <2>2, <2>3, <2>4, LoggedWrite
  <2> QED BY <2>5 DEF u
<1>3. /\ Turned1(t, delete_objs(t, i), i)
      /\ delete_objs(t, i).docs = [t.docs EXCEPT ![i] = Dead]
      /\ Deletes(t, delete_objs(t, i))
  <2> DEFINE u == delete_objs(t, i)
             m == Dead
             type == "DELETE"
  <2>1. u = appendOp(writeDoc(t, i, m), type, i, Absent)
    BY DEF delete_objs, writeTombstone, writeDoc
  <2>2. Logs(t, u) BY DeleteGood DEF Sound, Logs
  <2>a. m \in Value \cup {Dead} OBVIOUS
  <2> HIDE DEF u, m, type
  <2>b. /\ Turned1(t, u, i)
        /\ u.docs = [t.docs EXCEPT ![i] = m]
        /\ Len(u.ops) = Len(t.ops) + 1 /\ u.ops[Len(t.ops) + 1].op_type = type
    BY <2>1, <2>2, <2>a, LoggedWrite
  <2>3. /\ Turned1(t, u, i)
        /\ u.docs = [t.docs EXCEPT ![i] = Dead]
        /\ Len(u.ops) = Len(t.ops) + 1 /\ u.ops[Len(t.ops) + 1].op_type = "DELETE"
    BY <2>b DEF m, type
  <2>4. Deletes(t, u)
    <3>1. ASSUME NEW n \in 1..Len(u.ops), n > Len(t.ops) PROVE n = Len(t.ops) + 1
      BY <1>0, <2>3, <3>1
    <3> QED BY <2>3, <3>1 DEF Deletes
  <2> QED BY <2>3, <2>4 DEF u
<1> QED BY <1>1, <1>2, <1>3
(* What replication copies: the entries that w has after those of t are    *)
(* the ones of u at their place.                                           *)
Copies(t, u, w) ==
  \A n \in 1..Len(w.ops) : n > Len(t.ops) => n \in 1..Len(u.ops) /\ w.ops[n] = u.ops[n]

(* What an entry of another log does to the documents.                     *)
LEMMA EffectDocs ==
  ASSUME NEW t \in Sound, NEW e \in Entry, e.op_type = "UPDATE" => e.id \in Live(t),
         BlobId \cap DocId = {}, NEW i \in DocId
  PROVE  /\ i = e.id => Effect(t, e).docs[i] # Absent
         /\ i # e.id => Effect(t, e).docs[i] = t.docs[i]
<1>1. t \in Shape /\ t.docs \in [DocId -> Value \cup {Absent, Dead}] BY GoodFields DEF Tables
<1>2. e.op_type \in OpTypes /\ EntryOk(e) BY DEF Entry
<1>3. CASE e.op_type \in {"ADD", "REPLACE"}
  <2>1. e.id \in DocId /\ e.payload \in Value BY <1>2, <1>3 DEF EntryOk
  <2>2. Effect(t, e) = [t EXCEPT !.docs[e.id] = e.payload] BY <1>3 DEF Effect, writeDoc
  <2>3. e.payload # Absent BY <2>1, StengAssumption
  <2> QED BY <1>1, <2>1, <2>2, <2>3 DEF Shape
<1>4. CASE e.op_type = "UPDATE"
  <2>1. e.id \in DocId /\ e.payload \in Value BY <1>2, <1>4 DEF EntryOk
  <2> DEFINE m == deepMerge(t.docs[e.id], e.payload)
  <2>2. Effect(t, e) = [t EXCEPT !.docs[e.id] = m] BY <1>4 DEF Effect, writeDoc
  <2>3. t.docs[e.id] \in Value BY <1>1, <1>4, <2>1 DEF Live
  <2>4. m \in Value BY <2>1, <2>3, MergeType
  <2> HIDE DEF m
  <2>5. m # Absent BY <2>4, StengAssumption
  <2> QED BY <1>1, <2>1, <2>2, <2>5 DEF Shape
<1>5. CASE e.op_type = "DELETE"
  <2>1. e.id \in DocId BY <1>2, <1>5 DEF EntryOk
  <2>2. Effect(t, e) = [t EXCEPT !.docs[e.id] = Dead] BY <1>5 DEF Effect, writeTombstone
  <2> QED BY <1>1, <2>1, <2>2, StengAssumption DEF Shape
<1>6. CASE e.op_type \in {"BLOB_ADD", "BLOB_DEL"}
  <2>1. e.id \in BlobId BY <1>2, <1>6 DEF EntryOk
  <2>2. \E v : Effect(t, e) = [t EXCEPT !.blobs[e.id] = v] BY <1>6 DEF Effect
  <2> QED BY <1>1, <2>1, <2>2 DEF Shape
<1> QED BY <1>2, <1>3, <1>4, <1>5, <1>6 DEF OpTypes

(* Taking the next entry of another table's log.                           *)
LEMMA CopyTurns ==
  ASSUME BlobId \cap DocId = {}, NEW t \in Sound, NEW u \in Sound, NEW next, NEW done,
         next = read_ops_since(u, t.latestSeq, 1), next # <<>>,
         done = apply_ops(t, next), done.ok
  PROVE  /\ Turned1(t, done.table, next[1].id)
         /\ Copies(t, u, done.table)
<1> DEFINE log == u.ops
           own == t.ops
           k == t.latestSeq
           w == done.table
<1>1. /\ u \in Tables /\ Numbered(u) /\ k \in Nat /\ k = Len(own)
      /\ log \in Seq(Entry) /\ own \in Seq(Entry)
      /\ \A n \in 1..Len(log) : log[n].op_seq = n /\ log[n] \in Entry
  BY GoodFields
<1>2. next = SubSeq(log, k + 1, Bounded(Len(log), k + 1))
  <2>1. u \in Tables /\ Numbered(u) /\ k \in Nat /\ 1 \in Nat BY <1>1
  <2>2. next = read_ops_since(u, k, 1) OBVIOUS
  <2> HIDE DEF k
  <2> QED BY <2>1, <2>2, ReadReturnsBlock
<1> HIDE DEF log, own, k
<1>3. k + 1 \in 1..Len(log) /\ next = SubSeq(log, k + 1, k + 1)
  <2>1. CASE Len(log) <= k
    <3>1. Bounded(Len(log), k + 1) = Len(log) BY <1>1, <2>1 DEF Bounded
    <3>2. next = <<>> BY <1>1, <1>2, <2>1, <3>1
    <3> QED BY <3>2
  <2>2. CASE k + 1 <= Len(log)
    <3>1. Bounded(Len(log), k + 1) = k + 1 BY <1>1, <2>2 DEF Bounded
    <3>2. next = SubSeq(log, k + 1, k + 1) BY <1>2, <3>1
    <3>3. k + 1 \in 1..Len(log) BY <1>1, <2>2
    <3> QED BY <3>2, <3>3
  <2>3. Len(log) \in Nat BY <1>1
  <2> QED BY <1>1, <2>1, <2>2, <2>3
<1> DEFINE e == log[k + 1]
<1>4. e \in Entry /\ e.op_seq = k + 1 BY <1>1, <1>3
<1>5. next \in Seq(Entry) /\ Len(next) = 1 /\ next[1] = e
  <2>1. k + 1 >= 1 /\ k + 1 <= (k + 1) + 1 /\ k + 1 <= Len(log) /\ k + 1 \in Nat
    BY <1>1, <1>3
  <2>2. /\ SubSeq(log, k + 1, k + 1) \in Seq(Entry)
        /\ Len(SubSeq(log, k + 1, k + 1)) = (k + 1) + 1 - (k + 1)
        /\ \A i \in 1..((k + 1) + 1 - (k + 1)) :
              SubSeq(log, k + 1, k + 1)[i] = log[(k + 1) + i - 1]
    BY <1>1, <2>1, SubSeqIs
  <2>3. (k + 1) + 1 - (k + 1) = 1 /\ (k + 1) + 1 - 1 = k + 1 /\ 1 \in 1..1 BY <1>1
  <2> QED BY <1>3, <2>2, <2>3
<1> HIDE DEF e
<1>a. next = Append(<<>>, e)
  <2>1. <<>> \in Seq(Entry) OBVIOUS
  <2> DEFINE one == Append(<<>>, e)
  <2>2. one \in Seq(Entry) /\ Len(one) = 1 /\ one[1] = e BY <1>4, <2>1
  <2> HIDE DEF one
  <2>3. next = one BY <1>5, <2>2
  <2> QED BY <2>3 DEF one
<1>6. done = ApplyOne(Start(t), e)
  <2>1. <<>> \in Seq(Entry) OBVIOUS
  <2>2. apply_ops(t, Append(<<>>, e)) = ApplyOne(apply_ops(t, <<>>), e)
    BY <1>4, <2>1, ApplyAppend
  <2> QED BY <1>a, <2>2, ApplyNothing
<1>7. Start(t).table = t /\ Start(t).ok /\ Start(t) = [table |-> t, ok |-> TRUE] BY DEF Start
<1>8. ~(e.op_seq <= t.latestSeq) BY <1>1, <1>4 DEF k
<1>9. ~Refused(t, e)
  <2> SUFFICES ASSUME Refused(t, e) PROVE FALSE OBVIOUS
  <2>1. done = [Start(t) EXCEPT !.ok = FALSE] BY <1>6, <1>7, <1>8 DEF ApplyOne
  <2> QED BY <1>7, <2>1
<1> DEFINE x == Effect(t, e)
<1>10. w = Recorded(x, e)
  <2> DEFINE r == Recorded(x, e)
  <2>1. done = [Start(t) EXCEPT !.table = r] BY <1>6, <1>7, <1>8, <1>9 DEF ApplyOne
  <2> HIDE DEF r
  <2>2. done.table = r BY <1>7, <2>1
  <2> QED BY <2>2 DEF r
<1>11. e.op_type = "UPDATE" => e.id \in Live(t) BY <1>9 DEF Refused
<1>12. x \in Tables /\ x.ops = own /\ t \in Tables
  <2>1. t \in Tables BY GoodFields
  <2> QED BY <1>4, <1>11, <2>1, EffectType, EffectKeepsLog DEF own
<1>13. \A i \in DocId : /\ i = e.id => x.docs[i] # Absent
                        /\ i # e.id => x.docs[i] = t.docs[i]
  BY <1>4, <1>11, EffectDocs
<1>14. x.watermark = t.watermark BY <1>4, <1>12, EffectKeepsLog
<1> HIDE DEF x
<1>15. w.docs = x.docs /\ w.watermark = x.watermark /\ w.ops = Append(own, e)
  BY <1>10, <1>12 DEF Recorded, Tables, Shape
<1>16. w \in Sound BY <1>5, ApplyGood DEF Sound
<1> HIDE DEF w
<1> DEFINE new == w.ops
<1>17. new = Append(own, e) BY <1>15
<1> HIDE DEF new
<1>18. /\ Len(new) = Len(own) + 1 /\ new[Len(own) + 1] = e
       /\ \A n \in 1..Len(own) : new[n] = own[n]
  BY <1>1, <1>4, <1>17
<1>19. Len(own) <= Len(new) BY <1>1, <1>18
<1>20. \A n \in 1..Len(new) : n > Len(own) => n \in 1..Len(log) /\ new[n] = log[n]
  <2>1. ASSUME NEW n \in 1..Len(new), n > Len(own) PROVE n = k + 1
    BY <1>1, <1>18, <2>1
  <2> QED BY <1>1, <1>3, <1>18, <2>1 DEF e
<1>21. \A i \in DocId : IF i \in {e.id} THEN w.docs[i] # Absent ELSE w.docs[i] = t.docs[i]
  BY <1>13, <1>15
<1>22. Turned1(t, w, e.id)
  <2>1. w.watermark = t.watermark BY <1>14, <1>15
  <2> QED BY <1>16, <1>18, <1>19, <1>21, <2>1 DEF Turned, Turned1, own, new
<1>23. Copies(t, u, w) BY <1>20 DEF Copies, own, new, log
<1> QED BY <1>5, <1>22, <1>23 DEF w

(* A table that gets another watermark.                                    *)
LEMMA MarkTurns ==
  ASSUME NEW t \in Sound, NEW n \in Nat, NEW u, u = [t EXCEPT !.watermark = n]
  PROVE  Turned(t, u, {}) /\ Deletes(t, u) /\ u.watermark = n
<1>1. t \in Shape BY GoodFields DEF Tables
<1>2. u.docs = t.docs /\ u.watermark = n BY <1>1 DEF Shape
<1>3. u \in Sound /\ u.ops = t.ops BY WatermarkGood DEF Sound
<1>4. Len(t.ops) \in Nat BY GoodFields
<1> QED BY <1>2, <1>3, <1>4 DEF Turned, Deletes

-----------------------------------------------------------------------------
(* What is still to be told.                                               *)

(* The change of a row, by a client or by retention.                       *)
Message == [id : DocId, row : Value \cup {Dead}, by : Client \cup {Nobody}, late : BOOLEAN]

(* Something is to be told of the row i.                                   *)
Waits(q, i) == \E n \in DOMAIN q : q[n].id = i

(* What is to be told last of a row is what the table holds, unless it was *)
(* overtaken.                                                              *)
LastOf(q, n) == \A m \in DOMAIN q : m > n => q[m].id # q[n].id
WordsTrue(q, t) ==
  \A n \in DOMAIN q : LastOf(q, n) /\ ~q[n].late => q[n].row = t.docs[q[n].id]

(* The document i alone changes.                                           *)
Elsewhere(t, u, i) == \A j \in DocId : j # i => u.docs[j] = t.docs[j]

(* What is in a queue.                                                     *)
LEMMA QueueIds ==
  ASSUME NEW q \in Seq(Message), NEW n \in DOMAIN q
  PROVE  q[n] \in Message /\ q[n].id \in DocId
<1>1. q[n] \in Message OBVIOUS
<1> QED BY <1>1 DEF Message

(* A row that was written is to be told last.                              *)
LEMMA QueueAppend ==
  ASSUME NEW q \in Seq(Message), NEW t, NEW u, NEW e \in Message, WordsTrue(q, t),
         e.row = u.docs[e.id], Elsewhere(t, u, e.id), NEW p, p = Append(q, e)
  PROVE  /\ p \in Seq(Message) /\ WordsTrue(p, u)
         /\ \A j : Waits(p, j) <=> Waits(q, j) \/ j = e.id
<1> DEFINE k == Len(q)
<1>1. /\ k \in Nat /\ p \in Seq(Message) /\ DOMAIN q = 1..k /\ DOMAIN p = 1..(k + 1)
      /\ p[k + 1] = e /\ \A n \in 1..k : p[n] = q[n]
  OBVIOUS
<1>2. \A n \in 1..k : q[n].id \in DocId BY <1>1, QueueIds
<1> HIDE DEF k
<1>3. ASSUME NEW n \in 1..(k + 1), LastOf(p, n), ~p[n].late PROVE p[n].row = u.docs[p[n].id]
  <2>1. CASE n = k + 1 BY <1>1, <2>1
  <2>2. CASE n \in 1..k
    <3>1. k + 1 \in 1..(k + 1) /\ k + 1 > n BY <1>1, <2>2
    <3>2. p[n] = q[n] /\ p[n].id # e.id BY <1>1, <1>3, <2>2, <3>1 DEF LastOf
    <3>3. LastOf(q, n)
      <4> SUFFICES ASSUME NEW m \in 1..k, m > n PROVE q[m].id # q[n].id
        BY <1>1 DEF LastOf
      <4>1. m \in 1..(k + 1) /\ p[m] = q[m] BY <1>1
      <4> QED BY <1>1, <1>3, <3>2, <4>1 DEF LastOf
    <3>4. q[n].row = t.docs[q[n].id] BY <1>1, <1>3, <2>2, <3>2, <3>3 DEF WordsTrue
    <3> QED BY <1>2, <2>2, <3>2, <3>4 DEF Elsewhere
  <2> QED BY <1>1, <2>1, <2>2
<1>4. WordsTrue(p, u) BY <1>1, <1>3 DEF WordsTrue
<1>5. ASSUME NEW j PROVE Waits(p, j) <=> Waits(q, j) \/ j = e.id
  <2>1. ASSUME Waits(p, j) PROVE Waits(q, j) \/ j = e.id
    <3>1. PICK n \in 1..(k + 1) : p[n].id = j BY <1>1, <2>1 DEF Waits
    <3>2. n = k + 1 \/ n \in 1..k BY <1>1
    <3> QED BY <1>1, <3>1, <3>2 DEF Waits
  <2>2. ASSUME Waits(q, j) PROVE Waits(p, j)
    <3>1. PICK n \in 1..k : q[n].id = j BY <1>1, <2>2 DEF Waits
    <3>2. n \in 1..(k + 1) BY <1>1
    <3> QED BY <1>1, <3>1, <3>2 DEF Waits
  <2>3. ASSUME j = e.id PROVE Waits(p, j)
    <3>1. k + 1 \in 1..(k + 1) BY <1>1
    <3> QED BY <1>1, <2>3, <3>1 DEF Waits
  <2> QED BY <2>1, <2>2, <2>3
<1> QED BY <1>1, <1>4, <1>5

(* What is to be told of a row that was copied is marked.                  *)
LEMMA QueueOvertaken ==
  ASSUME NEW q \in Seq(Message), NEW t, NEW u, NEW i, WordsTrue(q, t),
         Elsewhere(t, u, i), NEW p, p = Overtaken(q, i)
  PROVE  /\ p \in Seq(Message) /\ WordsTrue(p, u)
         /\ \A j : Waits(p, j) <=> Waits(q, j)
<1> DEFINE k == Len(q)
<1>1. k \in Nat /\ DOMAIN q = 1..k /\ \A n \in 1..k : q[n] \in Message OBVIOUS
<1>2. /\ DOMAIN p = 1..k
      /\ \A n \in 1..k : p[n] = IF q[n].id = i THEN [q[n] EXCEPT !.late = TRUE] ELSE q[n]
      /\ p = [n \in 1..k |-> p[n]]
  BY <1>1 DEF Overtaken
<1> HIDE DEF k
<1>3. \A n \in 1..k : /\ p[n] \in Message /\ p[n].id = q[n].id /\ p[n].row = q[n].row
                      /\ q[n].id = i => p[n].late
                      /\ q[n].id # i => p[n] = q[n]
  BY <1>1, <1>2 DEF Message
<1>4. p \in Seq(Message)
  <2>1. p \in [1..k -> Message] BY <1>2, <1>3
  <2> QED BY <1>1, <2>1
<1>5. ASSUME NEW n \in 1..k, LastOf(p, n), ~p[n].late PROVE p[n].row = u.docs[p[n].id]
  <2>1. q[n].id # i /\ p[n] = q[n] BY <1>3, <1>5
  <2>2. LastOf(q, n) BY <1>1, <1>2, <1>3, <1>5 DEF LastOf
  <2>3. q[n].row = t.docs[q[n].id] BY <1>1, <1>5, <2>1, <2>2 DEF WordsTrue
  <2>4. q[n].id \in DocId BY <1>1 DEF Message
  <2> QED BY <2>1, <2>3, <2>4 DEF Elsewhere
<1>6. WordsTrue(p, u) BY <1>2, <1>5 DEF WordsTrue
<1>7. \A j : Waits(p, j) <=> Waits(q, j) BY <1>1, <1>2, <1>3 DEF Waits
<1> QED BY <1>4, <1>6, <1>7

(* What is told is the head, and what the table holds of the row when      *)
(* nothing else is to be told of it.                                       *)
LEMMA QueueTold ==
  ASSUME NEW q \in Seq(Message), q # <<>>, NEW t, WordsTrue(q, t),
         NEW m, m = Head(q), NEW p, p = Tail(q)
  PROVE  /\ m \in Message /\ p \in Seq(Message) /\ WordsTrue(p, t)
         /\ \A j : Waits(q, j) <=> Waits(p, j) \/ j = m.id
         /\ ~m.late /\ ~Waits(p, m.id) => m.row = t.docs[m.id]
<1> DEFINE k == Len(p)
<1>1. /\ k \in Nat /\ m \in Message /\ p \in Seq(Message)
      /\ DOMAIN p = 1..k /\ DOMAIN q = 1..(k + 1)
      /\ m = q[1] /\ \A n \in 1..k : p[n] = q[n + 1]
  OBVIOUS
<1> HIDE DEF k
<1>2. \A n \in 1..(k + 1) : n = 1 \/ (n - 1 \in 1..k /\ (n - 1) + 1 = n) BY <1>1
<1>3. \A n \in 1..k : n + 1 \in 1..(k + 1) BY <1>1
<1>4. 1 \in 1..(k + 1) BY <1>1
<1>5. ASSUME NEW j PROVE Waits(q, j) <=> Waits(p, j) \/ j = m.id
  <2>1. ASSUME Waits(q, j), j # m.id PROVE Waits(p, j)
    <3>1. PICK n \in 1..(k + 1) : q[n].id = j BY <1>1, <2>1 DEF Waits
    <3>2. n - 1 \in 1..k /\ (n - 1) + 1 = n BY <1>1, <1>2, <2>1, <3>1
    <3>3. p[n - 1] = q[n] BY <1>1, <3>2
    <3> QED BY <1>1, <3>1, <3>2, <3>3 DEF Waits
  <2>2. ASSUME Waits(p, j) PROVE Waits(q, j)
    <3>1. PICK n \in 1..k : p[n].id = j BY <1>1, <2>2 DEF Waits
    <3> QED BY <1>1, <1>3, <3>1 DEF Waits
  <2>3. ASSUME j = m.id PROVE Waits(q, j) BY <1>1, <1>4, <2>3 DEF Waits
  <2> QED BY <2>1, <2>2, <2>3
<1>6. ASSUME NEW n \in 1..k, LastOf(p, n), ~p[n].late PROVE p[n].row = t.docs[p[n].id]
  <2>1. n + 1 \in 1..(k + 1) /\ p[n] = q[n + 1] BY <1>1, <1>3
  <2>2. LastOf(q, n + 1)
    <3> SUFFICES ASSUME NEW x \in 1..(k + 1), x > n + 1 PROVE q[x].id # q[n + 1].id
      BY <1>1 DEF LastOf
    <3>1. x - 1 \in 1..k /\ (x - 1) + 1 = x /\ x - 1 > n BY <1>1
    <3>2. p[x - 1] = q[x] BY <1>1, <3>1
    <3> QED BY <1>1, <1>6, <2>1, <3>1, <3>2 DEF LastOf
  <2> QED BY <1>1, <1>6, <2>1, <2>2 DEF WordsTrue
<1>7. WordsTrue(p, t) BY <1>1, <1>6 DEF WordsTrue
<1>8. ASSUME ~m.late, ~Waits(p, m.id) PROVE m.row = t.docs[m.id]
  <2>1. LastOf(q, 1)
    <3> SUFFICES ASSUME NEW x \in 1..(k + 1), x > 1 PROVE q[x].id # m.id
      BY <1>1 DEF LastOf
    <3>1. x - 1 \in 1..k /\ (x - 1) + 1 = x BY <1>1
    <3>2. p[x - 1] = q[x] BY <1>1, <3>1
    <3> QED BY <1>1, <1>8, <3>1, <3>2 DEF Waits
  <2> QED BY <1>1, <1>4, <1>8, <2>1 DEF WordsTrue
<1> QED BY <1>1, <1>5, <1>7, <1>8

-----------------------------------------------------------------------------
(* The inductive invariant.                                                *)

(* The fields of a call.                                                   *)
CallShape(k) ==
  k = [step |-> k.step, at |-> k.at, ctx |-> k.ctx, req |-> k.req, left |-> k.left,
       to |-> k.to, rows |-> k.rows, own |-> k.own, kept |-> k.kept]

(* A call has what its kind and its step need.                             *)
CallOk(k) ==
  /\ CallShape(k)
  /\ k.at \in Service /\ TokenOk(k.ctx) /\ ReqOk(k.req) /\ k.left \in Seq(Cluster)
  /\ k.step \in {"read", "fall", "ask"} => k.req.op = "get"
  /\ k.step = "subscribe" => k.req.op = "subscribe"
  /\ k.step \in {"route", "write", "tell"} => k.req.op \in Writing
  /\ k.step \in {"ask", "write"} => k.to \in Service
  /\ k.step = "write" => clusterId[k.to] \in Range(writePrimary)

SubOk(sub) ==
  /\ sub = [at |-> sub.at, ctx |-> sub.ctx, filter |-> sub.filter, perm |-> sub.perm,
            view |-> sub.view, changed |-> sub.changed, misled |-> sub.misled]
  /\ sub.at \in Service
  /\ sub.view = [i \in DocId |-> sub.view[i]]

StoreTyped == store \in [Service -> Sound]
TellingTyped == telling \in [Service -> Seq(Message)]

LastWords == \A s \in Service : WordsTrue(telling[s], store[s])

PurgeTyped ==
  /\ purge = [s \in Service |-> purge[s]]
  /\ \A s \in Service :
       purge[s] # Idle =>
         /\ purge[s] = [left |-> purge[s].left, cutoff |-> purge[s].cutoff,
                        found |-> purge[s].found]
         /\ purge[s].left \subseteq DocId /\ purge[s].cutoff \in budget.cutoffs

NamesTyped ==
  /\ leader = [s \in Service |-> leader[s]]
  /\ \A s \in Service : leader[s] \in {Nobody} \cup Members(clusterId[s])
  /\ directory = [c \in Cluster |-> directory[c]]
  /\ \A c \in Cluster : directory[c] \in Seq(Members(c))

TokensTyped ==
  /\ token = [c \in Client |-> token[c]]
  /\ \A c \in Client : token[c] # NoToken => TokenOk(token[c])

CallsTyped ==
  /\ call = [c \in Client |-> call[c]]
  /\ \A c \in Client : call[c] # NoCall => CallOk(call[c])

SubsTyped ==
  /\ subs = [c \in Client |-> subs[c]]
  /\ \A c \in Client : subs[c] # NoSub => SubOk(subs[c])

(* Types, and that what is to be told last of a row is what it is.         *)
Typed ==
  /\ BudgetOk(budget)
  /\ StoreTyped
  /\ TellingTyped
  /\ LastWords
  /\ PurgeTyped
  /\ NamesTyped
  /\ TokensTyped
  /\ CallsTyped
  /\ SubsTyped

(* Elsewhere than in the clusters that are primary.                        *)
Outside(s) == clusterId[s] \notin Range(writePrimary)

(* The table of s turns into t, by the hand of a writer, of replication or *)
(* of retention.                                                           *)
Alter(s, t, ids) ==
  /\ store' = [store EXCEPT ![s] = t]
  /\ Turned(store[s], t, ids)
  /\ t.watermark \in {store[l].watermark : l \in Service} \cup budget.cutoffs
  /\ Outside(s) => \/ Deletes(store[s], t)
                   \/ \E l \in Members(clusterId[s]) : Copies(store[s], store[l], t)

(* The change of a row is to be told, or is told at once.                  *)
Queued(s, t, i) ==
  /\ i \in DocId /\ UNCHANGED subs
  /\ \E by \in Client \cup {Nobody} :
       telling' = [telling EXCEPT ![s] = Append(telling[s], ChangeEvent(i, t.docs[i], by))]

Copied(s, t, i) ==
  /\ Tell(s, ChangeEvent(i, t.docs[i], Nobody))
  /\ telling' = [telling EXCEPT ![s] = Overtaken(telling[s], i)]

Change(s, t, ids) ==
  /\ Alter(s, t, ids)
  /\ \/ ids = {} /\ UNCHANGED <<telling, subs>>
     \/ \E i : ids = {i} /\ (Queued(s, t, i) \/ Copied(s, t, i))

(* The only steps on the stores are changes.                               *)
Changes == \E s \in Service : \E t \in Sound : \E ids : Change(s, t, ids)

(* What was to be told is told.                                            *)
Tells(s) ==
  /\ UNCHANGED store /\ telling[s] # <<>>
  /\ Tell(s, Head(telling[s]))
  /\ telling' = [telling EXCEPT ![s] = Tail(telling[s])]

(* The leader that is named is in the cluster that was asked.              *)
LEMMA LeaderIsMember ==
  ASSUME NamesTyped, NEW c \in Cluster, getLeader(c) # Nobody
  PROVE  getLeader(c) \in Service /\ clusterId[getLeader(c)] = c
<1>1. directory[c] \in Seq(Members(c)) BY DEF NamesTyped
<1>2. directory[c] # <<>> /\ getLeader(c) \in Range(directory[c]) BY DEF getLeader
<1>3. getLeader(c) \in Members(c) BY <1>1, <1>2 DEF Range
<1> QED BY <1>3 DEF Members

(* The values that are written are JSON values.                            *)
LEMMA WriteScopeType ==
  ASSUME Setting, NEW ctx, TokenOk(ctx), NEW v \in Value
  PROVE  applyWriteScope(ctx, v) \in Value
<1>1. CASE ~Bound(ctx) BY <1>1 DEF applyWriteScope
<1>2. CASE Bound(ctx)
  <2> DEFINE p == [l \in {"siteId"} |-> ctx.site]
  <2>1. ctx.site \in Val /\ "siteId" \in Leaf
    BY <1>2, NetabAccessAssumption DEF Bound, TokenOk, Setting
  <2>2. p \in [{"siteId"} -> Val] /\ {"siteId"} \in SUBSET Leaf BY <2>1
  <2>3. p \in Value BY <2>2 DEF Value
  <2>4. applyWriteScope(ctx, v) = deepMerge(v, p) BY <1>2 DEF applyWriteScope
  <2> HIDE DEF p
  <2> QED BY <2>3, <2>4, MergeType
<1> QED BY <1>1, <1>2

(* What a budget allows is the same after every step.                      *)
SameMenu == budget'.asks = budget.asks /\ budget'.tokens = budget.tokens
            /\ budget'.cutoffs = budget.cutoffs

(* Spending what may happen changes nothing of what may come.              *)
LEMMA SpendKeeps ==
  ASSUME BudgetOk(budget), NEW what \in {"starts", "stops", "logins", "requests",
         "elections", "retentions"}, Spend(what)
  PROVE  SameMenu /\ BudgetOk(budget')
<1>1. budget' = [budget EXCEPT ![what] = budget[what] - 1] BY DEF Spend
<1>2. /\ {"asks", "tokens", "cutoffs"} \subseteq DOMAIN budget
      /\ DOMAIN budget' = DOMAIN budget
  BY <1>1 DEF BudgetOk
<1>3. SameMenu BY <1>1, <1>2 DEF SameMenu
<1> QED BY <1>2, <1>3 DEF SameMenu, BudgetOk

(* What may come is the same after every step.                             *)
LEMMA MenuStays ==
  ASSUME BudgetOk(budget), [Next]_vars
  PROVE  SameMenu /\ BudgetOk(budget')
<1>1. CASE UNCHANGED budget BY <1>1 DEF SameMenu
<1>2. ASSUME NEW what \in {"starts", "stops", "logins", "requests", "elections",
                           "retentions"}, Spend(what)
      PROVE  SameMenu /\ BudgetOk(budget')
  BY <1>2, SpendKeeps
<1>3. CASE UNCHANGED vars BY <1>1, <1>3 DEF vars
<1>4. ASSUME NEW c \in Client, CallStep(c) \/ Unsubscribe(c) PROVE UNCHANGED budget
  <2>1. CASE Write(c) BY <2>1 DEF Write
  <2>2. CASE ~Write(c) BY <1>4, <2>2 DEF CallStep, Unsubscribe, ReadLocal, FindFallback,
    AskFallback, subscribe_objs, routeWrite, Finish
  <2> QED BY <2>1, <2>2
<1>5. ASSUME NEW c \in Client, Login(c) PROVE Spend("logins") BY <1>5 DEF Login
<1>6. ASSUME NEW c \in Client, NEW s \in Service, Call(c, s) PROVE Spend("requests")
  BY <1>6 DEF Call
<1>7. ASSUME NEW s \in Service, start(s) PROVE Spend("starts") BY <1>7 DEF start
<1>8. ASSUME NEW s \in Service, stop(s) PROVE Spend("stops") BY <1>8 DEF stop
<1>9. ASSUME NEW s \in Service, Elect(s) PROVE Spend("elections") BY <1>9 DEF Elect
<1>10. ASSUME NEW l \in Service, NEW s \in Service, Replicate(l, s) PROVE UNCHANGED budget
  BY <1>10 DEF Replicate
<1>11. ASSUME NEW s \in Service, NEW n \in budget.cutoffs, run_retention(s, n)
       PROVE Spend("retentions") BY <1>11 DEF run_retention
<1>12. ASSUME NEW s \in Service, Publish(s) \/ Purge(s) PROVE UNCHANGED budget
  BY <1>12 DEF Publish, Purge
<1> QED BY <1>1, <1>2, <1>3, <1>4, <1>5, <1>6, <1>7, <1>8, <1>9, <1>10, <1>11, <1>12 DEF Next

-----------------------------------------------------------------------------
(* The steps that change a table.                                          *)

(* A write is refused, or changes the table of a primary cluster.          *)
LEMMA WriteChanges ==
  ASSUME Setting, Typed, NEW c \in Client, Write(c)
  PROVE  UNCHANGED <<store, telling, subs>> \/ Changes
<1> DEFINE k == call[c]
           s == k.to
           t == store[s]
           req == k.req
           v == applyWriteScope(k.ctx, req.value)
           free == {i \in DocId : \A x \in Service : store[x].docs[i] = Absent}
           id == IF req.op = "add" THEN Min(free) ELSE req.id
<1>1. /\ k.step = "write" /\ k # NoCall
      /\ req.op = "add" => free # {}
  BY DEF Write, In
<1>2. CallOk(k) BY <1>1 DEF Typed, CallsTyped
<1>3. /\ req.op \in Writing /\ s \in Service /\ clusterId[s] \in Range(writePrimary)
      /\ ReqOk(req) /\ TokenOk(k.ctx)
  BY <1>1, <1>2 DEF CallOk
<1>4. t \in Sound BY <1>3 DEF Typed, StoreTyped
<1>5. req.op # "delete" => v \in Value
  BY <1>3, WriteScopeType DEF ReqOk, Writing
<1>6. id \in DocId
  <2>1. CASE req.op = "add"
    <3>1. free \subseteq Nat /\ free # {} BY <1>1, <2>1, NetabServiceAssumption
    <3>2. \E n \in free : \A m \in free : n <= m
      <4> HIDE DEF free
      <4> QED BY <3>1, Apply!LeastNatural
    <3>3. Min(free) \in free
      <4> HIDE DEF free
      <4> QED BY <3>2, Zenon DEF Min
    <3> QED BY <2>1, <3>3
  <2>2. CASE req.op # "add" BY <1>3, <2>2 DEF ReqOk, Writing
  <2> QED BY <2>1, <2>2
<1> DEFINE u == CASE req.op = "add" -> add_objs(t, id, v)
                  [] req.op = "update" -> update_objs(t, id, v, "deep")
                  [] req.op = "replace" -> replace_objs(t, id, v)
                  [] req.op = "delete" -> delete_objs(t, id)
<1>7. CASE UNCHANGED <<store, telling, subs>> BY <1>7
<1>8. CASE /\ Commit(s, u, id, c) /\ UNCHANGED subs
           /\ ~(req.op = "update" /\ req.id \notin Live(t))
  <2>1. Turned1(t, u, id)
    <3>1. CASE req.op = "add"
      <4>1. v \in Value /\ u = add_objs(t, id, v) BY <1>5, <3>1
      <4> HIDE DEF u, id, v, t
      <4> QED BY <1>4, <1>6, <4>1, WriteTurns
    <3>2. CASE req.op = "update"
      <4>1. v \in Value /\ u = update_objs(t, id, v, "deep") BY <1>5, <3>2
      <4>2. id \in Live(t) BY <1>8, <3>2
      <4> HIDE DEF u, id, v, t
      <4> QED BY <1>4, <1>6, <4>1, <4>2, WriteTurns
    <3>3. CASE req.op = "replace"
      <4>1. v \in Value /\ u = replace_objs(t, id, v) BY <1>5, <3>3
      <4> HIDE DEF u, id, v, t
      <4> QED BY <1>4, <1>6, <4>1, WriteTurns
    <3>4. CASE req.op = "delete"
      <4>1. u = delete_objs(t, id) BY <3>4
      <4> HIDE DEF u, id, v, t
      <4> QED BY <1>4, <1>6, <4>1, WriteTurns
    <3> QED BY <1>3, <3>1, <3>2, <3>3, <3>4 DEF Writing
  <2> HIDE DEF u, id
  <2>2. Turned(t, u, {id}) /\ u.watermark = t.watermark /\ u \in Sound
    BY <2>1 DEF Turned1, Turned
  <2>3. Queued(s, u, id) BY <1>6, <1>8 DEF Commit, Queued
  <2>4. store' = [store EXCEPT ![s] = u] BY <1>8 DEF Commit
  <2>5. Alter(s, u, {id}) BY <1>3, <2>2, <2>4 DEF Alter, Outside
  <2>6. Change(s, u, {id}) BY <2>3, <2>5 DEF Change
  <2> HIDE DEF s
  <2> QED BY <1>3, <2>2, <2>6 DEF Changes
<1>9. \/ UNCHANGED <<store, telling, subs>>
      \/ /\ Commit(s, u, id, c) /\ UNCHANGED subs
         /\ ~(req.op = "update" /\ req.id \notin Live(t))
  BY DEF Write
<1> QED BY <1>7, <1>8, <1>9

(* Replication copies an entry of a service of the same cluster, or its    *)
(* watermark.                                                              *)
LEMMA ReplicateChanges ==
  ASSUME Setting, Typed, NEW l \in Service, NEW s \in Service, Replicate(l, s)
  PROVE  Changes
<1> DEFINE t == store[s]
           next == read_ops_since(store[l], t.latestSeq, 1)
           done == apply_ops(t, next)
           m == store[l].watermark
<1>1. /\ s \in Members(clusterId[l]) /\ done.ok
      /\ \/ next # <<>> /\ CommitCopy(s, done.table, next[1].id)
         \/ store' = [store EXCEPT ![s].watermark = m] /\ UNCHANGED <<telling, subs>>
  BY DEF Replicate
<1>2. l \in Members(clusterId[s]) BY <1>1 DEF Members
<1>3. t \in Sound /\ store[l] \in Sound BY DEF Typed, StoreTyped
<1>4. CASE next # <<>> /\ CommitCopy(s, done.table, next[1].id)
  <2>1. BlobId \cap DocId = {} BY NetabServiceAssumption
  <2>2. Turned1(t, done.table, next[1].id) /\ Copies(t, store[l], done.table)
    <3> DEFINE u == store[l]
    <3>1. u \in Sound /\ next = read_ops_since(u, t.latestSeq, 1) BY <1>3
    <3> HIDE DEF t, u, next
    <3>2. done = apply_ops(t, next) OBVIOUS
    <3> HIDE DEF done
    <3>3. Turned1(t, done.table, next[1].id) /\ Copies(t, u, done.table)
      BY <1>1, <1>3, <1>4, <2>1, <3>1, <3>2, CopyTurns
    <3> QED BY <3>3 DEF u
  <2> DEFINE w == done.table
             i == next[1].id
             ids == {i}
  <2>3. /\ Turned(t, w, ids) /\ w.watermark = t.watermark /\ w \in Sound
        /\ Copies(t, store[l], w) /\ CommitCopy(s, w, i)
    BY <1>4, <2>2 DEF Turned1, Turned
  <2> HIDE DEF w, i, done
  <2>4. store' = [store EXCEPT ![s] = w] /\ Copied(s, w, i) BY <2>3 DEF CommitCopy, Copied
  <2>5. Alter(s, w, ids) BY <1>2, <2>3, <2>4 DEF Alter
  <2>6. Change(s, w, ids) BY <2>4, <2>5 DEF Change
  <2> QED BY <2>3, <2>6 DEF Changes
<1>5. CASE store' = [store EXCEPT ![s].watermark = m] /\ UNCHANGED <<telling, subs>>
  <2> DEFINE w == [t EXCEPT !.watermark = m]
             none == {}
  <2>1. m \in Nat BY <1>3, GoodFields
  <2>2. Turned(t, w, {}) /\ Deletes(t, w) /\ w.watermark = m BY <1>3, <2>1, MarkTurns
  <2>3. store' = [store EXCEPT ![s] = w] BY <1>5
  <2> HIDE DEF w
  <2>4. Alter(s, w, none) BY <2>2, <2>3 DEF Alter
  <2>5. Change(s, w, none) BY <1>5, <2>4 DEF Change
  <2>6. w \in Sound BY <2>2 DEF Turned
  <2> QED BY <2>5, <2>6 DEF Changes
<1> QED BY <1>1, <1>4, <1>5

(* Retention deletes a row, or sets the watermark.                         *)
LEMMA PurgeChanges ==
  ASSUME Setting, Typed, NEW s \in Service, Purge(s)
  PROVE  Changes
<1> DEFINE p == purge[s]
           t == store[s]
<1>1. /\ p # Idle /\ UNCHANGED subs
      /\ \/ \E i \in p.left : Commit(s, delete_objs(t, i), i, Nobody)
         \/ /\ store' = [store EXCEPT ![s].watermark =
                            IF p.found \/ p.cutoff > t.watermark THEN p.cutoff ELSE t.watermark]
            /\ UNCHANGED telling
  BY DEF Purge
<1>2. t \in Sound BY DEF Typed, StoreTyped
<1>3. p.left \subseteq DocId /\ p.cutoff \in budget.cutoffs /\ p.cutoff \in Nat
  BY <1>1 DEF Typed, PurgeTyped, BudgetOk
<1>4. ASSUME NEW i \in p.left, Commit(s, delete_objs(t, i), i, Nobody) PROVE Changes
  <2> DEFINE u == delete_objs(t, i)
             ids == {i}
  <2>1. i \in DocId BY <1>3
  <2>2. Turned1(t, u, i) /\ Deletes(t, u) BY <1>2, <2>1, WriteTurns
  <2> HIDE DEF u
  <2>3. Turned(t, u, ids) /\ u.watermark = t.watermark /\ u \in Sound
    BY <2>2 DEF Turned1, Turned
  <2>4. store' = [store EXCEPT ![s] = u] /\ Queued(s, u, i)
    BY <1>1, <1>4, <2>1 DEF Commit, Queued, u
  <2>5. Alter(s, u, ids) BY <2>2, <2>3, <2>4 DEF Alter
  <2>6. Change(s, u, ids) BY <2>4, <2>5 DEF Change
  <2> QED BY <2>3, <2>6 DEF Changes
<1>5. ASSUME NEW m \in {p.cutoff, t.watermark},
             store' = [store EXCEPT ![s].watermark = m], UNCHANGED telling
      PROVE  Changes
  <2> DEFINE w == [t EXCEPT !.watermark = m]
             none == {}
  <2>1. m \in Nat BY <1>2, <1>3, GoodFields
  <2>2. Turned(t, w, {}) /\ Deletes(t, w) /\ w.watermark = m BY <1>2, <2>1, MarkTurns
  <2>3. store' = [store EXCEPT ![s] = w] BY <1>5
  <2> HIDE DEF w
  <2>4. Alter(s, w, none) BY <1>3, <1>5, <2>2, <2>3 DEF Alter
  <2>5. Change(s, w, none) BY <1>1, <1>5, <2>4 DEF Change
  <2>6. w \in Sound BY <2>2 DEF Turned
  <2> QED BY <2>5, <2>6 DEF Changes
<1> QED BY <1>1, <1>4, <1>5

(* A client subscribes, or ends its subscription.                          *)
Begun(sub) ==
  /\ SubOk(sub)
  /\ sub.view = [i \in DocId |-> Absent] /\ sub.changed = {} /\ sub.misled = {}
  /\ \E filter : sub.filter = applySiteScope(sub.ctx, filter)

Resubscribes(c, sub) ==
  subs' = [subs EXCEPT ![c] = sub] /\ (sub # NoSub => Begun(sub))

Subscribes ==
  UNCHANGED <<store, telling>> /\ \E c \in Client : \E sub : Resubscribes(c, sub)

(* A client subscribes or ends its subscription.                           *)
LEMMA SubscribeStep ==
  ASSUME Typed, NEW c \in Client, subscribe_objs(c) \/ Unsubscribe(c)
  PROVE  Subscribes
<1>1. CASE Unsubscribe(c)
  <2>1. UNCHANGED <<store, telling>> /\ Resubscribes(c, NoSub)
    BY <1>1 DEF Unsubscribe, Resubscribes, tables
  <2> QED BY <2>1 DEF Subscribes
<1>2. CASE subscribe_objs(c)
  <2> DEFINE k == call[c]
             filter == applySiteScope(k.ctx, k.req.filter)
             sub == [at |-> k.at, ctx |-> k.ctx, filter |-> filter,
                     perm |-> resolvePermission(k.ctx),
                     view |-> [i \in DocId |-> Absent], changed |-> {}, misled |-> {}]
  <2>1. k # NoCall /\ UNCHANGED <<store, telling>> /\ subs' = [subs EXCEPT ![c] = sub]
    BY <1>2 DEF subscribe_objs, In, tables
  <2>2. k.at \in Service BY <2>1 DEF Typed, CallsTyped, CallOk
  <2>3. /\ SubOk(sub) /\ sub.view = [i \in DocId |-> Absent]
        /\ sub.changed = {} /\ sub.misled = {}
        /\ sub.filter = filter /\ sub.ctx = k.ctx
    BY <2>2 DEF SubOk
  <2>4. sub.filter = applySiteScope(sub.ctx, k.req.filter) BY <2>3
  <2> HIDE DEF sub
  <2>5. Begun(sub) BY <2>3, <2>4 DEF Begun
  <2>6. Resubscribes(c, sub) BY <2>1, <2>5 DEF Resubscribes
  <2> QED BY <2>1, <2>6 DEF Subscribes
<1> QED BY <1>1, <1>2

(* Whatever the step, the tables and the subscriptions stay, one table     *)
(* changes, one subscription does, or subscribers are told.                *)
LEMMA TableSteps ==
  ASSUME Setting, Typed, [Next]_vars
  PROVE  \/ UNCHANGED <<store, telling, subs>>
         \/ Subscribes \/ Changes \/ \E s \in Service : Tells(s)
<1> DEFINE same == UNCHANGED <<store, telling, subs>>
<1>1. CASE UNCHANGED vars BY <1>1 DEF vars, tables
<1>2. ASSUME NEW c \in Client, Write(c) PROVE same \/ Changes
  BY <1>2, WriteChanges
<1>3. ASSUME NEW c \in Client, CallStep(c) \/ Login(c), ~Write(c), ~subscribe_objs(c)
      PROVE same
  BY <1>3 DEF CallStep, Login, ReadLocal, FindFallback, AskFallback, routeWrite, Finish, tables
<1>4. ASSUME NEW c \in Client, subscribe_objs(c) \/ Unsubscribe(c) PROVE Subscribes
  BY <1>4, SubscribeStep
<1>5. ASSUME NEW c \in Client, NEW s \in Service, Call(c, s) PROVE same
  BY <1>5 DEF Call, tables
<1>6. ASSUME NEW s \in Service, start(s) \/ stop(s) \/ Elect(s) PROVE same
  BY <1>6 DEF start, stop, Elect, tables
<1>7. ASSUME NEW l \in Service, NEW s \in Service, Replicate(l, s) PROVE Changes
  BY <1>7, ReplicateChanges
<1>8. ASSUME NEW s \in Service, NEW n \in budget.cutoffs, run_retention(s, n) PROVE same
  BY <1>8 DEF run_retention
<1>9. ASSUME NEW s \in Service, Purge(s) PROVE Changes BY <1>9, PurgeChanges
<1>10. ASSUME NEW s \in Service, Publish(s) PROVE Tells(s) BY <1>10 DEF Publish, Tells
<1> QED
  BY <1>1, <1>2, <1>3, <1>4, <1>5, <1>6, <1>7, <1>8, <1>9, <1>10 DEF Next

(* What a change leaves alone, and what it makes.                          *)
LEMMA ChangeStore ==
  ASSUME StoreTyped, NEW s \in Service, NEW t \in Sound, NEW ids, Change(s, t, ids)
  PROVE  /\ StoreTyped'
         /\ store'[s] = t
         /\ \A x \in Service : x # s => store'[x] = store[x]
BY DEF Change, Alter, StoreTyped

-----------------------------------------------------------------------------
(* The invariant holds.                                                    *)

(* Taking an element out of a sequence.                                    *)
LEMMA RemovedType ==
  ASSUME NEW S, NEW s \in Seq(S), NEW n \in DOMAIN s
  PROVE  RemoveAt(s, n) \in Seq(S)
<1>1. n \in 1..Len(s) /\ Len(s) \in Nat OBVIOUS
<1>2. SubSeq(s, 1, n - 1) \in Seq(S)
  <2>1. n - 1 \in Nat /\ 1 <= (n - 1) + 1 /\ n - 1 <= Len(s) BY <1>1
  <2> QED BY <2>1, SubSeqIs
<1>3. SubSeq(s, n + 1, Len(s)) \in Seq(S)
  <2>1. n + 1 \in Nat /\ n + 1 >= 1 /\ n + 1 <= Len(s) + 1 BY <1>1
  <2> QED BY <1>1, <2>1, SubSeqIs
<1> QED BY <1>2, <1>3 DEF RemoveAt

(* Leaders and directories name services of the cluster they are of.       *)
LEMMA NamesStay ==
  ASSUME Setting, Typed, [Next]_vars
  PROVE  NamesTyped'
<1> USE DEF NamesTyped, Typed
<1>1. ASSUME NEW s \in Service, start(s) PROVE NamesTyped'
  <2> DEFINE c == clusterId[s]
             d == Append(directory[c], s)
  <2>1. c \in Cluster /\ s \in Members(c) BY NetabServiceAssumption DEF Members
  <2>2. d \in Seq(Members(c)) BY <2>1
  <2>3. UNCHANGED leader /\ directory' = [directory EXCEPT ![c] = d] BY <1>1 DEF start
  <2> HIDE DEF c, d
  <2> QED BY <2>1, <2>2, <2>3
<1>2. ASSUME NEW s \in Service, stop(s) PROVE NamesTyped'
  <2> DEFINE c == clusterId[s]
  <2>1. c \in Cluster BY NetabServiceAssumption
  <2>2. PICK n \in DOMAIN directory[c] :
          directory' = [directory EXCEPT ![c] = RemoveAt(directory[c], n)]
    BY <1>2 DEF stop
  <2> DEFINE d == RemoveAt(directory[c], n)
  <2>3. d \in Seq(Members(c)) BY <2>1, RemovedType
  <2>4. UNCHANGED leader /\ directory' = [directory EXCEPT ![c] = d] BY <1>2, <2>2 DEF stop
  <2> HIDE DEF c, d
  <2> QED BY <2>1, <2>3, <2>4
<1>3. ASSUME NEW s \in Service, Elect(s) PROVE NamesTyped'
  BY <1>3 DEF Elect
<1>4. CASE UNCHANGED <<leader, directory>>
  BY <1>4
<1>5. ASSUME NEW c \in Client,
             CallStep(c) \/ Unsubscribe(c) \/ Login(c) \/ \E s \in Service : Call(c, s)
      PROVE  UNCHANGED <<leader, directory>>
  <2>1. CASE Write(c) BY <2>1 DEF Write
  <2>2. CASE \E s \in Service : Call(c, s) BY <2>2 DEF Call
  <2>3. CASE (CallStep(c) /\ ~Write(c)) \/ Unsubscribe(c) \/ Login(c)
    BY <2>3 DEF CallStep, Unsubscribe, Login, ReadLocal, FindFallback, AskFallback,
              subscribe_objs, routeWrite, Finish
  <2> QED BY <1>5, <2>1, <2>2, <2>3
<1>6. ASSUME NEW l \in Service, NEW s \in Service, Replicate(l, s) \/ Publish(s) \/ Purge(s)
      PROVE UNCHANGED <<leader, directory>>
  BY <1>6 DEF Replicate, Publish, Purge
<1>7. ASSUME NEW s \in Service, NEW n \in budget.cutoffs, run_retention(s, n)
      PROVE UNCHANGED <<leader, directory>>
  BY <1>7 DEF run_retention
<1>8. CASE UNCHANGED vars BY <1>4, <1>8 DEF vars
<1> QED BY <1>1, <1>2, <1>3, <1>4, <1>5, <1>6, <1>7, <1>8 DEF Next

(* Tokens are typed.                                                       *)
LEMMA TokensStay ==
  ASSUME Setting, Typed, [Next]_vars
  PROVE  TokensTyped'
<1> USE DEF TokensTyped, Typed
<1>1. ASSUME NEW c \in Client, Login(c) PROVE TokensTyped'
  <2>1. PICK ctx \in budget.tokens : token' = [token EXCEPT ![c] = ctx] BY <1>1 DEF Login
  <2>2. TokenOk(ctx) BY DEF BudgetOk
  <2> QED BY <2>1, <2>2
<1>2. CASE UNCHANGED token BY <1>2
<1>3. ASSUME NEW c \in Client,
             CallStep(c) \/ Unsubscribe(c) \/ \E s \in Service : Call(c, s)
      PROVE  UNCHANGED token
  <2>1. CASE Write(c) BY <2>1 DEF Write
  <2>2. CASE \E s \in Service : Call(c, s) BY <2>2 DEF Call
  <2>3. CASE (CallStep(c) /\ ~Write(c)) \/ Unsubscribe(c)
    BY <2>3 DEF CallStep, Unsubscribe, ReadLocal, FindFallback, AskFallback,
              subscribe_objs, routeWrite, Finish
  <2> QED BY <1>3, <2>1, <2>2, <2>3
<1>4. ASSUME NEW l \in Service, NEW s \in Service,
             \/ start(s) \/ stop(s) \/ Elect(s)
             \/ Replicate(l, s) \/ Publish(s) \/ Purge(s)
      PROVE  UNCHANGED token
  BY <1>4 DEF start, stop, Elect, Replicate, Publish, Purge
<1>5. ASSUME NEW s \in Service, NEW n \in budget.cutoffs, run_retention(s, n)
      PROVE UNCHANGED token
  BY <1>5 DEF run_retention
<1>6. CASE UNCHANGED vars BY <1>2, <1>6 DEF vars
<1> QED BY <1>1, <1>2, <1>3, <1>4, <1>5, <1>6 DEF Next

(* A step of a call leaves the others.                                     *)
LEMMA OneCall ==
  ASSUME CallsTyped, NEW c \in Client, NEW k, Becomes(c, k)
  PROVE  /\ call' = [x \in Client |-> call'[x]]
         /\ call'[c] = k
         /\ \A x \in Client : x # c => call'[x] = call[x]
BY DEF Becomes, CallsTyped

(* What a call keeps when it changes only its step.                        *)
Moved(k, u, step) ==
  /\ CallShape(u) /\ u.step = step
  /\ u.at = k.at /\ u.ctx = k.ctx /\ u.req = k.req /\ u.left = k.left /\ u.to = k.to
  /\ u.rows = k.rows /\ u.own = k.own /\ u.kept = k.kept

(* A call that changes its step alone.                                     *)
LEMMA ToMoves ==
  ASSUME NEW k, CallShape(k), NEW step
  PROVE  Moved(k, To(k, step), step)
BY DEF CallShape, Moved, To

(* A call that moves to a step that asks for nothing new is still typed.   *)
LEMMA MovedOk ==
  ASSUME NEW k, CallOk(k), NEW u, NEW step, Moved(k, u, step),
         \/ step \in {"done", "failed"}
         \/ step = "fall" /\ k.step \in {"read", "fall"}
         \/ step = "tell" /\ k.step = "write"
  PROVE  CallOk(u)
BY DEF CallOk, Moved

(* A call that was routed, to a service that exists.                       *)
Sent(k, step, l) == [To(k, step) EXCEPT !.to = l]

(* It is typed.                                                            *)
LEMMA SentOk ==
  ASSUME NEW k, CallOk(k), NEW l \in Service, NEW step,
         \/ step = "ask" /\ k.req.op = "get"
         \/ step = "write" /\ k.req.op \in Writing /\ clusterId[l] \in Range(writePrimary),
         NEW u, u = Sent(k, step, l)
  PROVE  /\ CallOk(u) /\ u.step = step /\ u.to = l
         /\ u.at = k.at /\ u.ctx = k.ctx /\ u.req = k.req /\ u.left = k.left
         /\ u.rows = k.rows /\ u.own = k.own /\ u.kept = k.kept
<1>1. CallShape(k) BY DEF CallOk
<1>2. /\ CallShape(u) /\ u.step = step /\ u.to = l
      /\ u.at = k.at /\ u.ctx = k.ctx /\ u.req = k.req /\ u.left = k.left
      /\ u.rows = k.rows /\ u.own = k.own /\ u.kept = k.kept
  BY <1>1 DEF CallShape, To, Sent
<1> QED BY <1>2 DEF CallOk

(* A call that was answered.                                               *)
LEMMA AnswerShape ==
  ASSUME NEW k, CallShape(k), NEW rows, NEW u, u = Answer(k, rows)
  PROVE  /\ CallShape(u) /\ u.step = "done" /\ u.at = k.at /\ u.ctx = k.ctx
         /\ u.req = k.req /\ u.left = k.left /\ u.to = k.to
         /\ u.rows = rows /\ u.own = k.own /\ u.kept = k.kept
BY DEF CallShape, Answer

(* What the own store holds of a read, and which of it counts as kept.     *)
KeptOf(t, rows) ==
  {i \in DOMAIN rows \cap Live(t) :
     \/ timeField \notin DOMAIN t.docs[i]
     \/ t.docs[i][timeField] >= t.watermark}

(* A read that has its own rows.                                           *)
HasRead(k, u) ==
  LET t == store[k.at]
      filter == applySiteScope(k.ctx, k.req.filter)
      rows == Rows(t, resolvePermission(k.ctx), k.req.ids, filter, k.req.start)
  IN /\ u.req.op = k.req.op /\ u.req.ids = k.req.ids /\ u.req.mode = k.req.mode
     /\ u.req.filter = filter /\ u.rows = rows /\ u.own = rows /\ u.kept = KeptOf(t, rows)
     /\ u.at = k.at /\ u.ctx = k.ctx
     /\ u.step \in {"fall", "done"}
     /\ u.step = "fall" => FallsBack(u, filter, t.watermark)

(* A read of the own store leaves a typed call.                            *)
LEMMA ReadLocalStep ==
  ASSUME CallsTyped, NEW c \in Client, ReadLocal(c)
  PROVE  \E u : Becomes(c, u) /\ CallOk(u) /\ HasRead(call[c], u)
<1> DEFINE s == call[c].at
           t == store[s]
           req == call[c].req
           filter == applySiteScope(call[c].ctx, req.filter)
           rows == Rows(t, resolvePermission(call[c].ctx), req.ids, filter, req.start)
           kept == KeptOf(t, rows)
           k == [call[c] EXCEPT !.req.filter = filter, !.rows = rows, !.own = rows,
                                !.kept = kept]
           step == IF FallsBack(k, filter, t.watermark) THEN "fall" ELSE "done"
           u == To(k, step)
<1>1. call[c] # NoCall /\ call[c].step = "read" /\ Becomes(c, u)
  BY DEF ReadLocal, In, KeptOf
<1>2. CallOk(call[c]) BY <1>1 DEF CallsTyped
<1>3. req.op = "get" /\ ReqOk(req) /\ CallShape(call[c]) BY <1>1, <1>2 DEF CallOk
<1>4. req = [op |-> req.op, ids |-> req.ids, filter |-> req.filter, start |-> req.start,
             mode |-> req.mode]
  BY <1>3 DEF ReqOk
<1> DEFINE q == [req EXCEPT !.filter = filter]
<1>5. /\ q = [op |-> req.op, ids |-> req.ids, filter |-> filter, start |-> req.start,
              mode |-> req.mode]
      /\ ReqOk(q)
  <2> HIDE DEF filter, req
  <2>1. q = [op |-> req.op, ids |-> req.ids, filter |-> filter, start |-> req.start,
              mode |-> req.mode]
    BY <1>4
  <2>2. q.op = "get" /\ q.ids = req.ids /\ req.ids \subseteq DocId
        /\ q = [op |-> q.op, ids |-> q.ids, filter |-> q.filter, start |-> q.start,
                mode |-> q.mode]
    BY <1>3, <2>1 DEF ReqOk
  <2> HIDE DEF q
  <2> QED BY <2>1, <2>2 DEF ReqOk, Writing
<1>6. k = [step |-> call[c].step, at |-> s, ctx |-> call[c].ctx, req |-> q,
           left |-> call[c].left, to |-> call[c].to, rows |-> rows, own |-> rows,
           kept |-> kept]
  <2> HIDE DEF filter, rows, kept
  <2> DEFINE old == call[c]
  <2>1. old.req = req OBVIOUS
  <2>2. k = [old EXCEPT !.req = q, !.rows = rows, !.own = rows, !.kept = kept]
    <3>1. k = [old EXCEPT !.req.filter = filter, !.rows = rows, !.own = rows, !.kept = kept]
      OBVIOUS
    <3> HIDE DEF old
    <3> QED BY <2>1, <3>1
  <2>3. CallShape(old) BY <1>3
  <2> HIDE DEF k, q
  <2>4. k = [step |-> old.step, at |-> old.at, ctx |-> old.ctx, req |-> q,
             left |-> old.left, to |-> old.to, rows |-> rows, own |-> rows,
             kept |-> kept]
    <3> HIDE DEF old
    <3> QED BY <2>2, <2>3 DEF CallShape
  <2> QED BY <2>4
<1> HIDE DEF filter, rows, kept, q, req, s, t
<1>7. CallShape(k) BY <1>6 DEF CallShape
<1>8. CallOk(k)
  <2>1. /\ k.step = "read" /\ k.at = call[c].at /\ k.ctx = call[c].ctx /\ k.req = q
        /\ k.left = call[c].left
    BY <1>1, <1>6 DEF s
  <2> HIDE DEF k
  <2> QED BY <1>2, <1>3, <1>5, <1>7, <2>1 DEF CallOk
<1>9. Moved(k, u, step)
  <2> HIDE DEF k
  <2> QED BY <1>7, ToMoves
<1>10. CallOk(u)
  <2>1. k.step = "read" BY <1>1, <1>6
  <2> HIDE DEF k, u
  <2> QED BY <1>8, <1>9, <2>1, MovedOk
<1>11. /\ q.op = req.op /\ q.ids = req.ids /\ q.mode = req.mode /\ q.filter = filter
  BY <1>5
<1>12. /\ k.at = call[c].at /\ k.ctx = call[c].ctx /\ k.req = q /\ k.rows = rows
       /\ k.own = rows /\ k.kept = kept
  BY <1>6 DEF s
<1>13. FallsBack(u, filter, t.watermark) <=> FallsBack(k, filter, t.watermark)
  <2> HIDE DEF k, u
  <2> QED BY <1>9 DEF Moved, FallsBack, Misses
<1>14. HasRead(call[c], u)
  <2>1. /\ u.at = call[c].at /\ u.ctx = call[c].ctx /\ u.req = q /\ u.rows = rows
        /\ u.own = rows /\ u.kept = kept /\ u.step = step
    BY <1>9, <1>12 DEF Moved
  <2>2. step = "fall" => FallsBack(u, filter, t.watermark) BY <1>13
  <2>3. step \in {"fall", "done"} OBVIOUS
  <2> HIDE DEF k, u, step
  <2> QED BY <1>11, <2>1, <2>2, <2>3 DEF HasRead, filter, rows, kept, req, s, t
<1> QED BY <1>1, <1>10, <1>14

(* A read that looks for another cluster, and one that has asked it.       *)
Searches(k, u) ==
  /\ u.step \in {"fall", "ask", "done"}
  /\ u.ctx = k.ctx /\ u.req = k.req /\ u.rows = k.rows /\ u.own = k.own /\ u.kept = k.kept

HasAsked(k, u) ==
  LET filter == applySiteScope(k.ctx, k.req.filter)
      rows == Rows(store[k.to], resolvePermission(k.ctx), k.req.ids, filter, k.req.start)
  IN /\ u.step = "done" /\ u.rows = Merged(k, rows)
     /\ u.ctx = k.ctx /\ u.req = k.req /\ u.own = k.own /\ u.kept = k.kept

(* How a call goes on: a read from step to step, or a step that answers no *)
(* read.                                                                   *)
Advance(k, u) ==
  \/ k.step = "read" /\ HasRead(k, u)
  \/ k.step = "fall" /\ Searches(k, u)
  \/ k.step = "ask" /\ HasAsked(k, u)
  \/ u.step \in {"write", "tell", "failed"}
  \/ u.step = "done" /\ u.req.op # "get"

(* Looking for another cluster leaves a typed call.                        *)
LEMMA FindFallbackStep ==
  ASSUME Typed, NEW c \in Client, FindFallback(c)
  PROVE  \E u : Becomes(c, u) /\ CallOk(u) /\ Advance(call[c], u)
<1> DEFINE k == call[c]
           h == Head(k.left)
           l == getLeader(h)
<1>1. /\ k # NoCall /\ k.step = "fall"
      /\ Becomes(c, IF k.left = <<>> THEN To(k, "done")
                    ELSE IF l \in {Nobody, k.at} THEN [k EXCEPT !.left = Tail(@)]
                    ELSE [To(k, "ask") EXCEPT !.to = l])
  BY DEF FindFallback, In
<1>2. CallOk(k) BY <1>1 DEF Typed, CallsTyped
<1>3. CallShape(k) /\ k.left \in Seq(Cluster) /\ k.req.op = "get" BY <1>1, <1>2 DEF CallOk
<1>4. CASE k.left = <<>>
  <2> DEFINE u == To(k, "done")
  <2>1. Becomes(c, u) BY <1>1, <1>4
  <2>2. Moved(k, u, "done") BY <1>3, ToMoves
  <2> HIDE DEF u, k
  <2>3. CallOk(u) BY <1>2, <2>2, MovedOk
  <2>4. Searches(k, u) BY <2>2 DEF Moved, Searches
  <2> QED BY <1>1, <2>1, <2>3, <2>4 DEF Advance, k
<1>5. CASE k.left # <<>> /\ l \in {Nobody, k.at}
  <2> DEFINE rest == Tail(k.left)
             u == [k EXCEPT !.left = rest]
  <2>1. Becomes(c, u) BY <1>1, <1>5
  <2>2. rest \in Seq(Cluster) BY <1>3, <1>5
  <2> HIDE DEF rest
  <2>3. /\ CallShape(u) /\ u.step = k.step /\ u.at = k.at /\ u.ctx = k.ctx
        /\ u.req = k.req /\ u.left = rest /\ u.to = k.to
        /\ u.rows = k.rows /\ u.own = k.own /\ u.kept = k.kept
    <3> HIDE DEF k
    <3> QED BY <1>3 DEF CallShape
  <2> HIDE DEF u, k
  <2>4. CallOk(u) BY <1>1, <1>2, <2>2, <2>3 DEF CallOk
  <2>5. Searches(k, u) BY <1>1, <2>3 DEF Searches
  <2> QED BY <1>1, <2>1, <2>4, <2>5 DEF Advance, k
<1>6. CASE k.left # <<>> /\ l \notin {Nobody, k.at}
  <2> DEFINE u == Sent(k, "ask", l)
  <2>1. Becomes(c, u) BY <1>1, <1>6 DEF Sent
  <2>2. h \in Cluster BY <1>3, <1>6
  <2>3. l \in Service BY <1>6, <2>2, LeaderIsMember DEF Typed
  <2> HIDE DEF k, l
  <2>4. u = Sent(k, "ask", l) OBVIOUS
  <2> HIDE DEF u
  <2>5. /\ CallOk(u) /\ u.step = "ask"
        /\ u.ctx = k.ctx /\ u.req = k.req /\ u.rows = k.rows /\ u.own = k.own /\ u.kept = k.kept
    BY <1>2, <1>3, <2>3, <2>4, SentOk
  <2>6. Searches(k, u) BY <2>5 DEF Searches
  <2> QED BY <1>1, <2>1, <2>5, <2>6 DEF Advance, k
<1> QED BY <1>4, <1>5, <1>6

(* Asking another cluster leaves a typed call.                             *)
LEMMA AskFallbackStep ==
  ASSUME Typed, NEW c \in Client, AskFallback(c)
  PROVE  \E u : Becomes(c, u) /\ CallOk(u) /\ Advance(call[c], u)
<1> DEFINE k == call[c]
           filter == applySiteScope(k.ctx, k.req.filter)
           rows == Rows(store[k.to], resolvePermission(k.ctx), k.req.ids, filter, k.req.start)
           both == Merged(k, rows)
<1>1. /\ k # NoCall /\ k.step = "ask"
      /\ Becomes(c, Answer(k, both)) \/ Becomes(c, To(k, "failed"))
  BY DEF AskFallback, In
<1>2. CallOk(k) BY <1>1 DEF Typed, CallsTyped
<1>3. CallShape(k) BY <1>2 DEF CallOk
<1>4. CASE Becomes(c, Answer(k, both))
  <2> HIDE DEF both
  <2> DEFINE u == Answer(k, both)
  <2>1. /\ CallShape(u) /\ u.step = "done" /\ u.at = k.at /\ u.ctx = k.ctx
        /\ u.req = k.req /\ u.left = k.left /\ u.to = k.to
        /\ u.rows = both /\ u.own = k.own /\ u.kept = k.kept
    <3> HIDE DEF k
    <3>1. u = Answer(k, both) OBVIOUS
    <3> HIDE DEF u
    <3> QED BY <1>3, <3>1, AnswerShape
  <2> HIDE DEF u
  <2>2. HasAsked(k, u) BY <2>1 DEF HasAsked, both
  <2>3. CallOk(u)
    <3> HIDE DEF k
    <3> QED BY <1>2, <2>1 DEF CallOk
  <2> QED BY <1>1, <1>4, <2>2, <2>3 DEF Advance, u
<1>5. CASE Becomes(c, To(k, "failed"))
  <2> DEFINE u == To(k, "failed")
  <2>1. Moved(k, u, "failed") BY <1>3, ToMoves
  <2> HIDE DEF u, k
  <2>2. CallOk(u) BY <1>2, <2>1, MovedOk
  <2>3. u.step = "failed" BY <2>1 DEF Moved
  <2> QED BY <1>5, <2>2, <2>3 DEF Advance, k, u
<1> QED BY <1>1, <1>4, <1>5

(* The other steps of a call.                                              *)
LEMMA OtherStep ==
  ASSUME Typed, NEW c \in Client, subscribe_objs(c) \/ routeWrite(c) \/ Write(c) \/ Finish(c)
  PROVE  \E u : Becomes(c, u) /\ CallOk(u) /\ Advance(call[c], u)
<1> DEFINE k == call[c]
           p == writePrimary[clusterId[k.at]]
           l == getLeader(p)
<1>1. /\ k # NoCall /\ k.step \in {"subscribe", "route", "write", "tell"}
      /\ \/ Becomes(c, To(k, "failed"))
         \/ Becomes(c, To(k, "done"))
         \/ Becomes(c, To(k, "tell")) /\ k.step = "write"
         \/ /\ Becomes(c, [To(k, "write") EXCEPT !.to = l])
            /\ l # Nobody /\ k.step = "route"
  <2>1. CASE subscribe_objs(c) BY <2>1 DEF subscribe_objs, In
  <2>2. CASE routeWrite(c) BY <2>2 DEF routeWrite, In
  <2>3. CASE Write(c)
    <3>1. k # NoCall /\ k.step = "write" BY <2>3 DEF Write, In
    <3>2. Becomes(c, To(k, "failed")) \/ Becomes(c, To(k, "tell")) BY <2>3 DEF Write
    <3> QED BY <3>1, <3>2
  <2>4. CASE Finish(c) BY <2>4 DEF Finish, In
  <2> QED BY <2>1, <2>2, <2>3, <2>4
<1>2. CallOk(k) BY <1>1 DEF Typed, CallsTyped
<1>3. CallShape(k) /\ k.at \in Service /\ k.req.op # "get"
  BY <1>1, <1>2 DEF CallOk, Writing
<1>4. ASSUME NEW step \in {"failed", "done", "tell"}, Becomes(c, To(k, step)),
             step = "tell" => k.step = "write"
      PROVE  \E u : Becomes(c, u) /\ CallOk(u) /\ Advance(call[c], u)
  <2> DEFINE u == To(k, step)
  <2>1. Moved(k, u, step) BY <1>3, ToMoves
  <2> HIDE DEF u, k
  <2>2. CallOk(u) BY <1>2, <1>4, <2>1, MovedOk
  <2>3. u.step = step /\ u.req.op # "get" BY <1>3, <2>1 DEF Moved
  <2> QED BY <1>4, <2>2, <2>3 DEF Advance, k, u
<1>5. CASE /\ Becomes(c, [To(k, "write") EXCEPT !.to = l])
           /\ l # Nobody /\ k.step = "route"
  <2> DEFINE u == Sent(k, "write", l)
  <2>0. Becomes(c, u) BY <1>5 DEF Sent
  <2>1. clusterId[k.at] \in Cluster /\ p \in Cluster /\ p \in Range(writePrimary)
    BY <1>3, NetabServiceAssumption DEF Range
  <2>2. l \in Service /\ clusterId[l] \in Range(writePrimary)
    BY <1>5, <2>1, LeaderIsMember DEF Typed
  <2>3. k.req.op \in Writing BY <1>2, <1>5 DEF CallOk
  <2> HIDE DEF k, l
  <2>4. u = Sent(k, "write", l) OBVIOUS
  <2> HIDE DEF u
  <2>5. CallOk(u) /\ u.step = "write" BY <1>2, <2>2, <2>3, <2>4, SentOk
  <2> QED BY <2>0, <2>5 DEF Advance, k
<1> QED BY <1>1, <1>4, <1>5

(* A call that comes in.                                                   *)
Fresh(u) ==
  u.step \in {"failed", "read", "subscribe", "route"} /\ u.req \in budget.asks

(* A call that comes in is typed.                                          *)
LEMMA CallComes ==
  ASSUME Typed, NEW c \in Client, NEW s \in Service, Call(c, s)
  PROVE  \E u : Becomes(c, u) /\ CallOk(u) /\ Fresh(u)
<1>1. PICK req \in budget.asks :
        Becomes(c,
          [step |-> IF ~Permitted(token[c], Action(req)) THEN "failed"
                    ELSE IF req.op = "get" THEN "read"
                    ELSE IF req.op = "subscribe" THEN "subscribe" ELSE "route",
           at |-> s, ctx |-> token[c], req |-> req, left |-> readFallbacks[clusterId[s]],
           to |-> Nobody, rows |-> <<>>, own |-> <<>>, kept |-> {}])
  BY DEF Call
<1> DEFINE step == IF ~Permitted(token[c], Action(req)) THEN "failed"
                   ELSE IF req.op = "get" THEN "read"
                   ELSE IF req.op = "subscribe" THEN "subscribe" ELSE "route"
           left == readFallbacks[clusterId[s]]
           u == [step |-> step, at |-> s, ctx |-> token[c], req |-> req, left |-> left,
                 to |-> Nobody, rows |-> <<>>, own |-> <<>>, kept |-> {}]
<1>2. Becomes(c, u) BY <1>1
<1>3. left \in Seq(Cluster) BY NetabServiceAssumption
<1>4. TokenOk(token[c]) BY DEF Call, Typed, TokensTyped
<1>5. ReqOk(req) BY DEF Typed, BudgetOk
<1>6. /\ step \in {"failed", "read", "subscribe", "route"}
      /\ step = "read" => req.op = "get"
      /\ step = "subscribe" => req.op = "subscribe"
      /\ step = "route" => req.op \in Writing
  BY <1>5 DEF ReqOk
<1> HIDE DEF step, left
<1>7. /\ CallShape(u) /\ u.step = step /\ u.at = s /\ u.ctx = token[c] /\ u.req = req
      /\ u.left = left
  BY DEF CallShape
<1> HIDE DEF u
<1>8. CallOk(u) BY <1>3, <1>4, <1>5, <1>6, <1>7 DEF CallOk
<1>9. Fresh(u) BY <1>6, <1>7 DEF Fresh
<1> QED BY <1>2, <1>8, <1>9

(* How the calls go on from one state to the next.                         *)
Proceeds(c) ==
  \/ call'[c] = call[c]
  \/ CallOk(call'[c]) /\ Fresh(call'[c])
  \/ call[c] # NoCall /\ CallOk(call'[c]) /\ Advance(call[c], call'[c])

(* Calls stay typed, and go on in no other way.                            *)
LEMMA CallSteps ==
  ASSUME Typed, [Next]_vars
  PROVE  CallsTyped' /\ \A c \in Client : Proceeds(c)
<1>0. CallsTyped BY DEF Typed
<1>1. CASE UNCHANGED call BY <1>0, <1>1 DEF CallsTyped, Proceeds
<1>2. ASSUME NEW c \in Client, NEW u, Becomes(c, u), CallOk(u),
             Fresh(u) \/ (call[c] # NoCall /\ Advance(call[c], u))
      PROVE  CallsTyped' /\ \A x \in Client : Proceeds(x)
  <2>1. /\ call' = [x \in Client |-> call'[x]] /\ call'[c] = u
        /\ \A x \in Client : x # c => call'[x] = call[x]
    BY <1>0, <1>2, OneCall
  <2>2. CallsTyped' BY <1>0, <1>2, <2>1 DEF CallsTyped
  <2>3. Proceeds(c) BY <1>2, <2>1 DEF Proceeds
  <2>4. \A x \in Client : x # c => Proceeds(x) BY <2>1 DEF Proceeds
  <2> QED BY <2>2, <2>3, <2>4
<1>3. ASSUME NEW c \in Client, CallStep(c)
      PROVE  CallsTyped' /\ \A x \in Client : Proceeds(x)
  <2>1. call[c] # NoCall
    BY <1>3 DEF CallStep, ReadLocal, FindFallback, AskFallback, subscribe_objs, routeWrite,
                Write, Finish, In
  <2>2. CASE ReadLocal(c)
    <3>1. PICK u : Becomes(c, u) /\ CallOk(u) /\ HasRead(call[c], u)
      BY <1>0, <2>2, ReadLocalStep
    <3>2. Advance(call[c], u) BY <2>2, <3>1 DEF Advance, ReadLocal, In
    <3> QED BY <1>2, <2>1, <3>1, <3>2
  <2>3. CASE ~ReadLocal(c)
    <3>1. PICK u : Becomes(c, u) /\ CallOk(u) /\ Advance(call[c], u)
      BY <1>3, <2>3, FindFallbackStep, AskFallbackStep, OtherStep DEF CallStep
    <3> QED BY <1>2, <2>1, <3>1
  <2> QED BY <2>2, <2>3
<1>4. ASSUME NEW c \in Client, NEW s \in Service, Call(c, s)
      PROVE  CallsTyped' /\ \A x \in Client : Proceeds(x)
  <2>1. PICK u : Becomes(c, u) /\ CallOk(u) /\ Fresh(u) BY <1>4, CallComes
  <2> QED BY <1>2, <2>1
<1>5. ASSUME NEW c \in Client, Unsubscribe(c) \/ Login(c) PROVE UNCHANGED call
  BY <1>5 DEF Unsubscribe, Login
<1>6. ASSUME NEW l \in Service, NEW s \in Service,
             \/ start(s) \/ stop(s) \/ Elect(s)
             \/ Replicate(l, s) \/ Publish(s) \/ Purge(s)
      PROVE  UNCHANGED call
  BY <1>6 DEF start, stop, Elect, Replicate, Publish, Purge
<1>7. ASSUME NEW s \in Service, NEW n \in budget.cutoffs, run_retention(s, n)
      PROVE UNCHANGED call
  BY <1>7 DEF run_retention
<1>8. CASE UNCHANGED vars BY <1>1, <1>8 DEF vars
<1> QED BY <1>1, <1>3, <1>4, <1>5, <1>6, <1>7, <1>8 DEF Next

(* What a subscriber is told.                                              *)
Hears(sub, m, h) ==
  /\ SubOk(h) /\ h.at = sub.at /\ h.ctx = sub.ctx /\ h.filter = sub.filter
  /\ h.perm = sub.perm /\ h.changed = sub.changed \cup {m.id}
  /\ h.misled = IF m.late THEN sub.misled \cup {m.id} ELSE sub.misled \ {m.id}
  /\ \A i \in DocId :
       h.view[i] = IF i = m.id THEN Told(sub, m.row, sub.view[i]) ELSE sub.view[i]

(* What Hear does.                                                         *)
LEMMA HearOk ==
  ASSUME NEW sub, SubOk(sub), NEW m
  PROVE  Hears(sub, m, Hear(sub, m))
<1> DEFINE h == Hear(sub, m)
           all == sub.changed \cup {m.id}
           wrong == IF m.late THEN sub.misled \cup {m.id} ELSE sub.misled \ {m.id}
           news == Told(sub, m.row, sub.view[m.id])
           view == [sub.view EXCEPT ![m.id] = news]
<1>1. h = [sub EXCEPT !.changed = all, !.misled = wrong, !.view = view]
  BY DEF Hear, SubOk
<1>2. /\ view = [i \in DocId |-> view[i]]
      /\ \A i \in DocId : view[i] = IF i = m.id THEN news ELSE sub.view[i]
  <2> HIDE DEF news
  <2> QED BY DEF SubOk
<1>3. \A i \in DocId :
        view[i] = IF i = m.id THEN Told(sub, m.row, sub.view[i]) ELSE sub.view[i]
  <2> HIDE DEF view
  <2> QED BY <1>2
<1> HIDE DEF view, wrong, all, news, h
<1>4. /\ h = [at |-> h.at, ctx |-> h.ctx, filter |-> h.filter, perm |-> h.perm,
              view |-> h.view, changed |-> h.changed, misled |-> h.misled]
      /\ h.at = sub.at /\ h.ctx = sub.ctx /\ h.filter = sub.filter /\ h.perm = sub.perm
      /\ h.changed = all /\ h.misled = wrong /\ h.view = view
  BY <1>1 DEF SubOk
<1>5. SubOk(h) BY <1>2, <1>4 DEF SubOk
<1>6. Hears(sub, m, h) BY <1>3, <1>4, <1>5 DEF Hears, all, wrong
<1> QED BY <1>6 DEF h

(* What a message means for one subscription.                              *)
LEMMA Heard ==
  ASSUME SubsTyped, NEW s, NEW m, Tell(s, m), NEW c \in Client
  PROVE  /\ subs' = [x \in Client |-> subs'[x]]
         /\ IF subs[c] # NoSub /\ subs[c].at = s
            THEN Hears(subs[c], m, subs'[c]) ELSE subs'[c] = subs[c]
<1>1. /\ subs' = [x \in Client |-> subs'[x]]
      /\ IF subs[c] # NoSub /\ subs[c].at = s
         THEN subs'[c] = Hear(subs[c], m) ELSE subs'[c] = subs[c]
  BY DEF Tell
<1>2. subs[c] # NoSub => Hears(subs[c], m, Hear(subs[c], m)) BY HearOk DEF SubsTyped
<1> QED BY <1>1, <1>2

(* Of a row there is something to tell.                                    *)
Words(m) == m.id \in DocId => m.row \in Value \cup {Dead}

(* What is told at the head of a queue.                                    *)
LEMMA HeadSays ==
  ASSUME TellingTyped, NEW s \in Service, telling[s] # <<>>
  PROVE  Head(telling[s]) \in Message /\ Words(Head(telling[s]))
<1>1. telling[s] \in Seq(Message) BY DEF TellingTyped
<1>2. Head(telling[s]) \in Message BY <1>1
<1> QED BY <1>2 DEF Message, Words

(* A row that changed is there, alive or deleted.                          *)
LEMMA TurnedRow ==
  ASSUME NEW t, NEW u, NEW i, Turned(t, u, {i})
  PROVE  i \in DocId => u.docs[i] \in Value \cup {Dead}
<1>1. u.docs \in [DocId -> Value \cup {Absent, Dead}] BY GoodFields DEF Turned
<1>2. i \in DocId => u.docs[i] # Absent BY DEF Turned
<1> QED BY <1>1, <1>2

(* How subscriptions change.                                               *)
LEMMA SubsMove ==
  ASSUME Setting, Typed, [Next]_vars
  PROVE  UNCHANGED subs \/ Subscribes \/ \E s \in Service : \E m : Tell(s, m) /\ Words(m)
<1>1. CASE Changes
  <2>1. PICK s \in Service, t \in Sound : \E ids : Change(s, t, ids) BY <1>1 DEF Changes
  <2>2. PICK ids : Change(s, t, ids) BY <2>1
  <2>3. CASE UNCHANGED subs BY <2>3
  <2>4. ASSUME NEW i, ids = {i}, Copied(s, t, i)
        PROVE  \E m : Tell(s, m) /\ Words(m)
    <3> DEFINE m == ChangeEvent(i, t.docs[i], Nobody)
    <3>1. Tell(s, m) BY <2>4 DEF Copied
    <3>2. i \in DocId => t.docs[i] \in Value \cup {Dead}
      BY <2>2, <2>4, TurnedRow DEF Change, Alter
    <3>3. m.id = i /\ m.row = t.docs[i] BY DEF ChangeEvent
    <3> HIDE DEF m
    <3>4. Words(m) BY <3>2, <3>3 DEF Words
    <3> QED BY <3>1, <3>4
  <2> QED BY <2>2, <2>3, <2>4 DEF Change, Queued
<1>2. ASSUME NEW s \in Service, Tells(s) PROVE \E m : Tell(s, m) /\ Words(m)
  <2> DEFINE m == Head(telling[s])
  <2>1. Tell(s, m) /\ Words(m) BY <1>2, HeadSays DEF Tells, Typed
  <2> HIDE DEF m
  <2> QED BY <2>1
<1> QED BY <1>1, <1>2, TableSteps

(* Subscriptions stay typed.                                               *)
LEMMA SubsStay ==
  ASSUME Setting, Typed, [Next]_vars
  PROVE  SubsTyped'
<1>0. SubsTyped BY DEF Typed
<1>1. CASE UNCHANGED subs BY <1>0, <1>1 DEF SubsTyped
<1>2. CASE Subscribes
  <2>0. PICK x \in Client : \E sub : Resubscribes(x, sub) BY <1>2 DEF Subscribes
  <2>1. PICK sub : subs' = [subs EXCEPT ![x] = sub] /\ (sub # NoSub => SubOk(sub))
    BY <2>0 DEF Begun, Resubscribes
  <2>2. /\ subs' = [c \in Client |-> subs'[c]] /\ subs'[x] = sub
        /\ \A c \in Client : c # x => subs'[c] = subs[c]
    BY <1>0, <2>1 DEF SubsTyped
  <2> QED BY <1>0, <2>1, <2>2 DEF SubsTyped
<1>3. ASSUME NEW s \in Service, NEW m, Tell(s, m) PROVE SubsTyped'
  <2>1. subs' = [c \in Client |-> subs'[c]] BY <1>3 DEF Tell
  <2>2. ASSUME NEW c \in Client, subs'[c] # NoSub PROVE SubOk(subs'[c])
    <3>1. IF subs[c] # NoSub /\ subs[c].at = s
          THEN Hears(subs[c], m, subs'[c]) ELSE subs'[c] = subs[c]
      BY <1>0, <1>3, Heard
    <3>2. subs[c] # NoSub => SubOk(subs[c]) BY <1>0 DEF SubsTyped
    <3> QED BY <2>2, <3>1, <3>2 DEF Hears
  <2> QED BY <2>1, <2>2 DEF SubsTyped
<1> QED BY <1>1, <1>2, <1>3, SubsMove

(* What is to be told stays typed, and what is told last true.             *)
LEMMA TellingStays ==
  ASSUME Setting, Typed, [Next]_vars
  PROVE  TellingTyped' /\ LastWords'
<1>0. /\ TellingTyped /\ LastWords /\ StoreTyped
      /\ telling \in [Service -> Seq(Message)]
  BY DEF Typed, TellingTyped
<1>1. CASE UNCHANGED <<store, telling>> BY <1>0, <1>1 DEF TellingTyped, LastWords
<1>2. ASSUME NEW s \in Service, NEW q, telling' = [telling EXCEPT ![s] = q],
             q \in Seq(Message), WordsTrue(q, store'[s]),
             \A x \in Service : x # s => store'[x] = store[x]
      PROVE  TellingTyped' /\ LastWords'
  <2>1. telling'[s] = q /\ \A x \in Service : x # s => telling'[x] = telling[x]
    BY <1>0, <1>2
  <2>2. TellingTyped' BY <1>0, <1>2 DEF TellingTyped
  <2>3. ASSUME NEW x \in Service PROVE WordsTrue(telling'[x], store'[x])
    <3>1. CASE x = s BY <1>2, <2>1, <3>1
    <3>2. CASE x # s BY <1>0, <1>2, <2>1, <3>2 DEF LastWords
    <3> QED BY <3>1, <3>2
  <2> QED BY <2>2, <2>3 DEF LastWords
<1>3. ASSUME NEW s \in Service, Tells(s) PROVE TellingTyped' /\ LastWords'
  <2> DEFINE q == telling[s]
             p == Tail(q)
             t == store[s]
  <2>1. q \in Seq(Message) /\ q # <<>> /\ WordsTrue(q, t)
    BY <1>0, <1>3 DEF Tells, LastWords
  <2>2. telling' = [telling EXCEPT ![s] = p] /\ UNCHANGED store BY <1>3 DEF Tells
  <2>3. p \in Seq(Message) /\ WordsTrue(p, t)
    <3> HIDE DEF q, t
    <3> QED BY <2>1, QueueTold
  <2> HIDE DEF p
  <2> QED BY <1>2, <2>2, <2>3
<1>4. CASE Changes
  <2>1. PICK s \in Service, t \in Sound : \E ids : Change(s, t, ids) BY <1>4 DEF Changes
  <2>2. PICK ids : Change(s, t, ids) BY <2>1
  <2>3. store'[s] = t /\ \A x \in Service : x # s => store'[x] = store[x]
    BY <2>2, ChangeStore DEF Typed
  <2> DEFINE q == telling[s]
             old == store[s]
  <2>4. q \in Seq(Message) /\ WordsTrue(q, old) BY <1>0 DEF LastWords
  <2>5. /\ Turned(old, t, ids)
        /\ \A j \in DocId : j \notin ids => t.docs[j] = old.docs[j]
    BY <2>2 DEF Change, Alter, Turned
  <2>6. telling = [telling EXCEPT ![s] = q] BY <1>0
  <2> HIDE DEF q, old
  <2>7. CASE ids = {} /\ UNCHANGED telling
    <3>1. \A n \in DOMAIN q : q[n].id \in DocId BY <2>4, QueueIds
    <3>2. WordsTrue(q, t) BY <2>4, <2>5, <2>7, <3>1 DEF WordsTrue
    <3> QED BY <1>2, <2>3, <2>4, <2>6, <2>7, <3>2
  <2>8. ASSUME NEW i \in DocId, ids = {i}, NEW by \in Client \cup {Nobody},
               telling' = [telling EXCEPT ![s] = Append(q, ChangeEvent(i, t.docs[i], by))]
        PROVE  TellingTyped' /\ LastWords'
    <3> DEFINE e == ChangeEvent(i, t.docs[i], by)
               p == Append(q, e)
    <3>1. t.docs[i] \in Value \cup {Dead} BY <2>5, <2>8, TurnedRow
    <3>2. e \in Message /\ e.id = i /\ e.row = t.docs[i]
      BY <3>1 DEF ChangeEvent, Message
    <3>3. telling' = [telling EXCEPT ![s] = p] BY <2>8
    <3> HIDE DEF e
    <3>4. Elsewhere(old, t, e.id) BY <2>5, <2>8, <3>2 DEF Elsewhere
    <3>5. e.row = t.docs[e.id] BY <3>2
    <3>6. p \in Seq(Message) /\ WordsTrue(p, t) BY <2>4, <3>2, <3>4, <3>5, QueueAppend
    <3> HIDE DEF p
    <3> QED BY <1>2, <2>3, <3>3, <3>6
  <2>9. ASSUME NEW i, ids = {i}, telling' = [telling EXCEPT ![s] = Overtaken(q, i)]
        PROVE  TellingTyped' /\ LastWords'
    <3> DEFINE p == Overtaken(q, i)
    <3>1. Elsewhere(old, t, i) BY <2>5, <2>9 DEF Elsewhere
    <3>2. p \in Seq(Message) /\ WordsTrue(p, t) BY <2>4, <3>1, QueueOvertaken
    <3>3. telling' = [telling EXCEPT ![s] = p] BY <2>9
    <3> HIDE DEF p
    <3> QED BY <1>2, <2>3, <3>2, <3>3
  <2> QED BY <2>2, <2>7, <2>8, <2>9 DEF Change, Queued, Copied, q
<1> QED BY <1>1, <1>3, <1>4, TableSteps DEF Subscribes

(* What retention has found stays typed.                                   *)
LEMMA PurgeStays ==
  ASSUME Setting, Typed, [Next]_vars
  PROVE  PurgeTyped'
<1>0. /\ PurgeTyped /\ budget'.cutoffs = budget.cutoffs
      /\ purge = [s \in Service |-> purge[s]]
  BY MenuStays DEF Typed, SameMenu, PurgeTyped
<1>1. CASE UNCHANGED purge BY <1>0, <1>1 DEF PurgeTyped
<1>2. ASSUME NEW s \in Service, NEW p, purge' = [purge EXCEPT ![s] = p],
             p # Idle => /\ p = [left |-> p.left, cutoff |-> p.cutoff, found |-> p.found]
                         /\ p.left \subseteq DocId /\ p.cutoff \in budget.cutoffs
      PROVE  PurgeTyped'
  <2>1. /\ purge' = [x \in Service |-> purge'[x]] /\ purge'[s] = p
        /\ \A x \in Service : x # s => purge'[x] = purge[x]
    BY <1>0, <1>2
  <2> QED BY <1>0, <1>2, <2>1 DEF PurgeTyped
<1>3. ASSUME NEW s \in Service, NEW n \in budget.cutoffs, run_retention(s, n)
      PROVE  PurgeTyped'
  <2> DEFINE t == store[s]
             old == {i \in Live(t) : timeField \in DOMAIN t.docs[i] /\ t.docs[i][timeField] < n}
             p == [left |-> old, cutoff |-> n, found |-> old # {}]
  <2>1. purge' = [purge EXCEPT ![s] = p] BY <1>3 DEF run_retention
  <2>2. old \subseteq DocId BY DEF Live
  <2> HIDE DEF old
  <2> QED BY <1>2, <2>1, <2>2
<1>4. ASSUME NEW s \in Service, Purge(s) PROVE PurgeTyped'
  <2> DEFINE old == purge[s]
  <2>1. /\ old # Idle
        /\ \/ \E i \in old.left : purge' = [purge EXCEPT ![s].left = old.left \ {i}]
           \/ purge' = [purge EXCEPT ![s] = Idle]
    BY <1>4 DEF Purge
  <2>2. /\ old = [left |-> old.left, cutoff |-> old.cutoff, found |-> old.found]
        /\ old.left \subseteq DocId /\ old.cutoff \in budget.cutoffs
    BY <1>0, <2>1 DEF PurgeTyped
  <2>3. ASSUME NEW i \in old.left, purge' = [purge EXCEPT ![s].left = old.left \ {i}]
        PROVE  PurgeTyped'
    <3> DEFINE rest == old.left \ {i}
               p == [old EXCEPT !.left = rest]
    <3>1. purge' = [purge EXCEPT ![s] = p] BY <2>3
    <3>2. rest \subseteq DocId BY <2>2
    <3> HIDE DEF rest, old
    <3>3. /\ p = [left |-> p.left, cutoff |-> p.cutoff, found |-> p.found]
          /\ p.left = rest /\ p.cutoff = old.cutoff
      BY <2>2
    <3> HIDE DEF p
    <3> QED BY <1>2, <2>2, <3>1, <3>2, <3>3
  <2>4. CASE purge' = [purge EXCEPT ![s] = Idle] BY <1>2, <2>4
  <2> QED BY <2>1, <2>3, <2>4
<1>5. ASSUME NEW c \in Client,
             CallStep(c) \/ Unsubscribe(c) \/ Login(c) \/ \E s \in Service : Call(c, s)
      PROVE  UNCHANGED purge
  <2>1. CASE Write(c) BY <2>1 DEF Write
  <2>2. CASE \E s \in Service : Call(c, s) BY <2>2 DEF Call, tables
  <2>3. CASE (CallStep(c) /\ ~Write(c)) \/ Unsubscribe(c) \/ Login(c)
    BY <2>3 DEF CallStep, Unsubscribe, Login, ReadLocal, FindFallback, AskFallback,
              subscribe_objs, routeWrite, Finish, tables
  <2> QED BY <1>5, <2>1, <2>2, <2>3
<1>6. ASSUME NEW l \in Service, NEW s \in Service,
             \/ start(s) \/ stop(s) \/ Elect(s) \/ Replicate(l, s) \/ Publish(s)
      PROVE  UNCHANGED purge
  BY <1>6 DEF start, stop, Elect, Replicate, Publish, tables
<1>7. CASE UNCHANGED vars BY <1>1, <1>7 DEF vars, tables
<1> QED BY <1>1, <1>3, <1>4, <1>5, <1>6, <1>7 DEF Next

(* What the invariant says of types holds.                                 *)
LEMMA TypedStays ==
  ASSUME Setting, Typed, [Next]_vars
  PROVE  Typed'
<1>1. BudgetOk(budget') BY MenuStays DEF Typed
<1>2. StoreTyped'
  <2>1. CASE UNCHANGED store BY <2>1 DEF Typed, StoreTyped
  <2>2. CASE Changes BY <2>2, ChangeStore DEF Changes, Typed
  <2> QED BY <2>1, <2>2, TableSteps DEF Subscribes, Tells
<1> QED
  BY <1>1, <1>2, TellingStays, PurgeStays, NamesStay, TokensStay, CallSteps, SubsStay
  DEF Typed

(* The invariant holds at the start.                                       *)
LEMMA TypedInit ==
  ASSUME Setting, Init
  PROVE  Typed
<1>1. BudgetOk(budget) BY DEF Init, Setting
<1>2. StoreTyped BY DEF Init, Setting, StoreTyped
<1>3. NamesTyped BY NetabServiceAssumption DEF Init, NamesTyped
<1>5. TellingTyped /\ LastWords /\ PurgeTyped
  BY DEF Init, TellingTyped, LastWords, WordsTrue, PurgeTyped
<1>4. TokensTyped /\ CallsTyped /\ SubsTyped
  BY DEF Init, TokensTyped, CallsTyped, SubsTyped
<1> QED BY <1>1, <1>2, <1>3, <1>4, <1>5 DEF Typed

-----------------------------------------------------------------------------
(* What subscribers hold.                                                  *)

(* What a subscriber holds of a row is true of the table.                  *)
TrueRow(sub, t, i) ==
  /\ sub.view[i] # Absent => i \in Live(t)
  /\ i \in sub.changed \cap Live(t) /\ matchesFilter(t.docs[i], sub.filter)
       => sub.view[i] = filterReadableValue(t.docs[i], sub.perm)

(* It is of every row but those that are still to be told, or were told    *)
(* too late.                                                               *)
TrueView(sub, t, q) ==
  \A i \in DocId : ~Waits(q, i) /\ i \notin sub.misled => TrueRow(sub, t, i)

(* The property, by subscription.                                          *)
LEMMA ViewsAre ==
  ViewsAreTrue <=> \A c \in Client : subs[c] # NoSub =>
                     TrueView(subs[c], store[subs[c].at], telling[subs[c].at])
<1>1. ASSUME NEW c
      PROVE  LET sub == subs[c]
                 untold == {telling[sub.at][n].id : n \in DOMAIN telling[sub.at]}
             IN \A i \in DocId : i \in DocId \ (untold \cup sub.misled) <=>
                                   ~Waits(telling[sub.at], i) /\ i \notin sub.misled
  BY DEF Waits
<1> QED BY <1>1 DEF ViewsAreTrue, TrueView, TrueRow

(* A view stays true where the table does.                                 *)
LEMMA SameTrue ==
  ASSUME NEW sub, NEW t, NEW u, NEW q, NEW p, TrueView(sub, t, q),
         \A i \in DocId : ~Waits(p, i) => ~Waits(q, i) /\ u.docs[i] = t.docs[i]
  PROVE  TrueView(sub, u, p)
BY DEF TrueView, TrueRow, Live

(* What is no longer to be told was not before, but for the row k.         *)
Sharing(t, u, q, p, k) ==
  \A i \in DocId : i # k /\ ~Waits(p, i) => ~Waits(q, i) /\ u.docs[i] = t.docs[i]

(* Telling a subscriber of a row as it is keeps its view true.             *)
LEMMA HearTrue ==
  ASSUME NEW sub, NEW t, NEW u, NEW q, NEW p, TrueView(sub, t, q), NEW m,
         Sharing(t, u, q, p, m.id), Words(m),
         ~m.late /\ ~Waits(p, m.id) => m.row = u.docs[m.id],
         NEW h, Hears(sub, m, h)
  PROVE  TrueView(h, u, p)
<1>1. /\ h.filter = sub.filter /\ h.perm = sub.perm /\ h.changed = sub.changed \cup {m.id}
      /\ h.misled = IF m.late THEN sub.misled \cup {m.id} ELSE sub.misled \ {m.id}
      /\ \A i \in DocId :
           h.view[i] = IF i = m.id THEN Told(sub, m.row, sub.view[i]) ELSE sub.view[i]
  BY DEF Hears
<1> SUFFICES ASSUME NEW i \in DocId, ~Waits(p, i), i \notin h.misled
             PROVE  TrueRow(h, u, i)
  BY DEF TrueView
<1>2. CASE i # m.id
  <2>1. /\ ~Waits(q, i) /\ u.docs[i] = t.docs[i] /\ i \notin sub.misled
        /\ h.view[i] = sub.view[i] /\ (i \in h.changed <=> i \in sub.changed)
    BY <1>1, <1>2 DEF Sharing
  <2>2. TrueRow(sub, t, i) BY <2>1 DEF TrueView
  <2> QED BY <1>1, <2>1, <2>2 DEF TrueRow, Live
<1>3. CASE i = m.id
  <2>1. ~m.late BY <1>1, <1>3
  <2>2. u.docs[i] = m.row /\ u.docs[i] \in Value \cup {Dead} BY <1>3, <2>1 DEF Words
  <2>3. h.view[i] = Told(sub, u.docs[i], sub.view[i]) BY <1>1, <1>3, <2>2
  <2>4. CASE u.docs[i] = Dead
    <3>1. h.view[i] = Absent /\ i \notin Live(u) BY <2>3, <2>4 DEF Told, Live
    <3> QED BY <3>1 DEF TrueRow
  <2>5. CASE u.docs[i] # Dead
    <3>1. i \in Live(u) BY <2>2, <2>5, StengAssumption DEF Live
    <3>2. matchesFilter(u.docs[i], h.filter)
            => h.view[i] = filterReadableValue(u.docs[i], h.perm)
      BY <1>1, <2>3, <2>5 DEF Told
    <3> QED BY <3>1, <3>2 DEF TrueRow
  <2> QED BY <2>4, <2>5
<1> QED BY <1>2, <1>3

(* No step makes a view untrue.                                            *)
LEMMA ViewsStay ==
  ASSUME Setting, Typed, ViewsAreTrue, [Next]_vars
  PROVE  ViewsAreTrue'
<1>0. /\ SubsTyped /\ StoreTyped /\ TellingTyped /\ LastWords
      /\ telling \in [Service -> Seq(Message)]
      /\ \A c \in Client : subs[c] # NoSub =>
           SubOk(subs[c]) /\ TrueView(subs[c], store[subs[c].at], telling[subs[c].at])
  BY ViewsAre DEF Typed, SubsTyped, TellingTyped
<1>1. SUFFICES ASSUME NEW c \in Client, subs'[c] # NoSub
               PROVE  TrueView(subs'[c], store'[subs'[c].at], telling'[subs'[c].at])
  <2>1. ASSUME \A c \in Client : subs'[c] # NoSub =>
                 TrueView(subs'[c], store'[subs'[c].at], telling'[subs'[c].at])
        PROVE  ViewsAreTrue'
    <3>1. (ViewsAreTrue <=> \A c \in Client : subs[c] # NoSub =>
             TrueView(subs[c], store[subs[c].at], telling[subs[c].at]))'
      BY ViewsAre, PTL
    <3> QED BY <2>1, <3>1
  <2> QED BY <2>1
<1>2. CASE UNCHANGED <<store, telling, subs>> BY <1>0, <1>1, <1>2
<1>3. CASE Subscribes
  <2>1. PICK x \in Client : \E sub : Resubscribes(x, sub) BY <1>3 DEF Subscribes
  <2>2. PICK sub : subs' = [subs EXCEPT ![x] = sub] /\ (sub # NoSub => Begun(sub))
    BY <2>1 DEF Resubscribes
  <2>3. UNCHANGED <<store, telling>> BY <1>3 DEF Subscribes
  <2>4. IF c = x THEN subs'[c] = sub ELSE subs'[c] = subs[c]
    BY <2>2 DEF Typed, SubsTyped
  <2>5. CASE c = x
    <3>1. subs'[c] = sub /\ Begun(sub) BY <1>1, <2>2, <2>4, <2>5
    <3> QED BY <3>1 DEF Begun, TrueView, TrueRow
  <2> QED BY <1>0, <1>1, <2>3, <2>4, <2>5
<1>4. ASSUME NEW s \in Service, Tells(s)
      PROVE  TrueView(subs'[c], store'[subs'[c].at], telling'[subs'[c].at])
  <2> DEFINE q == telling[s]
             p == Tail(q)
             t == store[s]
             m == Head(q)
  <2>1. /\ q \in Seq(Message) /\ q # <<>> /\ WordsTrue(q, t)
        /\ Tell(s, m) /\ UNCHANGED store /\ telling' = [telling EXCEPT ![s] = p]
    BY <1>0, <1>4 DEF Tells, LastWords
  <2>2. Words(m) BY <1>0, <2>1, HeadSays
  <2>3. /\ \A i : Waits(q, i) <=> Waits(p, i) \/ i = m.id
        /\ ~m.late /\ ~Waits(p, m.id) => m.row = t.docs[m.id]
    <3> HIDE DEF q, t
    <3> QED BY <2>1, QueueTold
  <2>4. CASE subs[c] # NoSub /\ subs[c].at = s
    <3>1. TrueView(subs[c], t, q) BY <1>0, <2>4
    <3>2. telling'[s] = p /\ store'[s] = t BY <1>0, <2>1
    <3>3. Hears(subs[c], m, subs'[c]) BY <1>0, <2>1, <2>4, Heard
    <3> HIDE DEF q, p, t, m
    <3>4. Sharing(t, t, q, p, m.id) BY <2>3 DEF Sharing
    <3>5. TrueView(subs'[c], t, p) BY <2>2, <2>3, <3>1, <3>3, <3>4, HearTrue
    <3>6. subs'[c].at = s BY <2>4, <3>3 DEF Hears
    <3> QED BY <3>2, <3>5, <3>6
  <2>5. CASE ~(subs[c] # NoSub /\ subs[c].at = s)
    <3>1. subs'[c] = subs[c] BY <1>0, <2>1, <2>5, Heard
    <3>2. subs[c].at \in Service /\ subs[c].at # s BY <1>0, <1>1, <2>5, <3>1 DEF SubOk
    <3>3. telling'[subs[c].at] = telling[subs[c].at] BY <1>0, <2>1, <3>2
    <3> QED BY <1>0, <1>1, <2>1, <3>1, <3>3
  <2> QED BY <2>4, <2>5
<1>5. CASE Changes
  <2>1. PICK s \in Service, t \in Sound : \E ids : Change(s, t, ids) BY <1>5 DEF Changes
  <2>2. PICK ids : Change(s, t, ids) BY <2>1
  <2>3. store'[s] = t /\ \A x \in Service : x # s => store'[x] = store[x]
    BY <2>2, ChangeStore DEF Typed
  <2> DEFINE q == telling[s]
             old == store[s]
  <2>4. q \in Seq(Message) /\ WordsTrue(q, old) BY <1>0 DEF LastWords
  <2>5. /\ Turned(old, t, ids)
        /\ \A j \in DocId : j \notin ids => t.docs[j] = old.docs[j]
    BY <2>2 DEF Change, Alter, Turned
  <2>6. \A x \in Service : x # s => telling'[x] = telling[x]
    BY <1>0, <2>2 DEF Change, Queued, Copied
  <2>7. subs[c] # NoSub => SubOk(subs[c]) /\ subs[c].at \in Service BY <1>0 DEF SubOk
  <2> DEFINE p == telling'[s]
  <2> HIDE DEF q, old, p
  <2>8. ASSUME UNCHANGED subs,
               \A j \in DocId : ~Waits(p, j) => ~Waits(q, j) /\ t.docs[j] = old.docs[j]
        PROVE  TrueView(subs'[c], store'[subs'[c].at], telling'[subs'[c].at])
    <3>1. subs'[c] = subs[c] /\ subs[c] # NoSub BY <1>1, <2>8
    <3>2. TrueView(subs[c], store[subs[c].at], telling[subs[c].at]) BY <1>0, <3>1
    <3>3. CASE subs[c].at = s
      <4>1. TrueView(subs[c], old, q) BY <3>2, <3>3 DEF q, old
      <4>2. TrueView(subs[c], t, p) BY <2>8, <4>1, SameTrue
      <4> QED BY <2>3, <3>1, <3>3, <4>2 DEF p
    <3>4. CASE subs[c].at # s BY <2>3, <2>6, <2>7, <3>1, <3>2, <3>4
    <3> QED BY <3>3, <3>4
  <2>9. CASE ids = {} /\ UNCHANGED <<telling, subs>>
    <3>1. p = q BY <2>9 DEF p, q
    <3> QED BY <2>5, <2>8, <2>9, <3>1
  <2>10. ASSUME NEW i \in DocId, ids = {i}, Queued(s, t, i)
         PROVE  TrueView(subs'[c], store'[subs'[c].at], telling'[subs'[c].at])
    <3>1. PICK by \in Client \cup {Nobody} :
            telling' = [telling EXCEPT ![s] = Append(telling[s], ChangeEvent(i, t.docs[i], by))]
      BY <2>10 DEF Queued
    <3> DEFINE e == ChangeEvent(i, t.docs[i], by)
    <3>2. t.docs[i] \in Value \cup {Dead} BY <2>5, <2>10, TurnedRow
    <3>3. e \in Message /\ e.id = i /\ e.row = t.docs[i]
      BY <3>2 DEF ChangeEvent, Message
    <3>4. p = Append(q, e) BY <1>0, <3>1 DEF p, q
    <3> HIDE DEF e
    <3>5. Elsewhere(old, t, e.id) BY <2>5, <2>10, <3>3 DEF Elsewhere
    <3>6. e.row = t.docs[e.id] BY <3>3
    <3>7. \A j : Waits(p, j) <=> Waits(q, j) \/ j = e.id
      BY <2>4, <3>3, <3>4, <3>5, <3>6, QueueAppend
    <3>8. UNCHANGED subs BY <2>10 DEF Queued
    <3> QED BY <2>8, <3>5, <3>7, <3>8 DEF Elsewhere
  <2>11. ASSUME NEW i, ids = {i}, Copied(s, t, i)
         PROVE  TrueView(subs'[c], store'[subs'[c].at], telling'[subs'[c].at])
    <3> DEFINE m == ChangeEvent(i, t.docs[i], Nobody)
    <3>1. Tell(s, m) /\ p = Overtaken(q, i) BY <1>0, <2>11 DEF Copied, p, q
    <3>2. m.id = i /\ m.row = t.docs[i] BY DEF ChangeEvent
    <3>3. i \in DocId => t.docs[i] \in Value \cup {Dead} BY <2>5, <2>11, TurnedRow
    <3> HIDE DEF m
    <3>4. Words(m) BY <3>2, <3>3 DEF Words
    <3>5. Elsewhere(old, t, i) BY <2>5, <2>11 DEF Elsewhere
    <3>6. \A j : Waits(p, j) <=> Waits(q, j) BY <2>4, <3>1, <3>5, QueueOvertaken
    <3>7. CASE subs[c] # NoSub /\ subs[c].at = s
      <4>1. TrueView(subs[c], old, q) BY <1>0, <3>7 DEF q, old
      <4>2. Hears(subs[c], m, subs'[c]) BY <1>0, <3>1, <3>7, Heard
      <4>3. Sharing(old, t, q, p, m.id) BY <3>2, <3>5, <3>6 DEF Sharing, Elsewhere
      <4>4. ~m.late /\ ~Waits(p, m.id) => m.row = t.docs[m.id] BY <3>2
      <4>5. TrueView(subs'[c], t, p) BY <3>4, <4>1, <4>2, <4>3, <4>4, HearTrue
      <4>6. subs'[c].at = s BY <3>7, <4>2 DEF Hears
      <4> QED BY <2>3, <4>5, <4>6 DEF p
    <3>8. CASE ~(subs[c] # NoSub /\ subs[c].at = s)
      <4>1. subs'[c] = subs[c] BY <1>0, <3>1, <3>8, Heard
      <4>2. subs[c].at \in Service /\ subs[c].at # s BY <1>1, <2>7, <3>8, <4>1
      <4> QED BY <1>0, <1>1, <2>3, <2>6, <4>1, <4>2
    <3> QED BY <3>7, <3>8
  <2> QED BY <2>2, <2>9, <2>10, <2>11 DEF Change, Queued
<1> QED BY <1>2, <1>3, <1>4, <1>5, TableSteps

(* ChangeBus: a subscriber that applies what it is told holds the rows of  *)
(* its filter that changed since as they are, and none that was deleted,   *)
(* however writes, replication and retention take turns and however late   *)
(* it is told, but for the rows it is still to be told of and those whose  *)
(* last change was told after the entry that replaced it.                  *)
THEOREM SubscribersKeepUp ==
  ASSUME Setting
  PROVE  Spec => []ViewsAreTrue
<1>1. Init => Typed /\ ViewsAreTrue
  <2>1. Init => ViewsAreTrue BY DEF Init, ViewsAreTrue
  <2> QED BY <2>1, TypedInit
<1>2. Typed /\ ViewsAreTrue /\ [Next]_vars => Typed' /\ ViewsAreTrue'
  BY TypedStays, ViewsStay
<1> QED BY <1>1, <1>2, PTL DEF Spec

-----------------------------------------------------------------------------
(* The scope of a site.                                                    *)

Scoped(v, ctx) ==
  v # Absent /\ Bound(ctx) /\ "siteId" \in DOMAIN v => v["siteId"] = ctx.site

ScopedRows(rows, ctx) == \A i \in DOMAIN rows : Scoped(rows[i], ctx)

(* The rows of a query, while it looks for them and once it is answered.   *)
ScopedCall(k) ==
  k.step \in {"fall", "ask", "done"} /\ k.req.op = "get" /\ k.req.ids = {}
    => ScopedRows(k.rows, k.ctx)

ScopedSub(sub) ==
  /\ \E filter : sub.filter = applySiteScope(sub.ctx, filter)
  /\ \A i \in DocId : Scoped(sub.view[i], sub.ctx)

CallsScoped == \A c \in Client : call[c] # NoCall => ScopedCall(call[c])
SubsScoped == \A c \in Client : subs[c] # NoSub => ScopedSub(subs[c])

(* What may be read of a JSON value.                                       *)
LEMMA ReadableType ==
  ASSUME NEW v \in Value, NEW perm
  PROVE  filterReadableValue(v, perm) \in Value
<1>1. PICK S \in SUBSET Leaf : v \in [S -> Val] BY DEF Value
<1> DEFINE P == {l \in S : Field[l] \in perm.readFields}
<1>2. P \in SUBSET Leaf OBVIOUS
<1>3. Restrict(v, P) \in [P -> Val] BY <1>1 DEF Restrict
<1>4. filterReadableValue(v, perm) \in {v, Restrict(v, P)}
  BY <1>1 DEF filterReadableValue
<1> HIDE DEF P
<1> QED BY <1>2, <1>3, <1>4 DEF Value

(* A row that matches a filter with the clause of the site.                *)
LEMMA FilterScopes ==
  ASSUME NEW ctx, NEW filter, NEW v \in Value, NEW perm,
         matchesFilter(v, applySiteScope(ctx, filter))
  PROVE  Scoped(filterReadableValue(v, perm), ctx)
<1> SUFFICES ASSUME Bound(ctx), "siteId" \in DOMAIN filterReadableValue(v, perm)
             PROVE  filterReadableValue(v, perm)["siteId"] = ctx.site
  BY DEF Scoped
<1>1. PICK S \in SUBSET Leaf : v \in [S -> Val] BY DEF Value
<1> DEFINE x == Clause("siteId", "==", ctx.site)
<1>2. x \in applySiteScope(ctx, filter) BY DEF applySiteScope
<1>3. matchClause(v, x) BY <1>2 DEF matchesFilter
<1>4. x.field = "siteId" /\ x.op = "==" /\ x.value = ctx.site BY DEF Clause
<1> HIDE DEF x
<1>5. v["siteId"] = ctx.site BY <1>3, <1>4 DEF matchClause
<1> DEFINE P == {l \in S : Field[l] \in perm.readFields}
<1>6. filterReadableValue(v, perm) = v \/ filterReadableValue(v, perm) = Restrict(v, P)
  BY <1>1 DEF filterReadableValue
<1>7. "siteId" \in P => Restrict(v, P)["siteId"] = v["siteId"] BY DEF Restrict
<1>8. DOMAIN Restrict(v, P) = P BY DEF Restrict
<1> HIDE DEF P
<1> QED BY <1>5, <1>6, <1>7, <1>8

(* What rows come out of a table.                                          *)
LEMMA RowsAre ==
  ASSUME NEW t \in Sound, NEW perm, NEW ids, NEW filter, NEW from,
         NEW rows, rows = Rows(t, perm, ids, filter, from)
  PROVE  /\ ids # {} => DOMAIN rows = ids
         /\ ids = {} => \A i \in DOMAIN rows :
                          i \in Live(t) /\ matchesFilter(t.docs[i], filter)
         /\ \A i \in DOMAIN rows :
              rows[i] = IF i \in Live(t) THEN filterReadableValue(t.docs[i], perm) ELSE Absent
BY DEF Rows

(* A live document is a JSON value.                                        *)
LEMMA LiveValue ==
  ASSUME NEW t \in Sound, NEW i \in Live(t)
  PROVE  i \in DocId /\ t.docs[i] \in Value
BY GoodFields DEF Live

(* A query with the clause of the site finds rows of the site alone.       *)
LEMMA QueryScoped ==
  ASSUME NEW t \in Sound, NEW perm, NEW ctx, NEW filter, NEW from
  PROVE  ScopedRows(Rows(t, perm, {}, applySiteScope(ctx, filter), from), ctx)
<1> DEFINE full == applySiteScope(ctx, filter)
           none == {}
           rows == Rows(t, perm, none, full, from)
<1> SUFFICES ASSUME NEW i \in DOMAIN rows PROVE Scoped(rows[i], ctx)
  BY DEF ScopedRows
<1>0. none = {} OBVIOUS
<1> HIDE DEF none, full
<1>1. i \in Live(t) /\ matchesFilter(t.docs[i], full) BY <1>0, RowsAre
<1>2. rows[i] = filterReadableValue(t.docs[i], perm) BY <1>1, RowsAre
<1>3. t.docs[i] \in Value BY <1>1, LiveValue
<1> HIDE DEF rows
<1> QED BY <1>1, <1>2, <1>3, FilterScopes DEF full

(* No step brings a row of another site into an answer.                    *)
LEMMA CallsStayScoped ==
  ASSUME Setting, Typed, CallsScoped, [Next]_vars
  PROVE  CallsScoped'
<1> SUFFICES ASSUME NEW c \in Client, call'[c] # NoCall PROVE ScopedCall(call'[c])
  BY DEF CallsScoped, ScopedCall
<1> DEFINE k == call[c]
           u == call'[c]
<1>1. Proceeds(c) BY CallSteps
<1>2. CASE u = k BY <1>2 DEF CallsScoped
<1>3. CASE Fresh(u) BY <1>3 DEF Fresh, ScopedCall
<1>4. CASE k # NoCall /\ Advance(k, u)
  <2>1. CallOk(k) /\ ScopedCall(k) BY <1>4 DEF Typed, CallsTyped, CallsScoped
  <2>2. CASE k.step = "read" /\ HasRead(k, u)
    <3> DEFINE t == store[k.at]
    <3>1. t \in Sound BY <2>1 DEF CallOk, Typed, StoreTyped
    <3>2. /\ u.rows = Rows(t, resolvePermission(k.ctx), k.req.ids,
                           applySiteScope(k.ctx, k.req.filter), k.req.start)
          /\ u.ctx = k.ctx /\ u.req.ids = k.req.ids
      BY <2>2 DEF HasRead
    <3> HIDE DEF t, k, u
    <3>3. k.req.ids = {} => ScopedRows(u.rows, k.ctx) BY <3>1, <3>2, QueryScoped
    <3> QED BY <3>2, <3>3 DEF ScopedCall, u
  <2>3. CASE k.step = "fall" /\ Searches(k, u)
    BY <2>1, <2>3 DEF Searches, ScopedCall
  <2>4. CASE k.step = "ask" /\ HasAsked(k, u)
    <3> DEFINE t == store[k.to]
               rows == Rows(t, resolvePermission(k.ctx), k.req.ids,
                            applySiteScope(k.ctx, k.req.filter), k.req.start)
    <3>1. t \in Sound BY <2>1, <2>4 DEF CallOk, Typed, StoreTyped
    <3>2. u.rows = Merged(k, rows) /\ u.ctx = k.ctx /\ u.req = k.req
      BY <2>4 DEF HasAsked
    <3> HIDE DEF t, k, u
    <3>3. k.req.ids = {} => ScopedRows(rows, k.ctx) BY <3>1, QueryScoped
    <3>4. k.req.ids = {} => Merged(k, rows) = rows BY DEF Merged, Misses
    <3> QED BY <3>2, <3>3, <3>4 DEF ScopedCall, u
  <2>5. CASE u.step \in {"write", "tell", "failed"} \/ (u.step = "done" /\ u.req.op # "get")
    BY <2>5 DEF ScopedCall
  <2> QED BY <1>4, <2>2, <2>3, <2>4, <2>5 DEF Advance
<1> QED BY <1>1, <1>2, <1>3, <1>4 DEF Proceeds

(* No step tells a subscriber of a row of another site.                    *)
LEMMA SubsStayScoped ==
  ASSUME Setting, Typed, SubsScoped, [Next]_vars
  PROVE  SubsScoped'
<1> SUFFICES ASSUME NEW c \in Client, subs'[c] # NoSub PROVE ScopedSub(subs'[c])
  BY DEF SubsScoped, ScopedSub
<1>1. CASE UNCHANGED subs BY <1>1 DEF SubsScoped
<1>2. CASE Subscribes
  <2>1. PICK x \in Client : \E sub : Resubscribes(x, sub) BY <1>2 DEF Subscribes
  <2>2. PICK sub : subs' = [subs EXCEPT ![x] = sub] /\ (sub # NoSub => Begun(sub))
    BY <2>1 DEF Resubscribes
  <2>3. IF c = x THEN subs'[c] = sub ELSE subs'[c] = subs[c]
    BY <2>2 DEF Typed, SubsTyped
  <2>4. CASE c = x
    <3>1. subs'[c] = sub /\ Begun(sub) BY <2>2, <2>3, <2>4
    <3> QED BY <3>1 DEF Begun, ScopedSub, Scoped
  <2> QED BY <2>3, <2>4 DEF SubsScoped
<1>3. ASSUME NEW s \in Service, NEW m, Tell(s, m), Words(m) PROVE ScopedSub(subs'[c])
  <2>1. IF subs[c] # NoSub /\ subs[c].at = s
        THEN Hears(subs[c], m, subs'[c]) ELSE subs'[c] = subs[c]
    BY <1>3, Heard DEF Typed
  <2>2. CASE subs[c] # NoSub /\ subs[c].at = s
    <3> DEFINE sub == subs[c]
               h == subs'[c]
    <3>1. Hears(sub, m, h) BY <2>1, <2>2
    <3>2. SubOk(sub) /\ ScopedSub(sub) BY <2>2 DEF Typed, SubsTyped, SubsScoped
    <3>3. /\ h.ctx = sub.ctx /\ h.filter = sub.filter
          /\ \A i \in DocId :
               h.view[i] = IF i = m.id THEN Told(sub, m.row, sub.view[i]) ELSE sub.view[i]
      BY <3>1 DEF Hears
    <3>4. PICK filter : sub.filter = applySiteScope(sub.ctx, filter) BY <3>2 DEF ScopedSub
    <3> HIDE DEF sub, h
    <3>5. ASSUME NEW i \in DocId PROVE Scoped(h.view[i], sub.ctx)
      <4>1. CASE i = m.id /\ m.row # Dead /\ matchesFilter(m.row, sub.filter)
        <5>1. m.row \in Value BY <1>3, <4>1 DEF Words
        <5>2. h.view[i] = filterReadableValue(m.row, sub.perm)
          BY <3>3, <4>1 DEF Told
        <5>3. matchesFilter(m.row, applySiteScope(sub.ctx, filter)) BY <3>4, <4>1
        <5> QED BY <5>1, <5>2, <5>3, FilterScopes
      <4>2. CASE ~(i = m.id /\ m.row # Dead /\ matchesFilter(m.row, sub.filter))
        <5>1. h.view[i] \in {Absent, sub.view[i]} BY <3>3, <4>2 DEF Told
        <5> QED BY <3>2, <5>1 DEF ScopedSub, Scoped
      <4> QED BY <4>1, <4>2
    <3>6. ScopedSub(h) BY <3>3, <3>4, <3>5 DEF ScopedSub
    <3> QED BY <3>6 DEF h
  <2>3. CASE ~(subs[c] # NoSub /\ subs[c].at = s) BY <2>1, <2>3 DEF SubsScoped
  <2> QED BY <2>2, <2>3
<1> QED BY <1>1, <1>2, <1>3, SubsMove

(* netab_service.ts, applySiteScope: a query or a subscription of a client *)
(* that is bound to a site yields rows of that site alone, whichever       *)
(* cluster answers.                                                        *)
THEOREM SitesAreApart ==
  ASSUME Setting
  PROVE  Spec => []InScope
<1> DEFINE Inv == Typed /\ CallsScoped /\ SubsScoped
<1>1. Init => Inv
  <2>1. Init => CallsScoped /\ SubsScoped BY DEF Init, CallsScoped, SubsScoped
  <2> QED BY <2>1, TypedInit
<1>2. Inv /\ [Next]_vars => Inv'
  BY TypedStays, CallsStayScoped, SubsStayScoped
<1>3. Inv => InScope
  BY DEF InScope, Answered, In, CallsScoped, SubsScoped, ScopedCall, ScopedSub, ScopedRows,
         Scoped
<1> HIDE DEF Inv
<1> QED BY <1>1, <1>2, <1>3, PTL DEF Spec

-----------------------------------------------------------------------------
(* Who writes.                                                             *)

(* Services of a cluster that is not primary start with logs of one        *)
(* length, as replication leaves them.                                     *)
InStepAtStart ==
  \A s, l \in Service :
    clusterId[s] = clusterId[l] /\ Outside(s)
      => Len(StoresAtStart[s].ops) = Len(StoresAtStart[l].ops)

(* What was added to the log of s since the start are deletions.           *)
OnlyDeletes(s) ==
  /\ Len(StoresAtStart[s].ops) <= Len(store[s].ops)
  /\ \A n \in 1..Len(store[s].ops) :
       n > Len(StoresAtStart[s].ops) => store[s].ops[n].op_type = "DELETE"

OutsideDeletes == \A s \in Service : Outside(s) => OnlyDeletes(s)

(* No step logs a write outside the primary clusters.                      *)
LEMMA OutsideStays ==
  ASSUME Setting, InStepAtStart, Typed, OutsideDeletes, [Next]_vars
  PROVE  OutsideDeletes'
<1> SUFFICES ASSUME NEW s \in Service, Outside(s) PROVE OnlyDeletes(s)'
  BY DEF OutsideDeletes, Outside
<1>1. CASE UNCHANGED store BY <1>1 DEF OutsideDeletes, OnlyDeletes
<1>2. CASE Changes
  <2>1. PICK x \in Service, t \in Sound : \E ids : Change(x, t, ids) BY <1>2 DEF Changes
  <2>2. PICK ids : Change(x, t, ids) BY <2>1
  <2>3. store'[x] = t /\ \A y \in Service : y # x => store'[y] = store[y]
    BY <2>2, ChangeStore DEF Typed
  <2>4. CASE s # x BY <2>3, <2>4 DEF OutsideDeletes, OnlyDeletes
  <2>5. CASE s = x
    <3> DEFINE a == StoresAtStart[s].ops
               b == store[s].ops
               d == t.ops
    <3>1. /\ Turned(store[s], t, ids)
          /\ \/ Deletes(store[s], t)
             \/ \E l \in Members(clusterId[s]) : Copies(store[s], store[l], t)
      BY <2>2, <2>5 DEF Change, Alter
    <3>2. store[s] \in Sound /\ StoresAtStart[s] \in Sound
      BY DEF Typed, StoreTyped, Setting
    <3>3. Len(a) \in Nat /\ Len(b) \in Nat /\ Len(d) \in Nat
      BY <3>2, GoodFields
    <3>4. /\ Len(a) <= Len(b)
          /\ \A n \in 1..Len(b) : n > Len(a) => b[n].op_type = "DELETE"
      BY DEF OutsideDeletes, OnlyDeletes
    <3>5. Len(b) <= Len(d) /\ \A n \in 1..Len(b) : d[n] = b[n] BY <3>1 DEF Turned
    <3>6. \A n \in 1..Len(d) : n > Len(b) => d[n].op_type = "DELETE"
      <4>1. CASE Deletes(store[s], t) BY <4>1 DEF Deletes
      <4>2. ASSUME NEW l \in Members(clusterId[s]), Copies(store[s], store[l], t)
            PROVE  \A n \in 1..Len(d) : n > Len(b) => d[n].op_type = "DELETE"
        <5> DEFINE e == store[l].ops
        <5>1. l \in Service /\ clusterId[l] = clusterId[s] /\ Outside(l)
          BY DEF Members, Outside
        <5>2. Len(StoresAtStart[l].ops) = Len(a) BY <5>1 DEF InStepAtStart
        <5>3. \A n \in 1..Len(e) : n > Len(a) => e[n].op_type = "DELETE"
          BY <5>1, <5>2 DEF OutsideDeletes, OnlyDeletes
        <5>4. \A n \in 1..Len(d) : n > Len(b) => n \in 1..Len(e) /\ d[n] = e[n]
          BY <4>2 DEF Copies
        <5> HIDE DEF a, b, d, e
        <5> QED BY <3>3, <3>4, <5>3, <5>4
      <4> QED BY <3>1, <4>1, <4>2
    <3>7. Len(a) <= Len(d) /\ \A n \in 1..Len(d) : n > Len(a) => d[n].op_type = "DELETE"
      <4> HIDE DEF a, b, d
      <4>1. Len(a) <= Len(d) BY <3>3, <3>4, <3>5
      <4>2. ASSUME NEW n \in 1..Len(d), n > Len(a) PROVE d[n].op_type = "DELETE"
        <5>1. CASE n > Len(b) BY <3>6, <5>1
        <5>2. CASE n \in 1..Len(b) BY <3>4, <3>5, <4>2, <5>2
        <5> QED BY <3>3, <5>1, <5>2
      <4> QED BY <4>1, <4>2
    <3> QED BY <2>3, <2>5, <3>7 DEF OnlyDeletes
  <2> QED BY <2>4, <2>5
<1> QED BY <1>1, <1>2, TableSteps DEF Subscribes, Tells

(* netab_service.ts, routeWrite: whatever service a client calls, outside  *)
(* the clusters that are primary for the table only retention adds to a    *)
(* log, and replication what retention added elsewhere in the cluster.     *)
THEOREM WritesStayAtThePrimary ==
  ASSUME Setting, InStepAtStart
  PROVE  Spec => []OnlyPrimaryWrites
<1>1. Init => Typed /\ OutsideDeletes
  <2> SUFFICES ASSUME Init, NEW s \in Service PROVE OnlyDeletes(s)
    BY TypedInit DEF OutsideDeletes
  <2> DEFINE a == StoresAtStart[s].ops
  <2>1. store[s].ops = a BY DEF Init
  <2>2. a \in Seq(Entry) BY GoodFields DEF Setting
  <2>3. Len(a) \in Nat BY <2>2
  <2> HIDE DEF a
  <2>4. Len(a) <= Len(a) /\ \A n \in 1..Len(a) : ~(n > Len(a)) BY <2>3
  <2> QED BY <2>1, <2>4 DEF OnlyDeletes, a
<1>2. Typed /\ OutsideDeletes /\ [Next]_vars => Typed' /\ OutsideDeletes'
  BY TypedStays, OutsideStays
<1>3. Typed /\ OutsideDeletes => OnlyPrimaryWrites
  <2> SUFFICES ASSUME Typed, OutsideDeletes, NEW s \in Service, Outside(s),
                      NEW n \in DOMAIN store[s].ops, n > Len(StoresAtStart[s].ops)
               PROVE  store[s].ops[n].op_type = "DELETE"
    BY DEF OnlyPrimaryWrites, Outside
  <2>1. store[s].ops \in Seq(Entry) BY GoodFields DEF Typed, StoreTyped
  <2>2. n \in 1..Len(store[s].ops) BY <2>1
  <2> QED BY <2>2 DEF OutsideDeletes, OnlyDeletes
<1> QED BY <1>1, <1>2, <1>3, PTL DEF Spec

-----------------------------------------------------------------------------
(* What a service holds by right and what it answers.                      *)

(* The watermarks that may come.                                           *)
Marks(cutoffs) == {StoresAtStart[s].watermark : s \in Service} \cup cutoffs

(* A read by time ends before a point, or at one where retention never     *)
(* ends, and asks for no ids.                                              *)
Windowed(req, marks) ==
  \A x \in req.filter :
    x.field = timeField /\ x.op \in {"<", "<=", "between"} =>
      /\ req.ids = {}
      /\ IF x.op = "between" THEN x.value[2] \in Nat ELSE x.value \in Nat
      /\ x.op = "<=" => x.value \notin marks

WindowedMenu(b) == \A r \in b.asks : r.op = "get" => Windowed(r, Marks(b.cutoffs))

WindowsFit == \A b \in Budgets : WindowedMenu(b)

MarksKnown == \A s \in Service : store[s].watermark \in Marks(budget.cutoffs)

ThenFallback == "local_then_fallback"

(* A read that falls back has kept nothing, or asks for what it misses by  *)
(* their ids.                                                              *)
KeptCall(k, cutoffs) ==
  /\ k.step = "read" => Windowed(k.req, Marks(cutoffs))
  /\ k.req.op = "get" /\ k.req.mode = ThenFallback =>
       /\ k.step \in {"fall", "ask"} =>
            \/ k.kept = {}
            \/ /\ k.rows = k.own /\ Misses(k) /\ DOMAIN k.own = k.req.ids
               /\ \A i \in k.kept : i \in DOMAIN k.own /\ k.own[i] # Absent
       /\ k.step = "done" => \A i \in k.kept : i \in DOMAIN k.rows /\ k.rows[i] = k.own[i]

CallsKept == \A c \in Client : call[c] # NoCall => KeptCall(call[c], budget.cutoffs)

(* A row that matches a window which lies before the watermark is older    *)
(* than the watermark.                                                     *)
LEMMA OldWindowKeepsNone ==
  ASSUME NEW t \in Sound, NEW ctx, NEW req, NEW marks, Windowed(req, marks),
         NEW perm, NEW from, NEW rows,
         rows = Rows(t, perm, req.ids, applySiteScope(ctx, req.filter), from),
         OldWindow(applySiteScope(ctx, req.filter), t.watermark),
         t.watermark \in marks
  PROVE  req.ids = {} /\ KeptOf(t, rows) = {}
<1> DEFINE filter == applySiteScope(ctx, req.filter)
           m == t.watermark
<1>1. m \in Nat BY GoodFields
<1>2. PICK ub \in extractUpperBound(filter) : ub <= m BY DEF OldWindow
<1>3. PICK x \in filter : /\ x.field = timeField /\ x.op \in {"<", "<=", "between"}
                          /\ ub = IF x.op = "between" THEN x.value[2] ELSE x.value
  BY <1>2 DEF extractUpperBound
<1>4. x \in req.filter
  <2>1. CASE x = Clause("siteId", "==", ctx.site) BY <1>3, <2>1 DEF Clause
  <2> QED BY <1>3, <2>1 DEF applySiteScope
<1>5. /\ req.ids = {} /\ ub \in Nat /\ (x.op = "<=" => ub # m)
  BY <1>3, <1>4 DEF Windowed
<1> HIDE DEF filter, m
<1>6. ASSUME NEW i \in KeptOf(t, rows) PROVE FALSE
  <2> DEFINE v == t.docs[i]
  <2>1. i \in DOMAIN rows /\ i \in Live(t)
        /\ (timeField \notin DOMAIN v \/ v[timeField] >= m)
    BY <1>6 DEF KeptOf, m
  <2>2. matchesFilter(v, filter) BY <1>5, <2>1, RowsAre DEF filter
  <2>3. matchClause(v, x) BY <1>3, <2>2 DEF matchesFilter
  <2>4. v \in Value BY <2>1, LiveValue
  <2> HIDE DEF v
  <2>5. PICK S \in SUBSET Leaf : v \in [S -> Val] BY <2>4 DEF Value
  <2>6. timeField \in DOMAIN v BY <1>3, <2>3 DEF matchClause
  <2> DEFINE a == v[timeField]
  <2>7. a \in Nat /\ a >= m BY <2>1, <2>5, <2>6, NetabServiceAssumption
  <2>8. CASE x.op = "<"
    <3>1. a < ub BY <1>3, <2>3, <2>8 DEF matchClause
    <3> HIDE DEF a
    <3> QED BY <1>1, <1>2, <1>5, <2>7, <3>1
  <2>9. CASE x.op = "<="
    <3>1. a <= ub BY <1>3, <2>3, <2>9 DEF matchClause
    <3> HIDE DEF a
    <3> QED BY <1>1, <1>2, <1>5, <2>7, <2>9, <3>1
  <2>10. CASE x.op = "between"
    <3>1. a < ub BY <1>3, <2>3, <2>10 DEF matchClause
    <3> HIDE DEF a
    <3> QED BY <1>1, <1>2, <1>5, <2>7, <3>1
  <2> QED BY <1>3, <2>8, <2>9, <2>10
<1> QED BY <1>5, <1>6

(* A read that falls back has kept nothing, or asks for what it misses.    *)
LEMMA ReadKeeps ==
  ASSUME Typed, MarksKnown, NEW k, CallOk(k), k.step = "read",
         KeptCall(k, budget.cutoffs), NEW u, HasRead(k, u)
  PROVE  KeptCall(u, budget.cutoffs)
<1> DEFINE t == store[k.at]
           perm == resolvePermission(k.ctx)
           filter == applySiteScope(k.ctx, k.req.filter)
           rows == Rows(t, perm, k.req.ids, filter, k.req.start)
           marks == Marks(budget.cutoffs)
<1>1. t \in Sound /\ t.watermark \in marks BY DEF CallOk, Typed, StoreTyped, MarksKnown
<1>2. Windowed(k.req, marks) BY DEF KeptCall
<1>3. /\ u.req.op = k.req.op /\ u.req.ids = k.req.ids /\ u.req.mode = k.req.mode
      /\ u.rows = rows /\ u.own = rows /\ u.kept = KeptOf(t, rows)
      /\ u.step \in {"fall", "done"}
      /\ u.step = "fall" => FallsBack(u, filter, t.watermark)
  BY DEF HasRead
<1>4. rows = Rows(t, perm, k.req.ids, applySiteScope(k.ctx, k.req.filter), k.req.start)
  OBVIOUS
<1>5. /\ k.req.ids # {} => DOMAIN rows = k.req.ids
      /\ \A i \in DOMAIN rows :
           rows[i] = IF i \in Live(t) THEN filterReadableValue(t.docs[i], perm) ELSE Absent
  BY <1>1, RowsAre
<1> HIDE DEF t, perm, filter, rows, marks
<1>6. ASSUME NEW i \in KeptOf(t, rows) PROVE i \in DOMAIN rows /\ rows[i] # Absent
  <2>1. i \in DOMAIN rows /\ i \in Live(t) BY DEF KeptOf
  <2>2. filterReadableValue(t.docs[i], perm) \in Value
    BY <1>1, <2>1, LiveValue, ReadableType
  <2> QED BY <1>5, <2>1, <2>2, StengAssumption
<1>7. CASE u.step = "done" BY <1>3, <1>6, <1>7 DEF KeptCall
<1>8. CASE u.step = "fall" /\ u.req.mode = ThenFallback
  <2>1. FallsBack(u, filter, t.watermark) BY <1>3, <1>8
  <2>2. CASE Misses(u)
    <3>1. DOMAIN rows = k.req.ids BY <1>3, <1>5, <2>2 DEF Misses
    <3> QED BY <1>3, <1>6, <1>8, <2>2, <3>1 DEF KeptCall
  <2>3. CASE u.rows = <<>>
    <3>1. DOMAIN rows = {} BY <1>3, <2>3
    <3>2. KeptOf(t, rows) = {} BY <1>6, <3>1
    <3> QED BY <1>3, <1>8, <3>2 DEF KeptCall
  <2>4. CASE OldWindow(filter, t.watermark)
    <3>1. KeptOf(t, rows) = {} BY <1>1, <1>2, <1>4, <2>4, OldWindowKeepsNone DEF filter
    <3> QED BY <1>3, <1>8, <3>1 DEF KeptCall
  <2> QED BY <1>8, <2>1, <2>2, <2>3, <2>4 DEF FallsBack, ThenFallback
<1>9. CASE u.step = "fall" /\ u.req.mode # ThenFallback BY <1>9 DEF KeptCall
<1> QED BY <1>3, <1>7, <1>8, <1>9

(* The answer of the other cluster replaces nothing that was kept.         *)
LEMMA AskKeeps ==
  ASSUME Typed, NEW k, CallOk(k), k.step = "ask",
         KeptCall(k, budget.cutoffs), NEW u, HasAsked(k, u)
  PROVE  KeptCall(u, budget.cutoffs)
<1> DEFINE t == store[k.to]
           perm == resolvePermission(k.ctx)
           filter == applySiteScope(k.ctx, k.req.filter)
           rows == Rows(t, perm, k.req.ids, filter, k.req.start)
<1>1. t \in Sound BY DEF CallOk, Typed, StoreTyped
<1>2. /\ u.step = "done" /\ u.rows = Merged(k, rows)
      /\ u.req = k.req /\ u.own = k.own /\ u.kept = k.kept
  BY DEF HasAsked
<1>3. k.req.ids # {} => DOMAIN rows = k.req.ids BY <1>1, RowsAre
<1> HIDE DEF rows
<1> SUFFICES ASSUME k.req.op = "get", k.req.mode = ThenFallback, NEW i \in k.kept
             PROVE  i \in DOMAIN u.rows /\ u.rows[i] = k.own[i]
  BY <1>2 DEF KeptCall
<1>4. /\ k.rows = k.own /\ Misses(k) /\ DOMAIN k.own = k.req.ids
      /\ i \in DOMAIN k.own /\ k.own[i] # Absent
  BY DEF KeptCall
<1>5. k.req.ids # {} BY <1>4 DEF Misses
<1>6. Merged(k, rows) = [j \in DOMAIN rows |-> IF k.rows[j] # Absent THEN k.rows[j] ELSE rows[j]]
  BY <1>4 DEF Merged, ThenFallback
<1> QED BY <1>2, <1>3, <1>4, <1>5, <1>6

(* No step hides what was kept.                                            *)
LEMMA KeptStays ==
  ASSUME Setting, Typed, MarksKnown, WindowedMenu(budget), CallsKept, [Next]_vars
  PROVE  MarksKnown' /\ WindowedMenu(budget)' /\ CallsKept'
<1>1. budget'.asks = budget.asks /\ budget'.cutoffs = budget.cutoffs
  BY MenuStays DEF Typed, SameMenu
<1>2. WindowedMenu(budget)' BY <1>1 DEF WindowedMenu
<1>3. MarksKnown'
  <2>1. CASE UNCHANGED store BY <1>1, <2>1 DEF MarksKnown
  <2>2. CASE Changes
    <3>1. PICK s \in Service, t \in Sound : \E ids : Change(s, t, ids) BY <2>2 DEF Changes
    <3>2. PICK ids : Change(s, t, ids) BY <3>1
    <3>3. store'[s] = t /\ \A x \in Service : x # s => store'[x] = store[x]
      BY <3>2, ChangeStore DEF Typed
    <3>4. t.watermark \in Marks(budget.cutoffs) BY <3>2 DEF Change, Alter, MarksKnown, Marks
    <3> QED BY <1>1, <3>3, <3>4 DEF MarksKnown
  <2> QED BY <2>1, <2>2, TableSteps DEF Subscribes, Tells
<1>4. CallsKept'
  <2> SUFFICES ASSUME NEW c \in Client, call'[c] # NoCall
               PROVE  KeptCall(call'[c], budget.cutoffs)
    BY <1>1 DEF CallsKept
  <2> DEFINE k == call[c]
             u == call'[c]
  <2>1. Proceeds(c) BY CallSteps
  <2>2. CASE u = k BY <2>2 DEF CallsKept
  <2>3. CASE CallOk(u) /\ Fresh(u)
    <3>1. u.step = "read" => Windowed(u.req, Marks(budget.cutoffs))
      BY <2>3 DEF Fresh, WindowedMenu, CallOk
    <3> QED BY <2>3, <3>1 DEF Fresh, KeptCall
  <2>4. CASE k # NoCall /\ Advance(k, u)
    <3>1. CallOk(k) /\ KeptCall(k, budget.cutoffs) BY <2>4 DEF Typed, CallsTyped, CallsKept
    <3>2. CASE k.step = "read" /\ HasRead(k, u) BY <3>1, <3>2, ReadKeeps
    <3>3. CASE k.step = "fall" /\ Searches(k, u)
      <4>1. Misses(u) <=> Misses(k) BY <3>3 DEF Searches, Misses
      <4> HIDE DEF k, u
      <4>2. KeptCall(u, budget.cutoffs) BY <3>1, <3>3, <4>1 DEF Searches, KeptCall
      <4> QED BY <4>2 DEF u
    <3>4. CASE k.step = "ask" /\ HasAsked(k, u) BY <3>1, <3>4, AskKeeps
    <3>5. CASE u.step \in {"write", "tell", "failed"} \/ (u.step = "done" /\ u.req.op # "get")
      BY <3>5 DEF KeptCall
    <3> QED BY <2>4, <3>2, <3>3, <3>4, <3>5 DEF Advance
  <2> QED BY <2>1, <2>2, <2>3, <2>4 DEF Proceeds
<1> QED BY <1>2, <1>3, <1>4

(* netab_service.ts, maybeFallbackRead: a read that goes on to another     *)
(* cluster hides no row that its own store holds and that retention has    *)
(* not passed over, where no window ends exactly at a watermark and none   *)
(* comes with ids.                                                         *)
THEOREM NothingKeptIsHidden ==
  ASSUME Setting, WindowsFit
  PROVE  Spec => []KeptRowsAreServed
<1> DEFINE Inv == Typed /\ MarksKnown /\ WindowedMenu(budget) /\ CallsKept
<1>1. Init => Inv
  <2>1. Init => MarksKnown BY DEF Init, MarksKnown, Marks
  <2>2. Init => WindowedMenu(budget) BY DEF Init, WindowsFit
  <2>3. Init => CallsKept BY DEF Init, CallsKept
  <2> QED BY <2>1, <2>2, <2>3, TypedInit
<1>2. Inv /\ [Next]_vars => Inv'
  BY TypedStays, KeptStays
<1>3. Inv => KeptRowsAreServed
  BY DEF KeptRowsAreServed, Answered, In, CallsKept, KeptCall, ThenFallback
<1> HIDE DEF Inv
<1> QED BY <1>1, <1>2, <1>3, PTL DEF Spec
=============================================================================
