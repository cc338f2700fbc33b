------------------------------ MODULE MCSqlSteng ------------------------------
(* Calls of one and of two rows on a table of two documents.               *)
EXTENDS SqlSteng

CONSTANTS d1, d2, b1, c1, x, y

MCField == (x :> "f") @@ (y :> "g")
MCDocTime == (d1 :> 1) @@ (d2 :> 2)

X1 == x :> 1
Y1 == y :> 1

Add(d) == Row("add", d, X1, "none")
Update(d) == Row("update", d, Y1, "deep")
Replace(d) == Row("replace", d, Y1, "none")
Delete(d) == Row("delete", d, Absent, "none")
BlobAdd == Row("blob_add", b1, c1, "none")
BlobDel == Row("blob_del", b1, Absent, "none")
Doc(d, v, mode) == Row("doc", d, v, mode)
Op(n, type, id, v) ==
  Row("apply", id, [op_seq |-> n, op_type |-> type, id |-> id, payload |-> v], "none")

Latest == Row("latest", Absent, Absent, "none")

Writes == {<<Add(d1)>>, <<Add(d2), BlobAdd>>, <<Update(d1), Update(d2)>>,
           <<Update(d2), Update(d1)>>, <<Replace(d1)>>, <<Delete(d1), Delete(d2)>>,
           <<BlobDel>>}

Applies == {<<Latest, Op(1, "ADD", d1, X1), Op(2, "UPDATE", d1, Y1)>>,
            <<Latest, Op(2, "UPDATE", d1, Y1), Op(3, "DELETE", d1, Absent),
              Op(4, "BLOB_ADD", b1, c1), Op(5, "BLOB_DEL", b1, Absent)>>}

Merges == {<<Row("config", Absent, {"f", "g"}, "rebuild"), Doc(d1, X1, mode),
             Doc(d2, Dead, mode), Row("blob", b1, c1, mode),
             Row("merge", Absent, 1, "none")>> : mode \in {"error", "skip", "replace"}}

Restores == {<<Row("clear", Absent, Absent, "none"),
               Row("config", Absent, {"f", "g"}, "none"), Doc(d1, Y1, "replace"),
               Row("restore", Absent, 1, "none")>>}

(* A document matches the last one while it has no y.                      *)
MCFilters == {{}, {Clause(x, "==", 1), Clause(y, "in", {1})},
              {Clause(x, "==", 1), Clause(y, "!=", 1)}}

MCRestores == "sqlite" :> Restores
MCNoIndexes == "sqlite" :> {}

MCNewIndexes == ("sqlite" :> {"h"}) @@ ("postgres" :> {})

MCCalls == ("sqlite" :> Writes \cup Applies \cup Merges \cup Restores)
           @@ ("postgres" :> Writes \cup Applies)
=============================================================================
