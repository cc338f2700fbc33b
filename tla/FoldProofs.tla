----------------------------- MODULE FoldProofs -----------------------------
(* Folds from the left, for any operator Op: what they give for the empty  *)
(* sequence and for one more element, and what they keep. The library      *)
(* defines a fold by a recursive function, which the provers see as a      *)
(* CHOOSE; that the function exists is shown here by induction on the      *)
(* length of the sequence, and the induction rests on the least element    *)
(* of a set of naturals. Other modules instance this one with the          *)
(* operator they fold.                                                     *)
EXTENDS SequencesExt, FiniteSetTheorems, TLAPS
CONSTANT Op(_, _)

Fold(base, seq) == FoldLeft(Op, base, seq)

(* A set of naturals that is not empty has a least element.                *)
LEMMA LeastNatural ==
  ASSUME NEW S, S \subseteq Nat, S # {}
  PROVE  \E n \in S : \A m \in S : n <= m
<1>1. PICK k \in S : TRUE
  OBVIOUS
<1> DEFINE R == StrictSubsetOrdering(Nat)
           T == {0..m : m \in S}
<1>2. T \subseteq FiniteSubsetsOf(Nat) /\ T # {}
  <2>1. \A m \in S : 0..m \subseteq Nat /\ IsFiniteSet(0..m)
    BY FS_Interval
  <2> QED BY <2>1, <1>1 DEF FiniteSubsetsOf
<1>3. PICK x \in T : \A y \in T : ~(<<y, x>> \in R)
  <2>1. IsWellFoundedOn(R, FiniteSubsetsOf(Nat))
    BY FS_StrictSubsetOrderingWellFounded
  <2> HIDE DEF R, T
  <2> QED BY <2>1, <1>2, WFMin
<1>4. PICK n \in S : x = 0..n
  OBVIOUS
<1>5. ASSUME NEW m \in S, m < n PROVE FALSE
  <2>1. 0..m \in T
    OBVIOUS
  <2>2. (0..m) \subseteq (0..n) /\ (0..m) # (0..n)
    <3>1. m \in Nat /\ n \in Nat
      OBVIOUS
    <3>2. n \in 0..n /\ n \notin 0..m
      BY <3>1, <1>5
    <3> QED BY <3>1, <3>2, <1>5
  <2>3. <<0..m, 0..n>> \in R
    BY <2>2 DEF StrictSubsetOrdering
  <2> QED BY <2>1, <2>3, <1>3, <1>4
<1> QED
  BY <1>5

(* Induction over the naturals, for a set: the library has it for an       *)
(* operator only, which the provers cannot instantiate.                    *)
LEMMA SetInduction ==
  ASSUME NEW S, 0 \in S, \A n \in Nat : n \in S => n + 1 \in S
  PROVE  Nat \subseteq S
<1> SUFFICES ASSUME NEW k \in Nat, k \notin S PROVE FALSE
  OBVIOUS
<1> DEFINE T == Nat \ S
<1>1. PICK n \in T : \A m \in T : n <= m
  <2>1. T \subseteq Nat /\ T # {} OBVIOUS
  <2> HIDE DEF T
  <2> QED BY <2>1, LeastNatural
<1>2. n # 0 /\ n - 1 \in Nat OBVIOUS
<1>3. n - 1 \in S BY <1>1, <1>2
<1> QED BY <1>2, <1>3


(* The recursive function that the fold of the library is made of.         *)
IsFold(n, base, seq, it) ==
  it = [s \in SUBSET (1..n) |->
          IF s = {} THEN base ELSE Op(it[s \ {Max(s)}], seq[Max(s)])]

(* The largest element of a set of indices that holds the last one.        *)
LEMMA MaxOfInterval ==
  ASSUME NEW n \in Nat, NEW s \in SUBSET (1..(n + 1)), n + 1 \in s
  PROVE  Max(s) = n + 1
<1>1. \A y \in s : y \in Int /\ n + 1 >= y OBVIOUS
<1>2. \E x \in s : \A y \in s : x >= y BY <1>1
<1> DEFINE m == Max(s)
<1>3. m \in s /\ \A y \in s : m >= y
  BY <1>2, Zenon DEF Max
<1> HIDE DEF m
<1>4. m \in Int /\ n + 1 >= m /\ m >= n + 1 BY <1>1, <1>3
<1>5. m = n + 1 BY <1>4
<1> QED BY <1>5 DEF m

(* The recursive function exists, for sequences of any length.             *)
LEMMA FoldExists ==
  ASSUME NEW base, NEW seq, NEW k \in Nat
  PROVE  \E it : IsFold(k, base, seq, it)
<1> DEFINE S == {n \in Nat : \E it : IsFold(n, base, seq, it)}
<1>1. 0 \in S
  <2> DEFINE it == [s \in SUBSET (1..0) |-> base]
  <2>1. it = [s \in SUBSET (1..0) |->
          IF s = {} THEN base ELSE Op(it[s \ {Max(s)}], seq[Max(s)])]
    <3>1. \A s \in SUBSET (1..0) : s = {} OBVIOUS
    <3> QED BY <3>1
  <2> QED BY <2>1 DEF IsFold
<1>2. ASSUME NEW n \in Nat, n \in S PROVE n + 1 \in S
  <2>1. PICK f : IsFold(n, base, seq, f) BY <1>2
  <2> DEFINE g == [s \in SUBSET (1..(n + 1)) |->
               IF n + 1 \in s THEN Op(f[s \ {n + 1}], seq[n + 1]) ELSE f[s]]
  <2>2. ASSUME NEW s \in SUBSET (1..(n + 1))
        PROVE  g[s] = IF s = {} THEN base
                      ELSE Op(g[s \ {Max(s)}], seq[Max(s)])
    <3>1. CASE n + 1 \in s
      <4>1. Max(s) = n + 1 BY <3>1, MaxOfInterval
      <4>2. s \ {n + 1} \in SUBSET (1..(n + 1)) /\ n + 1 \notin s \ {n + 1}
        OBVIOUS
      <4>3. g[s \ {n + 1}] = f[s \ {n + 1}] BY <4>2
      <4> QED BY <3>1, <4>1, <4>3
    <3>2. CASE n + 1 \notin s
      <4>1. s \in SUBSET (1..n) BY <3>2
      <4>2. f[s] = IF s = {} THEN base
                   ELSE Op(f[s \ {Max(s)}], seq[Max(s)])
        BY <2>1, <4>1 DEF IsFold
      <4>3. s \ {Max(s)} \in SUBSET (1..(n + 1)) /\ n + 1 \notin s \ {Max(s)}
        BY <3>2
      <4>4. g[s \ {Max(s)}] = f[s \ {Max(s)}] BY <4>3
      <4> QED BY <3>2, <4>2, <4>4
    <3> QED BY <3>1, <3>2
  <2>3. g = [s \in SUBSET (1..(n + 1)) |->
          IF s = {} THEN base ELSE Op(g[s \ {Max(s)}], seq[Max(s)])]
    <3> DEFINE h == [s \in SUBSET (1..(n + 1)) |->
                 IF s = {} THEN base ELSE Op(g[s \ {Max(s)}], seq[Max(s)])]
    <3>1. \A s \in SUBSET (1..(n + 1)) : g[s] = h[s] BY <2>2
    <3> QED BY <3>1
  <2>4. IsFold(n + 1, base, seq, g) BY <2>3 DEF IsFold
  <2> QED BY <2>4
<1>3. Nat \subseteq S
  <2> HIDE DEF S
  <2> QED BY <1>1, <1>2, SetInduction
<1> QED BY <1>3

(* A fold is the value of that function at all the indices.                *)
LEMMA FoldIsFold ==
  ASSUME NEW base, NEW seq, NEW n \in Nat, DOMAIN seq = 1..n
  PROVE  \E it : IsFold(n, base, seq, it) /\ Fold(base, seq) = it[1..n]
<1> DEFINE it == CHOOSE f : IsFold(n, base, seq, f)
<1>1. IsFold(n, base, seq, it) BY FoldExists
<1>2. Fold(base, seq) = (CHOOSE f : f = [s \in SUBSET (DOMAIN seq) |->
          IF s = {} THEN base ELSE Op(f[s \ {Max(s)}], seq[Max(s)])])[DOMAIN seq]
  BY DEF Fold, FoldLeft, MapThenFoldSet
<1>3. Fold(base, seq) = it[1..n] BY <1>2 DEF IsFold
<1> QED BY <1>1, <1>3

(* Each value of that function is made of the one before.                  *)
LEMMA FoldStep ==
  ASSUME NEW base, NEW seq, NEW n \in Nat, NEW it, IsFold(n, base, seq, it)
  PROVE  \A i \in Nat : i < n => it[1..(i + 1)] = Op(it[1..i], seq[i + 1])
<1> SUFFICES ASSUME NEW i \in Nat, i < n
             PROVE  it[1..(i + 1)] = Op(it[1..i], seq[i + 1])
  OBVIOUS
<1> DEFINE s == 1..(i + 1)
<1>1. s \in SUBSET (1..n) /\ s # {} /\ i + 1 \in s OBVIOUS
<1>2. Max(s) = i + 1
  BY <1>1, MaxOfInterval
<1>3. s \ {i + 1} = 1..i OBVIOUS
<1>4. it[s] = Op(it[s \ {Max(s)}], seq[Max(s)])
  <2> HIDE DEF s
  <2> QED BY <1>1 DEF IsFold
<1> QED BY <1>2, <1>3, <1>4

(* A fold is the last of the values that begin with the base and take in   *)
(* one element after the other, as the loop in the code does.              *)
LEMMA FoldTrace ==
  ASSUME NEW base, NEW S, NEW seq \in Seq(S)
  PROVE  \E f : /\ f[0] = base
                /\ \A i \in Nat : i < Len(seq) => f[i + 1] = Op(f[i], seq[i + 1])
                /\ Fold(base, seq) = f[Len(seq)]
<1> DEFINE n == Len(seq)
<1>1. n \in Nat /\ DOMAIN seq = 1..n OBVIOUS
<1>2. PICK it : IsFold(n, base, seq, it) /\ Fold(base, seq) = it[1..n]
  BY <1>1, FoldIsFold
<1> HIDE DEF n
<1> DEFINE f == [i \in Nat |-> it[1..i]]
<1>3. f[0] = base
  <2>1. it[{}] = base BY <1>2 DEF IsFold
  <2>2. f[0] = it[1..0] /\ 1..0 = {} OBVIOUS
  <2> QED BY <2>1, <2>2
<1>4. ASSUME NEW i \in Nat, i < n PROVE f[i + 1] = Op(f[i], seq[i + 1])
  <2>1. it[1..(i + 1)] = Op(it[1..i], seq[i + 1]) BY <1>1, <1>2, <1>4, FoldStep
  <2> QED BY <2>1
<1>5. Fold(base, seq) = f[n] BY <1>1, <1>2
<1> HIDE DEF f
<1> QED BY <1>3, <1>4, <1>5 DEF n

(* A loop over nothing leaves what it began with.                          *)
THEOREM FoldEmpty ==
  ASSUME NEW base PROVE Fold(base, <<>>) = base
<1>1. <<>> \in Seq({}) /\ Len(<<>>) = 0 OBVIOUS
<1>2. \A s \in Seq({}) : \E f : f[0] = base /\ Fold(base, s) = f[Len(s)]
  BY FoldTrace
<1> QED BY <1>1, <1>2

(* One more element at the end is one more turn of the loop.               *)
THEOREM FoldAppend ==
  ASSUME NEW base, NEW S, NEW seq \in Seq(S), NEW e \in S
  PROVE  Fold(base, Append(seq, e)) = Op(Fold(base, seq), e)
<1> DEFINE n == Len(seq)
           seq2 == Append(seq, e)
<1>1. n \in Nat /\ seq2 \in Seq(S) OBVIOUS
<1>2. Len(seq2) = n + 1 /\ seq2[n + 1] = e OBVIOUS
<1>3. \A i \in Nat : i < n => seq2[i + 1] = seq[i + 1] OBVIOUS
<1>4. PICK f : /\ f[0] = base
               /\ \A i \in Nat : i < n => f[i + 1] = Op(f[i], seq[i + 1])
               /\ Fold(base, seq) = f[n]
  BY FoldTrace
<1> HIDE DEF seq2
<1>5. PICK g : /\ g[0] = base
               /\ \A i \in Nat : i < n + 1 => g[i + 1] = Op(g[i], seq2[i + 1])
               /\ Fold(base, seq2) = g[n + 1]
  <2>1. PICK g : /\ g[0] = base
                 /\ \A i \in Nat : i < Len(seq2) => g[i + 1] = Op(g[i], seq2[i + 1])
                 /\ Fold(base, seq2) = g[Len(seq2)]
    BY <1>1, FoldTrace
  <2> QED BY <1>2, <2>1
<1> HIDE DEF n
<1> DEFINE A == {i \in Nat : i <= n => f[i] = g[i]}
<1>6. 0 \in A
  BY <1>4, <1>5
<1>7. ASSUME NEW i \in Nat, i \in A PROVE i + 1 \in A
  <2> SUFFICES ASSUME i + 1 <= n PROVE f[i + 1] = g[i + 1]
    OBVIOUS
  <2>1. i < n /\ i < n + 1 /\ f[i] = g[i] BY <1>1, <1>7
  <2>2. f[i + 1] = Op(f[i], seq[i + 1]) BY <1>4, <2>1
  <2>3. g[i + 1] = Op(g[i], seq2[i + 1]) BY <1>5, <2>1
  <2> QED BY <1>3, <2>1, <2>2, <2>3
<1>8. n \in A
  <2> HIDE DEF A
  <2>1. Nat \subseteq A BY <1>6, <1>7, SetInduction
  <2> QED BY <1>1, <2>1
<1>9. g[n + 1] = Op(g[n], e)
  BY <1>1, <1>2, <1>5
<1> QED BY <1>1, <1>4, <1>5, <1>8, <1>9 DEF seq2

(* What every turn of the loop keeps holds when the loop ends.             *)
THEOREM FoldInvariant ==
  ASSUME NEW base, NEW S, NEW seq \in Seq(S), NEW I, base \in I,
         \A x \in I : \A i \in 1..Len(seq) : Op(x, seq[i]) \in I
  PROVE  Fold(base, seq) \in I
<1> DEFINE n == Len(seq)
<1>1. n \in Nat OBVIOUS
<1>2. \A x \in I : \A i \in 1..n : Op(x, seq[i]) \in I OBVIOUS
<1>3. PICK f : /\ f[0] = base
               /\ \A i \in Nat : i < n => f[i + 1] = Op(f[i], seq[i + 1])
               /\ Fold(base, seq) = f[n]
  BY FoldTrace
<1> HIDE DEF n
<1> DEFINE A == {i \in Nat : i <= n => f[i] \in I}
<1>4. 0 \in A
  BY <1>3
<1>5. ASSUME NEW i \in Nat, i \in A PROVE i + 1 \in A
  <2> SUFFICES ASSUME i + 1 <= n PROVE f[i + 1] \in I
    OBVIOUS
  <2>1. f[i] \in I /\ i + 1 \in 1..n /\ i < n BY <1>1, <1>5
  <2>2. f[i + 1] = Op(f[i], seq[i + 1]) BY <1>3, <2>1
  <2> QED BY <1>2, <2>1, <2>2
<1>6. n \in A
  <2> HIDE DEF A
  <2>1. Nat \subseteq A BY <1>4, <1>5, SetInduction
  <2> QED BY <1>1, <2>1
<1> QED BY <1>1, <1>3, <1>6
====
