--------------------------- MODULE DataInduction ---------------------------
(***************************************************************************)
(* Induction over numbers and sequences in a form the provers can use, and *)
(* what the recursive operators of SequencesExt compute.                   *)
(*                                                                         *)
(* The induction theorems of the library quantify over a predicate, which  *)
(* no backend instantiates.  WFMin does not: a set of numbers that is not  *)
(* empty has a least one.  A fact is therefore stated as membership in a   *)
(* set, and its proof is by a least counterexample.                        *)
(***************************************************************************)
EXTENDS Integers, SequencesExt, SequenceTheorems, WellFoundedInduction, TLAPS

\* Any set of natural numbers with a member has a least one.
LEMMA LeastNumber ==
    ASSUME NEW T, T \subseteq Nat, T # {}
    PROVE  \E x \in T : \A y \in T : x <= y
<1> DEFINE R == OpToRel(<, Nat)
<1>1. IsWellFoundedOn(R, Nat)
  BY NatLessThanWellFounded
<1>2. \A x, y \in Nat : <<y, x>> \notin R => x <= y
  BY DEF OpToRel
<1> HIDE DEF R
<1>3. PICK x \in T : \A y \in T : ~(<<y, x>> \in R)
  BY <1>1, WFMin
<1>4. \A y \in T : x <= y
  BY <1>2, <1>3, Zenon
<1> QED BY <1>4

\* Induction: a set that has 0 and the successor of each of its numbers has
\* all of them.
LEMMA Induction ==
    ASSUME NEW S, 0 \in S, \A n \in Nat : n \in S => n + 1 \in S
    PROVE  \A n \in Nat : n \in S
<1> SUFFICES ASSUME ~(Nat \subseteq S) PROVE FALSE
  OBVIOUS
<1> DEFINE T == {n \in Nat : n \notin S}
<1>1. T \subseteq Nat /\ T # {}
  OBVIOUS
<1>2. PICK x \in T : \A y \in T : x <= y
  BY <1>1, LeastNumber
<1>3. x # 0 /\ x - 1 \in Nat
  OBVIOUS
<1>4. x - 1 \in S
  BY <1>2, <1>3
<1>5. x \in S
  BY <1>3, <1>4
<1> QED BY <1>5

\* Induction over 0 .. m, upwards.
LEMMA InductionTo ==
    ASSUME NEW S, NEW m \in Nat, 0 \in S, \A n \in 0..(m - 1) : n \in S => n + 1 \in S
    PROVE  \A n \in 0..m : n \in S
<1> DEFINE T == {n \in Nat : n <= m => n \in S}
<1>1. 0 \in T
  OBVIOUS
<1>2. \A n \in Nat : n \in T => n + 1 \in T
  OBVIOUS
<1> HIDE DEF T
<1>3. \A n \in Nat : n \in T
  BY <1>1, <1>2, Induction
<1> QED BY <1>3 DEF T

\* Min, of the community modules, is the least number of a set.
LEMMA MinIsLeast ==
    ASSUME NEW T, T \subseteq Nat, T # {}
    PROVE  Min(T) \in T /\ \A y \in T : Min(T) <= y
<1>1. \E x \in T : \A y \in T : x <= y
  BY LeastNumber
<1> QED BY <1>1, Zenon DEF Min

----------------------------------------------------------------------------
(* Recursive functions. *)

\* What it is for f to start at a and to go from i - 1 to i by F[i], up to k.
Follows(f, a, F, k) == f[0] = a /\ \A i \in 1..k : f[i] = F[i][f[i - 1]]

\* Two functions that take the same steps agree.
LEMMA RecursionUnique ==
    ASSUME NEW a, NEW F, NEW k \in Nat, NEW f, NEW g, Follows(f, a, F, k), Follows(g, a, F, k)
    PROVE  \A i \in 0..k : f[i] = g[i]
<1> DEFINE T == {i \in 0..k : f[i] = g[i]}
<1>1. 0 \in T
  BY DEF Follows
<1>2. \A i \in 0..(k - 1) : i \in T => i + 1 \in T
  <2> SUFFICES ASSUME NEW i \in 0..(k - 1), f[i] = g[i] PROVE f[i + 1] = g[i + 1]
    OBVIOUS
  <2>1. i + 1 \in 1..k /\ (i + 1) - 1 = i
    OBVIOUS
  <2>2. f[i + 1] = F[i + 1][f[i]] /\ g[i + 1] = F[i + 1][g[i]]
    BY <2>1 DEF Follows
  <2> QED BY <2>2
<1> HIDE DEF T
<1>3. \A i \in 0..k : i \in T
  BY <1>1, <1>2, InductionTo
<1> QED BY <1>3 DEF T

\* The step at every number gives such a function as far as one likes.
LEMMA RecursionTo ==
    ASSUME NEW V, NEW a \in V, NEW m \in Nat, NEW F \in [1..m -> [V -> V]]
    PROVE  \E f \in [0..m -> V] : Follows(f, a, F, m)
<1> DEFINE T == {k \in 0..m : \E f \in [0..k -> V] : Follows(f, a, F, k)}
<1>1. 0 \in T
  <2> DEFINE f == [i \in 0..0 |-> a]
  <2>1. f \in [0..0 -> V] /\ Follows(f, a, F, 0)
    BY DEF Follows
  <2> HIDE DEF f
  <2> QED BY <2>1
<1>2. ASSUME NEW k \in 0..(m - 1), k \in T PROVE k + 1 \in T
  <2>1. PICK f \in [0..k -> V] : Follows(f, a, F, k)
    BY <1>2
  <2> DEFINE last == F[k + 1][f[k]]
             g == [i \in 0..(k + 1) |-> IF i = k + 1 THEN last ELSE f[i]]
  <2>2. k \in Nat /\ k + 1 \in 1..m /\ last \in V
    OBVIOUS
  <2>3. g[k + 1] = last /\ \A i \in 0..k : g[i] = f[i]
    BY <2>2
  <2>4. g \in [0..(k + 1) -> V]
    BY <2>2
  <2> HIDE DEF g
  <2>5. g[0] = a
    BY <2>1, <2>2, <2>3 DEF Follows
  <2>6. ASSUME NEW i \in 1..(k + 1) PROVE g[i] = F[i][g[i - 1]]
    <3>1. CASE i = k + 1
      <4>1. i - 1 = k /\ g[k] = f[k]
        BY <3>1, <2>2, <2>3
      <4> QED BY <4>1, <3>1, <2>3
    <3>2. CASE i # k + 1
      <4>1. i \in 1..k /\ i \in 0..k /\ i - 1 \in 0..k
        BY <3>2, <2>2
      <4>2. f[i] = F[i][f[i - 1]]
        BY <4>1, <2>1 DEF Follows
      <4> QED BY <4>1, <4>2, <2>3
    <3> QED BY <3>1, <3>2
  <2>7. Follows(g, a, F, k + 1)
    BY <2>5, <2>6 DEF Follows
  <2> QED BY <2>2, <2>4, <2>7
<1> HIDE DEF T
<1>3. \A k \in 0..m : k \in T
  BY <1>1, <1>2, InductionTo
<1> QED BY <1>3 DEF T

\* The same without an end.
FollowsOn(f, a, F) == f[0] = a /\ \A i \in Nat \ {0} : f[i] = F[i][f[i - 1]]

LEMMA RecursionOnNat ==
    ASSUME NEW V, NEW a \in V, NEW F \in [Nat -> [V -> V]]
    PROVE  \E f \in [Nat -> V] : FollowsOn(f, a, F)
<1> DEFINE Part(k) == CHOOSE g \in [0..k -> V] : Follows(g, a, F, k)
           f == [k \in Nat |-> Part(k)[k]]
<1>1. ASSUME NEW k \in Nat
      PROVE  Part(k) \in [0..k -> V] /\ Follows(Part(k), a, F, k)
  <2> DEFINE G == [i \in 1..k |-> F[i]]
  <2>1. G \in [1..k -> [V -> V]] /\ \A i \in 1..k : G[i] = F[i]
    OBVIOUS
  <2> HIDE DEF G
  <2>2. PICK g \in [0..k -> V] : Follows(g, a, G, k)
    BY <2>1, RecursionTo
  <2>3. Follows(g, a, F, k)
    BY <2>1, <2>2 DEF Follows
  <2>4. \E h \in [0..k -> V] : Follows(h, a, F, k)
    BY <2>3
  <2> QED BY <2>4, Zenon
<1> HIDE DEF Part
<1>2. f \in [Nat -> V] /\ \A k \in Nat : f[k] = Part(k)[k]
  BY <1>1
<1> HIDE DEF f
<1>3. f[0] = a
  BY <1>1, <1>2 DEF Follows
<1>4. ASSUME NEW i \in Nat \ {0} PROVE f[i] = F[i][f[i - 1]]
  <2>1. i \in Nat /\ i - 1 \in Nat /\ i \in 1..i
    OBVIOUS
  <2>2. f[i] = F[i][Part(i)[i - 1]]
    BY <2>1, <1>1, <1>2 DEF Follows
  <2>3. Follows(Part(i), a, F, i - 1)
    BY <2>1, <1>1 DEF Follows
  <2>4. Follows(Part(i - 1), a, F, i - 1)
    BY <2>1, <1>1
  <2>5. Part(i)[i - 1] = Part(i - 1)[i - 1]
    <3>1. \A j \in 0..(i - 1) : Part(i)[j] = Part(i - 1)[j]
      BY <2>1, <2>3, <2>4, RecursionUnique
    <3> QED BY <2>1, <3>1
  <2> QED BY <2>1, <2>2, <2>5, <1>2
<1> QED BY <1>2, <1>3, <1>4 DEF FollowsOn

----------------------------------------------------------------------------
(* Sequences. *)

\* f joins the sequences of ss from the left.
Joins(f, ss, n, S) ==
    /\ n \in Nat /\ f \in [0..n -> Seq(S)] /\ f[0] = <<>>
    /\ \A i \in 1..n : ss[i] \in Seq(S) /\ f[i] = f[i - 1] \o ss[i]

\* What is joined up to i begins what is joined up to n.
Begins(f, n, S) == \A i \in 0..n : \E t \in Seq(S) : f[n] = f[i] \o t

LEMMA JoinedPrefix ==
    ASSUME NEW S, NEW n, NEW ss, NEW f, Joins(f, ss, n, S)
    PROVE  Begins(f, n, S)
<1>0. n \in Nat
  BY DEF Joins
<1> DEFINE T == {k \in 0..n : \E t \in Seq(S) : f[n] = f[n - k] \o t}
<1>1. 0 \in T
  <2>1. f[n] \in Seq(S) /\ n - 0 = n /\ <<>> \in Seq(S)
    BY <1>0 DEF Joins
  <2>2. f[n] = f[n - 0] \o <<>>
    BY <2>1, ConcatEmptySeq
  <2>3. \E t \in Seq(S) : f[n] = f[n - 0] \o t
    BY <2>1, <2>2, Zenon
  <2> QED BY <1>0, <2>3
<1>2. ASSUME NEW k \in 0..(n - 1), k \in T PROVE k + 1 \in T
  <2>1. PICK t \in Seq(S) : f[n] = f[n - k] \o t
    BY <1>2
  <2>2. n - k \in 1..n /\ n - (k + 1) \in 0..n /\ (n - k) - 1 = n - (k + 1) /\ k + 1 \in 0..n
    BY <1>0
  <2>3. f[n - k] = f[n - (k + 1)] \o ss[n - k]
    BY <2>2 DEF Joins
  <2>4. f[n - (k + 1)] \in Seq(S) /\ ss[n - k] \in Seq(S)
    BY <2>2 DEF Joins
  <2>5. \A x, y \in Seq(S) : (x \o y) \o t = x \o (y \o t)
    BY ConcatAssociative
  <2>6. f[n] = f[n - (k + 1)] \o (ss[n - k] \o t)
    BY <2>1, <2>3, <2>4, <2>5, Zenon
  <2>7. ss[n - k] \o t \in Seq(S)
    BY <2>4, ConcatProperties
  <2> QED BY <2>2, <2>6, <2>7
<1> HIDE DEF T
<1>3. \A k \in 0..n : k \in T
  BY <1>0, <1>1, <1>2, InductionTo
<1>4. ASSUME NEW i \in 0..n PROVE \E t \in Seq(S) : f[n] = f[i] \o t
  <2>1. n - i \in 0..n /\ n - (n - i) = i
    BY <1>0
  <2> QED BY <2>1, <1>3 DEF T
<1> QED BY <1>4 DEF Begins

\* Joining associates; as a predicate, which the backends instantiate readily.
Associates(x, y, z) == (x \o y) \o z = x \o (y \o z)

LEMMA Associativity ==
    ASSUME NEW S, NEW x \in Seq(S), NEW y \in Seq(S), NEW z \in Seq(S)
    PROVE  Associates(x, y, z)
  BY ConcatAssociative DEF Associates

\* Where two sequences stand when they are joined.
LEMMA JoinedAt ==
    ASSUME NEW S, NEW a \in Seq(S), NEW b \in Seq(S)
    PROVE  /\ a \o b \in Seq(S) /\ Len(a \o b) = Len(a) + Len(b)
           /\ DOMAIN (a \o b) = 1..(Len(a) + Len(b))
           /\ \A i \in 1..Len(a) : (a \o b)[i] = a[i]
           /\ \A i \in 1..Len(b) : (a \o b)[Len(a) + i] = b[i]
  OBVIOUS

\* Where the middle of three sequences stands when they are joined.
LEMMA MiddleAt ==
    ASSUME NEW S, NEW a \in Seq(S), NEW b \in Seq(S), NEW c \in Seq(S)
    PROVE  /\ (a \o b) \o c \in Seq(S) /\ a \o b \in Seq(S)
           /\ Len(a \o b) = Len(a) + Len(b)
           /\ Len((a \o b) \o c) = Len(a) + Len(b) + Len(c)
           /\ \A i \in 1..Len(b) : ((a \o b) \o c)[Len(a) + i] = b[i]
  OBVIOUS

\* The middle of three sequences joined.
LEMMA SubSeqMiddle ==
    ASSUME NEW S, NEW a \in Seq(S), NEW b \in Seq(S), NEW c \in Seq(S)
    PROVE  /\ SubSeq(a \o b \o c, Len(a) + 1, Len(a) + Len(b)) = b
           /\ Len(a \o b \o c) = Len(a) + Len(b) + Len(c)
<1> DEFINE s == a \o b \o c
           t == SubSeq(s, Len(a) + 1, Len(a) + Len(b))
<1>1. /\ s \in Seq(S) /\ Len(s) = Len(a) + Len(b) + Len(c)
      /\ \A i \in 1..Len(b) : s[Len(a) + i] = b[i]
  BY MiddleAt
<1> HIDE DEF s
<1>2. t \in Seq(S) /\ Len(t) = Len(b) /\ \A i \in 1..Len(b) : t[i] = s[Len(a) + i]
  BY <1>1
<1> HIDE DEF t
<1>3. t = b
  BY <1>1, <1>2, SeqEqual
<1> QED BY <1>1, <1>3 DEF t, s

\* FlattenSeq joins its sequences from the left: the results up to each of them.
LEMMA FlattenPrefixes ==
    ASSUME NEW S, NEW ss \in Seq(Seq(S))
    PROVE  \E f : Joins(f, ss, Len(ss), S) /\ FlattenSeq(ss) = f[Len(ss)]
<1> DEFINE n == Len(ss)
           Solves(g) == g = [i \in 1..n |-> IF i = 1 THEN ss[i] ELSE g[i - 1] \o ss[i]]
           flatten == CHOOSE g : Solves(g)
           F == [i \in 1..n |-> [v \in Seq(S) |-> v \o ss[i]]]
<1>1. n \in Nat /\ <<>> \in Seq(S) /\ \A i \in 1..n : ss[i] \in Seq(S)
  OBVIOUS
<1>2. n = 0 => FlattenSeq(ss) = <<>>
  BY EmptySeq DEF FlattenSeq
<1>3. n # 0 => FlattenSeq(ss) = flatten[n]
  BY Zenon DEF FlattenSeq
<1> HIDE DEF n, flatten
<1>4. PICK f \in [0..n -> Seq(S)] :
        f[0] = <<>> /\ \A i \in 1..n : f[i] = f[i - 1] \o ss[i]
  <2>1. F \in [1..n -> [Seq(S) -> Seq(S)]]
    BY <1>1
  <2>2. \A i \in 1..n, v \in Seq(S) : F[i][v] = v \o ss[i]
    OBVIOUS
  <2> HIDE DEF F
  <2>3. PICK f \in [0..n -> Seq(S)] : Follows(f, <<>>, F, n)
    BY <1>1, <2>1, RecursionTo
  <2>4. \A i \in 1..n : f[i - 1] \in Seq(S)
    BY <1>1
  <2>5. f[0] = <<>> /\ \A i \in 1..n : f[i] = f[i - 1] \o ss[i]
    BY <2>2, <2>3, <2>4 DEF Follows
  <2> QED BY <2>5
<1> HIDE DEF F
<1>5. \A i \in 1..n : f[i] = IF i = 1 THEN ss[i] ELSE f[i - 1] \o ss[i]
  <2> SUFFICES ASSUME NEW i \in 1..n, i = 1 PROVE f[i] = ss[i]
    BY <1>4
  <2>1. i - 1 = 0
    OBVIOUS
  <2>2. f[i] = f[i - 1] \o ss[i] /\ f[i - 1] = <<>> /\ ss[i] \in Seq(S)
    BY <2>1, <1>1, <1>4
  <2> QED BY <2>2, ConcatEmptySeq
<1>6. \E g : Solves(g)
  <2> DEFINE g == [i \in 1..n |-> f[i]]
  <2>1. \A i \in 1..n : g[i] = IF i = 1 THEN ss[i] ELSE g[i - 1] \o ss[i]
    <3> SUFFICES ASSUME NEW i \in 1..n PROVE g[i] = IF i = 1 THEN ss[i] ELSE g[i - 1] \o ss[i]
      OBVIOUS
    <3>1. i # 1 => i - 1 \in 1..n
      BY <1>1
    <3>2. g[i] = f[i] /\ (i # 1 => g[i - 1] = f[i - 1])
      BY <3>1
    <3> HIDE DEF g
    <3> QED BY <3>2, <1>5
  <2>2. g = [i \in 1..n |-> g[i]]
    OBVIOUS
  <2> HIDE DEF g
  <2>3. Solves(g)
    BY <2>1, <2>2
  <2> QED BY <2>3
<1>7. Solves(flatten)
  BY <1>6, Zenon DEF flatten
<1>8. \A i \in 1..n : flatten[i] = IF i = 1 THEN ss[i] ELSE flatten[i - 1] \o ss[i]
  BY <1>7, Zenon
<1> HIDE DEF Solves
<1>9. \A i \in 0..n : i # 0 => flatten[i] = f[i]
  <2> DEFINE T == {i \in 0..n : i # 0 => flatten[i] = f[i]}
  <2>1. 0 \in T
    BY <1>1
  <2>2. ASSUME NEW i \in 0..(n - 1), i \in T PROVE i + 1 \in T
    <3>1. i + 1 \in 1..n /\ i + 1 \in 0..n /\ (i + 1) - 1 = i /\ (i # 0 => flatten[i] = f[i])
      BY <1>1, <2>2
    <3>2. flatten[i + 1] = IF i + 1 = 1 THEN ss[i + 1] ELSE flatten[i] \o ss[i + 1]
      BY <3>1, <1>8
    <3>3. f[i + 1] = IF i + 1 = 1 THEN ss[i + 1] ELSE f[i] \o ss[i + 1]
      BY <3>1, <1>5
    <3>4. i = 0 <=> i + 1 = 1
      BY <1>1
    <3>5. flatten[i + 1] = f[i + 1]
      BY <3>1, <3>2, <3>3, <3>4
    <3> QED BY <3>1, <3>5
  <2> HIDE DEF T
  <2>3. \A i \in 0..n : i \in T
    BY <1>1, <2>1, <2>2, InductionTo
  <2> QED BY <2>3 DEF T
<1>10. FlattenSeq(ss) = f[n]
  BY <1>1, <1>2, <1>3, <1>4, <1>9
<1>11. Joins(f, ss, n, S)
  BY <1>1, <1>4 DEF Joins
<1> QED BY <1>10, <1>11 DEF n

\* The results up to each sequence, when only some of them are joined.
IsPart(tt, ss, j, n, S) ==
    j \in 0..n /\ tt \in Seq(Seq(S)) /\ Len(tt) = j /\ \A i \in 1..j : tt[i] = ss[i]

LEMMA FlattenPart ==
    ASSUME NEW S, NEW n, NEW ss, NEW f, Joins(f, ss, n, S), NEW j, NEW tt,
           IsPart(tt, ss, j, n, S)
    PROVE  FlattenSeq(tt) = f[j]
<1>0. j \in 0..n /\ tt \in Seq(Seq(S)) /\ Len(tt) = j /\ \A i \in 1..j : tt[i] = ss[i]
  BY DEF IsPart
<1>1. PICK g : Joins(g, tt, Len(tt), S) /\ FlattenSeq(tt) = g[Len(tt)]
  BY <1>0, FlattenPrefixes
<1>2. Joins(g, tt, j, S) /\ FlattenSeq(tt) = g[j]
  BY <1>0, <1>1
<1> DEFINE T == {i \in 0..j : f[i] = g[i]}
<1>3. j \in Nat
  BY <1>2 DEF Joins
<1>4. 0 \in T
  BY <1>0, <1>2, <1>3 DEF Joins
<1>5. ASSUME NEW i \in 0..(j - 1), i \in T PROVE i + 1 \in T
  <2>1. i + 1 \in 1..j /\ i + 1 \in 1..n /\ (i + 1) - 1 = i /\ i + 1 \in 0..j
    BY <1>0, <1>3 DEF Joins
  <2>2. f[i + 1] = f[i] \o ss[i + 1]
    BY <2>1 DEF Joins
  <2>3. g[i + 1] = g[i] \o tt[i + 1]
    BY <2>1, <1>2 DEF Joins
  <2>4. f[i] = g[i] /\ tt[i + 1] = ss[i + 1]
    BY <1>0, <1>5, <2>1
  <2>5. f[i + 1] = g[i + 1]
    BY <2>2, <2>3, <2>4, Zenon
  <2> QED BY <2>1, <2>5
<1> HIDE DEF T
<1>6. \A i \in 0..j : i \in T
  BY <1>3, <1>4, <1>5, InductionTo
<1>7. j \in T
  BY <1>3, <1>6
<1> QED BY <1>2, <1>7 DEF T


\* F[i][r] reads r only behind position i.
ReadsLater(F, n, V) ==
    \A i \in 1..n : \A r, s \in [1..(n + 1) -> V] :
        (\A m \in (i + 1)..(n + 1) : r[m] = s[m]) => F[i][r] = F[i][s]
\* r is computed from its end to its beginning.
Computes(r, e, F, n) == r[n + 1] = e /\ \A i \in 1..n : r[i] = F[i][r]

\* Recursion from the end of a sequence to its beginning, in which a value may
\* depend on every later one.
LEMMA RecursionBack ==
    ASSUME NEW n \in Nat, NEW V, NEW e \in V,
           NEW F \in [1..n -> [[1..(n + 1) -> V] -> V]], ReadsLater(F, n, V)
    PROVE  \E r \in [1..(n + 1) -> V] : Computes(r, e, F, n)
<1> DEFINE W == [1..(n + 1) -> V]
           first == [i \in 1..(n + 1) |-> e]
           Put(w, i, v) == [w EXCEPT ![i] = v]
           G == [j \in 1..n |-> [w \in W |-> Put(w, n + 1 - j, F[n + 1 - j][w])]]
<1>1. \A j \in 1..n : n + 1 - j \in 1..n /\ n + 1 - j \in 1..(n + 1)
  OBVIOUS
<1>2. \A i \in 1..n, w \in W : F[i][w] \in V
  OBVIOUS
<1>3. G \in [1..n -> [W -> W]] /\ \A j \in 1..n, w \in W : G[j][w] = Put(w, n + 1 - j, F[n + 1 - j][w])
  <2>1. \A j \in 1..n, w \in W : Put(w, n + 1 - j, F[n + 1 - j][w]) \in W
    BY <1>1, <1>2
  <2> HIDE DEF W, Put
  <2> QED BY <2>1
<1>4. first \in W /\ first[n + 1] = e
  OBVIOUS
<1>5. PICK h \in [0..n -> W] : Follows(h, first, G, n)
  <2> HIDE DEF W, first, G
  <2> QED BY <1>3, <1>4, RecursionTo
<1> HIDE DEF G, first
<1>6. /\ \A j \in 0..n : h[j] \in W
      /\ h[0] = first
      /\ \A j \in 1..n : h[j] = Put(h[j - 1], n + 1 - j, F[n + 1 - j][h[j - 1]])
  <2>1. \A j \in 0..n : h[j] \in W
    OBVIOUS
  <2>2. \A j \in 1..n : h[j - 1] \in W
    OBVIOUS
  <2> HIDE DEF W, Put
  <2>3. h[0] = first /\ \A j \in 1..n : h[j] = G[j][h[j - 1]]
    BY <1>5 DEF Follows
  <2> QED BY <1>3, <2>1, <2>2, <2>3
<1>7. \A k \in 0..(n - 1) : LET i == k + 1 IN
        /\ i \in 1..n /\ h[n - k] \in W /\ h[n - i] \in W
        /\ h[n - k][i] = F[i][h[n - i]]
        /\ \A m \in (i + 1)..(n + 1) : h[n - k][m] = h[n - i][m]
  <2> SUFFICES ASSUME NEW k \in 0..(n - 1)
               PROVE  /\ k + 1 \in 1..n /\ h[n - k] \in W /\ h[n - (k + 1)] \in W
                      /\ h[n - k][k + 1] = F[k + 1][h[n - (k + 1)]]
                      /\ \A m \in (k + 2)..(n + 1) : h[n - k][m] = h[n - (k + 1)][m]
    OBVIOUS
  <2>1. /\ n - k \in 1..n /\ n + 1 - (n - k) = k + 1 /\ (n - k) - 1 = n - (k + 1)
        /\ n - (k + 1) \in 0..n /\ k + 1 \in 1..(n + 1) /\ k + 1 \in 1..n /\ n - k \in 0..n
    OBVIOUS
  <2>2. h[n - k] = Put(h[n - (k + 1)], k + 1, F[k + 1][h[n - (k + 1)]])
    <3> HIDE DEF Put
    <3> QED BY <1>6, <2>1
  <2>3. h[n - k] \in W /\ h[n - (k + 1)] \in W
    <3> HIDE DEF W
    <3> QED BY <1>6, <2>1
  <2>4. \A w \in W, m \in 1..(n + 1) : \A v : Put(w, k + 1, v)[m] = IF m = k + 1 THEN v ELSE w[m]
    OBVIOUS
  <2>5. \A m \in (k + 2)..(n + 1) : m \in 1..(n + 1) /\ m # k + 1
    OBVIOUS
  <2> HIDE DEF Put, W
  <2> QED BY <2>1, <2>2, <2>3, <2>4, <2>5
<1> DEFINE r == h[n]
           T == {k \in 0..n : \A m \in (k + 1)..(n + 1) : h[n - k][m] = r[m]}
<1>8. 0 \in T
  OBVIOUS
<1>9. ASSUME NEW k \in 0..(n - 1), k \in T PROVE k + 1 \in T
  <2>1. \A m \in ((k + 1) + 1)..(n + 1) : m \in (k + 1)..(n + 1)
    OBVIOUS
  <2>2. \A m \in ((k + 1) + 1)..(n + 1) : h[n - k][m] = h[n - (k + 1)][m]
    BY <1>7
  <2>3. \A m \in (k + 1)..(n + 1) : h[n - k][m] = r[m]
    BY <1>9
  <2>4. k + 1 \in 0..n
    OBVIOUS
  <2> QED BY <2>1, <2>2, <2>3, <2>4
<1>10. \A k \in 0..n : k \in T
  <2> HIDE DEF T
  <2> QED BY <1>8, <1>9, InductionTo
<1>11. r \in W
  BY <1>6
<1>12. r[n + 1] = e
  <2>1. n \in 0..n /\ n - n = 0 /\ n + 1 \in (n + 1)..(n + 1)
    OBVIOUS
  <2>2. h[n - n][n + 1] = r[n + 1]
    BY <1>10, <2>1
  <2>3. h[0][n + 1] = r[n + 1]
    BY <2>1, <2>2
  <2> QED BY <1>4, <1>6, <2>3
<1>13. ASSUME NEW i \in 1..n PROVE r[i] = F[i][r]
  <2>1. i - 1 \in 0..(n - 1) /\ (i - 1) + 1 = i /\ i \in 0..n /\ i - 1 \in 0..n
        /\ i \in ((i - 1) + 1)..(n + 1)
    OBVIOUS
  <2>2. h[n - (i - 1)][i] = F[i][h[n - i]] /\ h[n - i] \in W
    <3> HIDE DEF W
    <3> QED BY <1>7, <2>1
  <2>3. h[n - (i - 1)][i] = r[i]
    BY <1>10, <2>1
  <2>4. \A m \in (i + 1)..(n + 1) : h[n - i][m] = r[m]
    BY <1>10, <2>1
  <2>5. F[i][h[n - i]] = F[i][r]
    <3> HIDE DEF r
    <3> QED BY <1>11, <2>2, <2>4 DEF ReadsLater
  <2> QED BY <2>2, <2>3, <2>5
<1> HIDE DEF r
<1> QED BY <1>11, <1>12, <1>13 DEF Computes
=============================================================================
