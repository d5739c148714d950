------------------------- MODULE SetupPayloadProofs -------------------------
(***************************************************************************)
(* Proofs about SetupPayload, for any width of a byte and of a length, any *)
(* limit that the doubling buffer meets, and any strings and parameters:   *)
(* what the helper takes out of a payload is what the backend put in, and  *)
(* nothing less runs.                                                      *)
(***************************************************************************)
EXTENDS SetupPayload, DataInduction

----------------------------------------------------------------------------
(* Numbers as bytes. *)

LEMMA ValuesFacts ==
    /\ Values \in [Nat -> Nat \ {0}] /\ Values[0] = 1
    /\ \A w \in Nat : Values[w + 1] = Base * Values[w]
<1> DEFINE V == Nat \ {0}
           one == 1
           F == [i \in Nat |-> [v \in V |-> Base * v]]
           Solves(f) == f = [w \in Nat |-> IF w = 0 THEN 1 ELSE Base * f[w - 1]]
<1>0. Base \in V /\ one \in V
  BY WidthAssumption
<1>1. \A v \in V : Base * v \in V
  BY <1>0
<1>2. F \in [Nat -> [V -> V]] /\ \A i \in Nat, v \in V : F[i][v] = Base * v
  BY <1>1
<1> HIDE DEF F, V, one
<1>3. PICK f \in [Nat -> V] : FollowsOn(f, one, F)
  <2>1. one \in V
    BY <1>0
  <2>2. F \in [Nat -> [V -> V]]
    BY <1>2
  <2> QED BY <2>1, <2>2, RecursionOnNat
<1>4. f[0] = one /\ \A i \in Nat \ {0} : f[i] = Base * f[i - 1]
  BY <1>2, <1>3 DEF FollowsOn
<1>5. Solves(f)
  <2>1. \A w \in Nat : f[w] = IF w = 0 THEN 1 ELSE Base * f[w - 1]
    BY <1>3, <1>4 DEF one
  <2>2. f = [w \in Nat |-> f[w]]
    BY <1>3
  <2> QED BY <2>1, <2>2
<1>6. Values = CHOOSE g : Solves(g)
  BY Zenon DEF Values
<1>7. Solves(Values)
  BY <1>5, <1>6, Zenon
<1>8. Values[0] = 1 /\ \A i \in Nat \ {0} : Values[i] = Base * Values[i - 1]
  BY <1>7
<1>9. ASSUME NEW w \in Nat PROVE Values[w + 1] = Base * Values[w]
  <2>1. w + 1 \in Nat \ {0} /\ (w + 1) - 1 = w
    OBVIOUS
  <2> QED BY <2>1, <1>8
<1>10. \A w \in Nat : Values[w] \in V
  <2> DEFINE T == {w \in Nat : Values[w] \in V}
  <2>1. 0 \in T
    BY <1>0, <1>8 DEF one
  <2>2. \A w \in Nat : w \in T => w + 1 \in T
    BY <1>0, <1>1, <1>9
  <2> HIDE DEF T
  <2>3. \A w \in Nat : w \in T
    BY <2>1, <2>2, Induction
  <2> QED BY <2>3 DEF T
<1>11. Values = [w \in Nat |-> Values[w]]
  BY <1>7
<1> QED BY <1>8, <1>9, <1>10, <1>11 DEF V

LEMMA ByteFacts ==
    /\ \A n \in Nat : Byte[0][n] = n % Base
    /\ \A i, n \in Nat : Byte[i + 1][n] = Byte[i][n \div Base]
    /\ \A i, n \in Nat : Byte[i][n] \in 0..(Base - 1)
<1> DEFINE B == 0..(Base - 1)
           V == [Nat -> B]
           a == [n \in Nat |-> n % Base]
           F == [i \in Nat |-> [v \in V |-> [n \in Nat |-> v[n \div Base]]]]
           Solves(f) == f = [i \in Nat |->
                [n \in Nat |-> IF i = 0 THEN n % Base ELSE f[i - 1][n \div Base]]]
<1>0. /\ \A n \in Nat : n % Base \in B /\ n \div Base \in Nat
  BY WidthAssumption
<1> HIDE DEF B
<1>1. a \in V
  BY <1>0
<1>2. F \in [Nat -> [V -> V]] /\ \A i \in Nat, v \in V, n \in Nat : F[i][v][n] = v[n \div Base]
  BY <1>0
<1>3. \A n \in Nat : a[n] = n % Base
  OBVIOUS
<1> HIDE DEF F, V, a
<1>4. PICK f \in [Nat -> V] : FollowsOn(f, a, F)
  BY <1>1, <1>2, RecursionOnNat
<1>5. \A i, n \in Nat : f[i][n] = IF i = 0 THEN n % Base ELSE f[i - 1][n \div Base]
  <2> SUFFICES ASSUME NEW i \in Nat, NEW n \in Nat
               PROVE  f[i][n] = IF i = 0 THEN n % Base ELSE f[i - 1][n \div Base]
    OBVIOUS
  <2>1. CASE i = 0
    BY <1>3, <1>4, <2>1 DEF FollowsOn
  <2>2. CASE i # 0
    <3>1. i \in Nat \ {0} /\ i - 1 \in Nat
      BY <2>2
    <3>2. f[i] = F[i][f[i - 1]] /\ f[i - 1] \in V
      BY <1>4, <3>1 DEF FollowsOn
    <3>3. f[i][n] = f[i - 1][n \div Base]
      BY <1>2, <3>2, Zenon
    <3> QED BY <2>2, <3>3
  <2> QED BY <2>1, <2>2
<1>6. Solves(f)
  <2>1. f = [i \in Nat |-> f[i]]
    BY <1>4
  <2>2. \A i \in Nat : f[i] = [n \in Nat |-> f[i][n]]
    BY <1>4 DEF V
  <2>3. \A i \in Nat : f[i] = [n \in Nat |-> IF i = 0 THEN n % Base ELSE f[i - 1][n \div Base]]
    BY <2>2, <1>5
  <2> QED BY <2>1, <2>3
<1>7. Byte = CHOOSE g : Solves(g)
  BY Zenon DEF Byte
<1>8. Solves(Byte)
  BY <1>6, <1>7, Zenon
<1>9. \A i \in Nat : Byte[i] = [n \in Nat |-> IF i = 0 THEN n % Base ELSE Byte[i - 1][n \div Base]]
  BY <1>8
<1>10. \A n \in Nat : Byte[0][n] = n % Base
  BY <1>9
<1>11. \A i, n \in Nat : Byte[i + 1][n] = Byte[i][n \div Base]
  <2> SUFFICES ASSUME NEW i \in Nat, NEW n \in Nat PROVE Byte[i + 1][n] = Byte[i][n \div Base]
    OBVIOUS
  <2>1. i + 1 \in Nat /\ i + 1 # 0 /\ (i + 1) - 1 = i
    OBVIOUS
  <2>2. Byte[i + 1] = [k \in Nat |-> IF i + 1 = 0 THEN k % Base ELSE Byte[(i + 1) - 1][k \div Base]]
    BY <2>1, <1>9
  <2>3. Byte[i + 1][n] = Byte[(i + 1) - 1][n \div Base]
    BY <2>1, <2>2
  <2> QED BY <2>1, <2>3
<1>12. \A i \in Nat : \A n \in Nat : Byte[i][n] \in B
  <2> DEFINE T == {i \in Nat : \A n \in Nat : Byte[i][n] \in B}
  <2>1. 0 \in T
    BY <1>0, <1>10
  <2>2. ASSUME NEW i \in Nat, i \in T PROVE i + 1 \in T
    <3>1. ASSUME NEW n \in Nat PROVE Byte[i + 1][n] \in B
      <4>1. n \div Base \in Nat /\ Byte[i + 1][n] = Byte[i][n \div Base]
        BY <1>0, <1>11
      <4> QED BY <4>1, <2>2
    <3>2. i + 1 \in Nat
      OBVIOUS
    <3> QED BY <3>1, <3>2
  <2> HIDE DEF T
  <2>3. \A i \in Nat : i \in T
    BY <2>1, <2>2, Induction
  <2> QED BY <2>3 DEF T
<1> QED BY <1>10, <1>11, <1>12 DEF B

\* A quotient of a number of w + 1 bytes has w of them.
LEMMA QuotientFits ==
    ASSUME NEW b \in Nat, b # 0, NEW v \in Nat, NEW n \in Nat, n < b * v
    PROVE  n \div b < v
<1> DEFINE q == n \div b
<1>1. q \in Nat /\ b * q <= n
  OBVIOUS
<1> HIDE DEF q
<1>2. b * q < b * v
  BY <1>1
<1> QED BY <1>1, <1>2 DEF q

LEMMA QuotientAndRest ==
    ASSUME NEW b \in Nat, b # 0, NEW m \in Nat, NEW n \in Nat,
           m \div b = n \div b, m % b = n % b
    PROVE  m = n
<1>1. m = (b * (m \div b)) + (m % b) /\ n = (b * (n \div b)) + (n % b)
  OBVIOUS
<1> QED BY <1>1

\* A number below the limit of its width is told by its bytes.
LEMMA BytesTell ==
    \A w \in Nat : \A m, n \in 0..(Values[w] - 1) :
        (\A i \in 0..(w - 1) : Byte[i][m] = Byte[i][n]) => m = n
<1> DEFINE Tells(w) == \A m, n \in Nat :
                m < Values[w] /\ n < Values[w] /\ (\A i \in 0..(w - 1) : Byte[i][m] = Byte[i][n])
                => m = n
           T == {w \in Nat : Tells(w)}
<1>1. 0 \in T
  BY ValuesFacts
<1>2. ASSUME NEW w \in Nat, w \in T PROVE w + 1 \in T
  <2> SUFFICES ASSUME NEW m \in Nat, NEW n \in Nat, m < Values[w + 1], n < Values[w + 1],
                      \A i \in 0..((w + 1) - 1) : Byte[i][m] = Byte[i][n]
               PROVE  m = n
    OBVIOUS
  <2> DEFINE v == Values[w]
  <2>0. v \in Nat /\ Base \in Nat /\ Base # 0 /\ Values[w + 1] = Base * v
    BY ValuesFacts, WidthAssumption
  <2> HIDE DEF v
  <2>1. m \div Base \in Nat /\ n \div Base \in Nat
    BY <2>0
  <2>2. m < Base * v /\ n < Base * v
    BY <2>0
  <2>3. m \div Base < v /\ n \div Base < v
    BY <2>0, <2>2, QuotientFits
  <2>4. m % Base = n % Base
    <3>1. 0 \in 0..((w + 1) - 1)
      OBVIOUS
    <3>2. Byte[0][m] = Byte[0][n]
      BY <3>1
    <3> QED BY <3>2, ByteFacts
  <2>5. ASSUME NEW i \in 0..(w - 1) PROVE Byte[i][m \div Base] = Byte[i][n \div Base]
    <3>1. i \in Nat /\ i + 1 \in 0..((w + 1) - 1)
      OBVIOUS
    <3>2. Byte[i + 1][m] = Byte[i + 1][n]
      BY <3>1
    <3>3. Byte[i + 1][m] = Byte[i][m \div Base] /\ Byte[i + 1][n] = Byte[i][n \div Base]
      BY <3>1, ByteFacts
    <3> QED BY <3>2, <3>3
  <2>6. m \div Base = n \div Base
    BY <1>2, <2>1, <2>3, <2>5 DEF v
  <2> QED BY <2>0, <2>4, <2>6, QuotientAndRest
<1> HIDE DEF T
<1>3. \A w \in Nat : w \in T
  BY <1>1, <1>2, Induction
<1>4. ASSUME NEW w \in Nat, NEW m \in 0..(Values[w] - 1), NEW n \in 0..(Values[w] - 1),
             \A i \in 0..(w - 1) : Byte[i][m] = Byte[i][n]
      PROVE  m = n
  <2>1. Tells(w)
    BY <1>3 DEF T
  <2>2. m \in Nat /\ n \in Nat /\ m < Values[w] /\ n < Values[w]
    BY ValuesFacts
  <2> QED BY <1>4, <2>1, <2>2
<1> QED BY <1>4

\* Encoding as bytes, and memcpy back.
Fits(n, w) == w \in Nat /\ n \in 0..(Values[w] - 1)
Returns(n, w) ==
    /\ Encode(n, w) \in Seq(Nat) /\ Len(Encode(n, w)) = w
    /\ Decode(Encode(n, w)) = n

LEMMA DecodeEncode ==
    ASSUME NEW n, NEW w, Fits(n, w)
    PROVE  Returns(n, w)
<1> DEFINE s == Encode(n, w)
           top == Values[w] - 1
<1>1. w \in Nat /\ n \in Nat /\ n \in 0..top
  BY ValuesFacts DEF Fits
<1>2. \A i \in 1..w : Byte[i - 1][n] \in Nat
  BY <1>1, ByteFacts, WidthAssumption
<1>3. s \in Seq(Nat) /\ Len(s) = w
  BY <1>1, <1>2 DEF Encode
<1>4. ASSUME NEW m \in 0..top, Encode(m, w) = s PROVE m = n
  <2>1. ASSUME NEW i \in 0..(w - 1) PROVE Byte[i][m] = Byte[i][n]
    <3>1. i + 1 \in 1..w /\ (i + 1) - 1 = i
      BY <1>1
    <3>2. Encode(m, w)[i + 1] = Byte[i][m] /\ Encode(n, w)[i + 1] = Byte[i][n]
      BY <3>1 DEF Encode
    <3> QED BY <3>2, <1>4
  <2> QED BY <1>1, <2>1, BytesTell
<1>5. Decode(s) = CHOOSE m \in 0..top : Encode(m, w) = s
  BY <1>3, Zenon DEF Decode
<1>6. Decode(s) = n
  BY <1>1, <1>4, <1>5, Zenon
<1> QED BY <1>3, <1>6 DEF Returns


----------------------------------------------------------------------------
(* Fields. *)

LEMMA StringFacts ==
    ASSUME NEW str \in Strings
    PROVE  /\ str \in Seq(Nat) /\ Len(str) \in Nat /\ LenBytes \in Nat
           /\ Returns(Len(str), LenBytes)
<1> DEFINE B == 0..(Base - 1)
           top == Values[LenBytes]
<1>1. str \in Seq(B) /\ Len(str) < top /\ LenBytes \in Nat
  BY WidthAssumption
<1>2. \A b \in B : b \in Nat
  BY WidthAssumption
<1> HIDE DEF B
<1>3. Len(str) \in Nat /\ \A i \in 1..Len(str) : str[i] \in B
  BY <1>1
<1>4. str \in Seq(Nat)
  <2>1. str = [i \in 1..Len(str) |-> str[i]]
    BY <1>1
  <2> QED BY <1>2, <1>3, <2>1
<1>5. top \in Nat
  BY <1>1, ValuesFacts
<1>6. Fits(Len(str), LenBytes)
  <2> HIDE DEF top
  <2>1. Len(str) \in 0..(top - 1)
    BY <1>1, <1>3, <1>5
  <2> QED BY <2>1, <1>1 DEF top, Fits
<1> QED BY <1>1, <1>3, <1>4, <1>6, DecodeEncode

LEMMA CountedFacts ==
    ASSUME NEW str \in Strings
    PROVE  Counted(str) \in Seq(Nat) /\ Len(Counted(str)) = LenBytes + Len(str)
<1> DEFINE e == Encode(Len(str), LenBytes)
<1>1. e \in Seq(Nat) /\ Len(e) = LenBytes /\ str \in Seq(Nat)
  BY StringFacts DEF Returns
<1> HIDE DEF e
<1>2. e \o str \in Seq(Nat) /\ Len(e \o str) = Len(e) + Len(str)
  BY <1>1, JoinedAt
<1>3. Counted(str) = e \o str
  BY DEF Counted, e
<1> QED BY <1>1, <1>2, <1>3

\* The payload has x behind a.
Holds(a, x) == a \in Seq(Nat) /\ x \in Seq(Nat) /\ \E r \in Seq(Nat) : payload = (a \o x) \o r

LEMMA HeldAt ==
    ASSUME NEW a, NEW x, Holds(a, x)
    PROVE  /\ SubSeq(payload, Len(a) + 1, Len(a) + Len(x)) = x
           /\ payload \in Seq(Nat) /\ Len(payload) \in Nat /\ Len(a) \in Nat /\ Len(x) \in Nat
           /\ Len(a \o x) = Len(a) + Len(x) /\ Len(a) + Len(x) <= Len(payload)
<1>1. PICK r \in Seq(Nat) : payload = (a \o x) \o r
  BY DEF Holds
<1>2. a \in Seq(Nat) /\ x \in Seq(Nat)
  BY DEF Holds
<1>3. /\ SubSeq((a \o x) \o r, Len(a) + 1, Len(a) + Len(x)) = x
      /\ Len((a \o x) \o r) = Len(a) + Len(x) + Len(r)
  BY <1>2, SubSeqMiddle
<1>4. (a \o x) \o r \in Seq(Nat) /\ Len(a \o x) = Len(a) + Len(x)
  BY <1>2, MiddleAt
<1>5. Len(a) \in Nat /\ Len(x) \in Nat /\ Len(r) \in Nat
  BY <1>2
<1>6. \A k, l, m \in Nat : k + l <= k + l + m
  OBVIOUS
<1>7. Len(a) + Len(x) <= Len(payload)
  BY <1>1, <1>3, <1>5, <1>6, Zenon
<1>8. Len(payload) \in Nat
  BY <1>1, <1>4
<1> QED BY <1>1, <1>3, <1>4, <1>5, <1>7, <1>8

\* What stands behind a in two parts.
LEMMA HeldParts ==
    ASSUME NEW a, NEW x \in Seq(Nat), NEW y \in Seq(Nat), Holds(a, x \o y)
    PROVE  Holds(a, x) /\ Holds(a \o x, y) /\ (a \o x) \o y = a \o (x \o y)
<1>1. PICK r \in Seq(Nat) : payload = (a \o (x \o y)) \o r
  BY DEF Holds
<1>2. a \in Seq(Nat)
  BY DEF Holds
<1> DEFINE b == a \o x
<1>3. b \in Seq(Nat) /\ y \o r \in Seq(Nat)
  BY <1>2, ConcatProperties
<1>4. Associates(a, x, y)
  BY <1>2, Associativity
<1> HIDE DEF b
<1>5. Associates(b, y, r)
  BY <1>3, Associativity
<1>6. payload = (b \o y) \o r
  BY <1>1, <1>4, Zenon DEF Associates, b
<1>7. payload = b \o (y \o r)
  BY <1>5, <1>6, Zenon DEF Associates
<1>8. Holds(a, x)
  BY <1>2, <1>3, <1>7 DEF Holds, b
<1>9. Holds(b, y)
  BY <1>3, <1>6 DEF Holds
<1> QED BY <1>4, <1>8, <1>9 DEF b, Associates

\* take_str finds a string that has arrived whole, and no other.
Takes(a, str) ==
    LET end == Len(a \o Counted(str)) IN
    /\ got >= end => StrAt(Len(a)) = [ok |-> TRUE, val |-> str, end |-> end]
    /\ got < end => ~StrAt(Len(a)).ok

LEMMA StrTaken ==
    ASSUME NEW a, NEW str \in Strings, Holds(a, Counted(str)), got \in Nat
    PROVE  Takes(a, str)
<1> DEFINE e == Encode(Len(str), LenBytes)
           p == Len(a)
           l == Len(str)
           end == Len(a \o Counted(str))
<1>1. /\ e \in Seq(Nat) /\ Len(e) = LenBytes /\ Decode(e) = l
      /\ str \in Seq(Nat) /\ l \in Nat /\ LenBytes \in Nat
  BY StringFacts DEF Returns
<1>2. Counted(str) = e \o str
  BY DEF Counted
<1> HIDE DEF e
<1>3. Holds(a, e) /\ Holds(a \o e, str)
  BY <1>1, <1>2, HeldParts
<1>4. /\ SubSeq(payload, p + 1, p + Len(e)) = e /\ Len(a \o e) = p + Len(e)
      /\ p \in Nat
  BY <1>3, HeldAt
<1>5. SubSeq(payload, Len(a \o e) + 1, Len(a \o e) + l) = str
  BY <1>3, HeldAt
<1>6. end = p + (LenBytes + l)
  <2>1. end = p + Len(Counted(str))
    BY HeldAt
  <2> QED BY <2>1, CountedFacts
<1> HIDE DEF p, l, end
<1>7. Decode(SubSeq(payload, p + 1, p + LenBytes)) = l
  BY <1>1, <1>4
<1>8. SubSeq(payload, (p + LenBytes) + 1, (p + LenBytes) + l) = str
  BY <1>1, <1>4, <1>5
<1>9. (p + LenBytes) + l = end
  BY <1>1, <1>4, <1>6
<1>10. StrAt(p) = IF got - p < LenBytes THEN Truncated
                  ELSE IF got - (p + LenBytes) < l THEN Truncated
                  ELSE [ok |-> TRUE, val |-> str, end |-> end]
  BY <1>7, <1>8, <1>9, Zenon DEF StrAt, Left
<1>11. ~Truncated.ok
  BY DEF Truncated
<1>12. got >= end <=> ~(got - p < LenBytes) /\ ~(got - (p + LenBytes) < l)
  BY <1>1, <1>4, <1>6
<1>13. end \in Nat
  BY <1>1, <1>4, <1>6
<1>14. CASE got >= end
  <2>1. ~(got < end)
    BY <1>13, <1>14
  <2>2. StrAt(p) = [ok |-> TRUE, val |-> str, end |-> end]
    BY <1>10, <1>12, <1>14, Zenon
  <2> QED BY <2>1, <2>2, Zenon DEF Takes, p, end
<1>15. CASE ~(got >= end)
  <2>1. StrAt(p) = Truncated
    BY <1>10, <1>12, <1>15, Zenon
  <2>2. ~StrAt(p).ok
    BY <2>1, <1>11
  <2> QED BY <1>15, <2>2, Zenon DEF Takes, p, end
<1> QED BY <1>14, <1>15


----------------------------------------------------------------------------
(* What the payload holds, field by field. *)

\* The bytes up to and with each field.
ToCmd == <<given.cmd>>
ToMemory == ToCmd \o Encode(Cast(given.memory), 2)
ToThreads == ToMemory \o Encode(Cast(given.threads), 2)
ToParsers == ToThreads \o Encode(Cast(given.parsers), 2)
ToTimezone == ToParsers \o Counted(given.timezone)
ToQuery == ToTimezone \o Counted(given.query)
ToCount == ToQuery \o Encode(Len(given.params), 2)
ToParam(j) == ToCount \o Pairs(SubSeq(given.params, 1, j))

\* The fields of the helper up to and with each field.
WithCmd == [NoFields EXCEPT !.cmd = given.cmd]
WithMemory == [WithCmd EXCEPT !.memory = Cast(given.memory)]
WithThreads == [WithMemory EXCEPT !.threads = Cast(given.threads)]
WithParsers == [WithThreads EXCEPT !.parsers = Cast(given.parsers)]
WithTimezone == [WithParsers EXCEPT !.timezone = given.timezone]
WithQuery == [WithTimezone EXCEPT !.query = given.query]
WithCount == [WithQuery EXCEPT !.count = Len(given.params)]
WithParam(j) == [WithCount EXCEPT !.params = SubSeq(given.params, 1, j)]

\* The capacities of read_setup.
Doubled(c) == \E i \in 0..SetupMax : c = Capacity[i]

Taken(head, fields) == at = Len(head) /\ out = fields

\* The inductive invariant, by phase.
ReadInv ==
    /\ cap \in Nat /\ got \in Nat /\ at \in Nat
    /\ Doubled(cap) /\ cap <= SetupMax /\ got <= cap /\ at <= got
    /\ pc = "build" => got = 0
    /\ pc \notin {"build", "refused"} => cut \in 0..Len(payload) /\ got <= cut
    /\ pc \notin {"build", "refused", "read", "failed"} => got = cut

TakeInv ==
    /\ pc \in {"build", "refused", "read", "cmd"} => at = 0 /\ out = NoFields
    /\ pc = "memory" => Taken(ToCmd, WithCmd)
    /\ pc = "threads" => Taken(ToMemory, WithMemory)
    /\ pc = "parsers" => Taken(ToThreads, WithThreads)
    /\ pc = "timezone" => Taken(ToParsers, WithParsers)
    /\ pc = "query" => Taken(ToTimezone, WithTimezone)
    /\ pc = "count" => Taken(ToQuery, WithQuery)
    /\ pc = "params" => \E j \in 0..Len(given.params) : Taken(ToParam(j), WithParam(j))

EndInv ==
    /\ pc = "run" => out = Expected /\ cut = Len(payload)
    /\ pc = "failed" => cut < Len(payload) \/ SetupMax <= Len(payload)

PayloadInv ==
    /\ given \in Statements
    /\ pc # "build" => payload = Payload(given)
    /\ ReadInv /\ TakeInv /\ EndInv


----------------------------------------------------------------------------
(* The capacities. *)

LEMMA CapacityFacts ==
    /\ Capacity[0] = FirstCap
    /\ \A k \in Nat : Capacity[k] \in Nat \ {0} /\ Capacity[k + 1] = 2 * Capacity[k]
<1> DEFINE V == Nat \ {0}
           F == [i \in Nat |-> [v \in V |-> 2 * v]]
           Solves(f) == f = [k \in Nat |-> IF k = 0 THEN FirstCap ELSE 2 * f[k - 1]]
<1>0. FirstCap \in V
  BY CapAssumption
<1>1. \A v \in V : 2 * v \in V
  OBVIOUS
<1>2. F \in [Nat -> [V -> V]] /\ \A i \in Nat, v \in V : F[i][v] = 2 * v
  BY <1>1
<1> HIDE DEF F, V
<1>3. PICK f \in [Nat -> V] : FollowsOn(f, FirstCap, F)
  BY <1>0, <1>2, RecursionOnNat
<1>4. f[0] = FirstCap /\ \A i \in Nat \ {0} : f[i] = 2 * f[i - 1]
  BY <1>2, <1>3 DEF FollowsOn
<1>5. Solves(f)
  <2>1. \A k \in Nat : f[k] = IF k = 0 THEN FirstCap ELSE 2 * f[k - 1]
    BY <1>3, <1>4
  <2>2. f = [k \in Nat |-> f[k]]
    BY <1>3
  <2> QED BY <2>1, <2>2
<1>6. Capacity = CHOOSE g : Solves(g)
  BY Zenon DEF Capacity
<1>7. Solves(Capacity)
  BY <1>5, <1>6, Zenon
<1>8. Capacity[0] = FirstCap /\ \A i \in Nat \ {0} : Capacity[i] = 2 * Capacity[i - 1]
  BY <1>7
<1>9. ASSUME NEW k \in Nat PROVE Capacity[k + 1] = 2 * Capacity[k]
  <2>1. k + 1 \in Nat \ {0} /\ (k + 1) - 1 = k
    OBVIOUS
  <2> QED BY <2>1, <1>8
<1>10. \A k \in Nat : Capacity[k] \in V
  <2> DEFINE T == {k \in Nat : Capacity[k] \in V}
  <2>1. 0 \in T
    BY <1>0, <1>8
  <2>2. \A k \in Nat : k \in T => k + 1 \in T
    BY <1>1, <1>9
  <2> HIDE DEF T
  <2>3. \A k \in Nat : k \in T
    BY <2>1, <2>2, Induction
  <2> QED BY <2>3 DEF T
<1> QED BY <1>8, <1>9, <1>10 DEF V

LEMMA CapacityGrows ==
    \A i, d \in Nat : Capacity[i] <= Capacity[i + d]
<1> SUFFICES ASSUME NEW i \in Nat PROVE \A d \in Nat : Capacity[i] <= Capacity[i + d]
  OBVIOUS
<1> DEFINE T == {d \in Nat : Capacity[i] <= Capacity[i + d]}
<1>1. 0 \in T
  BY CapacityFacts
<1>2. ASSUME NEW d \in Nat, d \in T PROVE d + 1 \in T
  <2>1. i + d \in Nat /\ (i + d) + 1 = i + (d + 1)
    OBVIOUS
  <2>2. /\ Capacity[(i + d) + 1] = 2 * Capacity[i + d] /\ Capacity[i + d] \in Nat
        /\ Capacity[i] \in Nat
    BY <2>1, CapacityFacts
  <2>3. Capacity[i] <= Capacity[i + d]
    BY <1>2
  <2>4. Capacity[i] <= 2 * Capacity[i + d]
    BY <2>2, <2>3
  <2>5. Capacity[i] <= Capacity[i + (d + 1)]
    BY <2>1, <2>2, <2>4
  <2> QED BY <2>5
<1> HIDE DEF T
<1>3. \A d \in Nat : d \in T
  BY <1>1, <1>2, Induction
<1> QED BY <1>3 DEF T

\* The doubling of read_setup stops at the limit exactly.
LEMMA LimitMet ==
    ASSUME NEW c, Doubled(c), c <= SetupMax
    PROVE  /\ c \in Nat \ {0} /\ SetupMax \in Nat
           /\ c * 2 > SetupMax => c = SetupMax
           /\ c * 2 <= SetupMax => Doubled(c * 2)
<1>1. PICK k \in 0..SetupMax : SetupMax = Capacity[k]
  BY CapAssumption
<1>2. PICK i \in 0..SetupMax : c = Capacity[i]
  BY DEF Doubled
<1>3. k \in Nat /\ i \in Nat
  OBVIOUS
<1>4. SetupMax \in Nat /\ c \in Nat \ {0} /\ Capacity[i + 1] = c * 2
  BY <1>1, <1>2, <1>3, CapacityFacts
<1>5. CASE i + 1 <= k
  <2>1. k - (i + 1) \in Nat /\ (i + 1) + (k - (i + 1)) = k /\ i + 1 \in Nat
    BY <1>3, <1>5
  <2>2. Capacity[i + 1] <= Capacity[(i + 1) + (k - (i + 1))]
    BY <2>1, CapacityGrows
  <2>3. c * 2 <= SetupMax
    BY <1>1, <1>4, <2>1, <2>2
  <2>4. i + 1 \in 0..SetupMax
    BY <1>3, <1>4, <1>5
  <2>5. Doubled(c * 2)
    BY <1>4, <2>4 DEF Doubled
  <2> QED BY <1>4, <2>3, <2>5
<1>6. CASE ~(i + 1 <= k)
  <2>1. i - k \in Nat /\ k + (i - k) = i
    BY <1>3, <1>6
  <2>2. Capacity[k] <= Capacity[k + (i - k)]
    BY <1>3, <2>1, CapacityGrows
  <2>3. c = SetupMax
    BY <1>1, <1>2, <1>4, <2>1, <2>2
  <2>4. ~(c * 2 <= SetupMax)
    BY <1>4, <2>3
  <2> QED BY <1>4, <2>3, <2>4
<1> QED BY <1>5, <1>6


----------------------------------------------------------------------------
(* The statement's fields and where the payload has them. *)

\* A uint16 fits two bytes.
LEMMA CastFits ==
    ASSUME NEW n \in Nat
    PROVE  Returns(Cast(n), 2)
<1> DEFINE v == Values[2]
<1>1. v \in Nat \ {0}
  BY ValuesFacts
<1> HIDE DEF v
<1>2. n % v \in 0..(v - 1)
  BY <1>1
<1>3. Fits(Cast(n), 2)
  BY <1>2 DEF Fits, Cast, U16, v
<1> QED BY <1>3, DecodeEncode

LEMMA StatementFacts ==
    ASSUME given \in Statements
    PROVE  /\ given.cmd \in CmdTypes /\ given.cmd \in Nat
           /\ given.memory \in Nat /\ given.threads \in Nat /\ given.parsers \in Nat
           /\ given.timezone \in Strings /\ given.query \in Strings
           /\ given.params \in Seq(Params) /\ Len(given.params) \in 0..MaxParams
<1>1. /\ given.cmd \in CmdTypes /\ given.memory \in Limits
      /\ given.threads \in Threads /\ given.parsers \in Threads
      /\ given.timezone \in Strings /\ given.query \in Strings
      /\ \E n \in 0..MaxParams : given.params \in [1..n -> Params]
  BY DEF Statements
<1>2. given.cmd \in Nat /\ given.memory \in Nat /\ given.threads \in Nat /\ given.parsers \in Nat
  <2>1. CmdTypes \subseteq Nat /\ Limits \subseteq Nat
    BY WidthAssumption
  <2>2. Threads \subseteq Limits
    BY DEF Threads
  <2> QED BY <1>1, <2>1, <2>2, Zenon
<1>3. PICK n \in 0..MaxParams : given.params \in [1..n -> Params]
  BY <1>1
<1>4. n \in Nat
  BY WidthAssumption
<1>5. given.params \in Seq(Params) /\ Len(given.params) = n
  BY <1>3, <1>4
<1> QED BY <1>1, <1>2, <1>5

LEMMA CountFits ==
    ASSUME given \in Statements
    PROVE  Returns(Len(given.params), 2)
<1> DEFINE v == Values[2]
           n == Len(given.params)
<1>1. v \in Nat /\ MaxParams \in Nat /\ MaxParams < v /\ n \in 0..MaxParams
  BY ValuesFacts, WidthAssumption, StatementFacts
<1> HIDE DEF v, n
<1>2. n \in 0..(v - 1)
  BY <1>1
<1>3. Fits(n, 2)
  BY <1>2 DEF Fits, v
<1> QED BY <1>3, DecodeEncode DEF n

\* The parameters join up from the left.
PairAt(i) == Counted(given.params[i].name) \o Counted(given.params[i].value)
PairsTo(j) == Pairs(SubSeq(given.params, 1, j))

LEMMA ParamFacts ==
    ASSUME given \in Statements, NEW i \in 1..Len(given.params)
    PROVE  /\ given.params[i] = [name |-> given.params[i].name, value |-> given.params[i].value]
           /\ given.params[i].name \in Strings /\ given.params[i].value \in Strings
           /\ Counted(given.params[i].name) \in Seq(Nat)
           /\ Counted(given.params[i].value) \in Seq(Nat)
           /\ PairAt(i) \in Seq(Nat)
<1>1. given.params[i] \in Params
  BY StatementFacts
<1>2. given.params[i].name \in Strings /\ given.params[i].value \in Strings
  BY <1>1 DEF Params
<1>3. given.params[i] = [name |-> given.params[i].name, value |-> given.params[i].value]
  BY <1>1 DEF Params
<1> DEFINE x == Counted(given.params[i].name)
           y == Counted(given.params[i].value)
<1>4. x \in Seq(Nat) /\ y \in Seq(Nat)
  BY <1>2, CountedFacts
<1> HIDE DEF x, y
<1>5. x \o y \in Seq(Nat)
  BY <1>4
<1> QED BY <1>2, <1>3, <1>4, <1>5 DEF PairAt, x, y

PairsJoin(f) ==
    /\ f \in [0..Len(given.params) -> Seq(Nat)]
    /\ f[0] = <<>>
    /\ \A j \in 1..Len(given.params) : f[j] = f[j - 1] \o PairAt(j)
    /\ \A j \in 0..Len(given.params) : PairsTo(j) = f[j]
    /\ Begins(f, Len(given.params), Nat)

LEMMA PairsJoined ==
    ASSUME given \in Statements
    PROVE  \E f : PairsJoin(f)
<1> DEFINE n == Len(given.params)
           ss == [i \in 1..n |-> PairAt(i)]
<1>1. n \in Nat /\ given.params \in Seq(Params)
  BY StatementFacts
<1>2. \A i \in 1..n : PairAt(i) \in Seq(Nat)
  BY ParamFacts
<1>3. ss \in Seq(Seq(Nat)) /\ Len(ss) = n /\ \A i \in 1..n : ss[i] = PairAt(i)
  <2> HIDE DEF n
  <2>1. \A i \in 1..n : ss[i] = PairAt(i)
    OBVIOUS
  <2>2. ss \in [1..n -> Seq(Nat)]
    BY <1>2
  <2> HIDE DEF ss
  <2> QED BY <2>1, <2>2, <1>1
<1> HIDE DEF ss
<1>4. PICK f : Joins(f, ss, n, Nat)
  <2>1. \E f : Joins(f, ss, Len(ss), Nat) /\ FlattenSeq(ss) = f[Len(ss)]
    BY <1>3, FlattenPrefixes
  <2> QED BY <2>1, <1>3
<1>5. Begins(f, n, Nat)
  BY <1>4, JoinedPrefix
<1>6. ASSUME NEW j \in 0..n PROVE PairsTo(j) = f[j]
  <2> DEFINE ps == SubSeq(given.params, 1, j)
             tt == [i \in DOMAIN ps |-> Counted(ps[i].name) \o Counted(ps[i].value)]
  <2>1. DOMAIN ps = 1..j /\ \A i \in 1..j : ps[i] = given.params[i]
    BY <1>1
  <2>2. j \in Nat /\ \A i \in 1..j : i \in 1..n
    BY <1>1
  <2> HIDE DEF ps
  <2>3. \A i \in 1..j : tt[i] = PairAt(i)
    BY <2>1 DEF PairAt
  <2>4. tt \in [1..j -> Seq(Nat)]
    <3>1. DOMAIN tt = 1..j /\ tt = [i \in 1..j |-> tt[i]]
      BY <2>1
    <3>2. \A i \in 1..j : tt[i] \in Seq(Nat)
      <4> HIDE DEF tt
      <4> QED BY <2>2, <2>3, <1>2
    <3> HIDE DEF tt
    <3> QED BY <3>1, <3>2
  <2>5. PairsTo(j) = FlattenSeq(tt)
    BY DEF PairsTo, Pairs, ps
  <2> HIDE DEF tt
  <2>6. tt \in Seq(Seq(Nat)) /\ Len(tt) = j
    BY <2>2, <2>4
  <2>7. \A i \in 1..j : tt[i] = ss[i]
    BY <2>2, <2>3, <1>3
  <2>8. FlattenSeq(tt) = f[j]
    <3>1. IsPart(tt, ss, j, n, Nat)
      BY <2>6, <2>7 DEF IsPart
    <3> QED BY <1>4, <3>1, FlattenPart
  <2> QED BY <2>5, <2>8
<1>7. /\ f \in [0..n -> Seq(Nat)] /\ f[0] = <<>>
      /\ \A j \in 1..n : f[j] = f[j - 1] \o PairAt(j)
  BY <1>3, <1>4 DEF Joins
<1>8. PairsJoin(f)
  BY <1>5, <1>6, <1>7 DEF PairsJoin
<1> QED BY <1>8


\* Built: the payload is the one build_setup assembled.
Built == given \in Statements /\ payload = Payload(given)

\* What the payload has behind more bytes, it has behind fewer.
LEMMA HeldBefore ==
    ASSUME NEW a \in Seq(Nat), NEW x \in Seq(Nat), NEW y, Holds(a \o x, y)
    PROVE  Holds(a, x)
<1> DEFINE b == a \o x
<1>1. b \in Seq(Nat) /\ y \in Seq(Nat)
  BY ConcatProperties DEF Holds
<1>2. PICK r \in Seq(Nat) : payload = (b \o y) \o r
  BY DEF Holds
<1> HIDE DEF b
<1>3. Associates(b, y, r) /\ y \o r \in Seq(Nat)
  BY <1>1, Associativity, ConcatProperties
<1>4. payload = b \o (y \o r)
  BY <1>2, <1>3, Zenon DEF Associates
<1> QED BY <1>3, <1>4 DEF Holds, b

LEMMA HeadFacts ==
    ASSUME given \in Statements
    PROVE  /\ ToCmd \in Seq(Nat) /\ ToMemory \in Seq(Nat) /\ ToThreads \in Seq(Nat)
           /\ ToParsers \in Seq(Nat) /\ ToTimezone \in Seq(Nat) /\ ToQuery \in Seq(Nat)
           /\ ToCount \in Seq(Nat)
<1>1. ToCmd \in Seq(Nat)
  BY StatementFacts DEF ToCmd
<1>2. \A a, x \in Seq(Nat) : a \o x \in Seq(Nat)
  BY ConcatProperties
<1>3. /\ Encode(Cast(given.memory), 2) \in Seq(Nat)
      /\ Encode(Cast(given.threads), 2) \in Seq(Nat)
      /\ Encode(Cast(given.parsers), 2) \in Seq(Nat)
  BY StatementFacts, CastFits DEF Returns
<1>4. Counted(given.timezone) \in Seq(Nat) /\ Counted(given.query) \in Seq(Nat)
  BY StatementFacts, CountedFacts
<1>5. Encode(Len(given.params), 2) \in Seq(Nat)
  BY CountFits DEF Returns
<1>6. ToMemory \in Seq(Nat)
  BY <1>1, <1>2, <1>3, Zenon DEF ToMemory
<1>7. ToThreads \in Seq(Nat)
  BY <1>6, <1>2, <1>3, Zenon DEF ToThreads
<1>8. ToParsers \in Seq(Nat)
  BY <1>7, <1>2, <1>3, Zenon DEF ToParsers
<1>9. ToTimezone \in Seq(Nat)
  BY <1>8, <1>2, <1>4, Zenon DEF ToTimezone
<1>10. ToQuery \in Seq(Nat)
  BY <1>9, <1>2, <1>4, Zenon DEF ToQuery
<1>11. ToCount \in Seq(Nat)
  BY <1>10, <1>2, <1>5, Zenon DEF ToCount
<1> QED BY <1>1, <1>6, <1>7, <1>8, <1>9, <1>10, <1>11

\* Where the fields stand that come before the parameters.
LEMMA FieldsHeld ==
    ASSUME Built
    PROVE  /\ Holds(<<>>, ToCmd)
           /\ Holds(ToCmd, Encode(Cast(given.memory), 2))
           /\ Holds(ToMemory, Encode(Cast(given.threads), 2))
           /\ Holds(ToThreads, Encode(Cast(given.parsers), 2))
           /\ Holds(ToParsers, Counted(given.timezone))
           /\ Holds(ToTimezone, Counted(given.query))
           /\ Holds(ToQuery, Encode(Len(given.params), 2))
           /\ \A x \in Seq(Nat) : Pairs(given.params) = x => Holds(ToCount, x)
           /\ payload = ToCount \o Pairs(given.params)
<1>0. given \in Statements
  BY DEF Built
<1> DEFINE m == Encode(Cast(given.memory), 2)
           t == Encode(Cast(given.threads), 2)
           p == Encode(Cast(given.parsers), 2)
           z == Counted(given.timezone)
           q == Counted(given.query)
           n == Encode(Len(given.params), 2)
           ps == Pairs(given.params)
<1>1. m \in Seq(Nat) /\ t \in Seq(Nat) /\ p \in Seq(Nat)
  BY <1>0, StatementFacts, CastFits DEF Returns
<1>2. z \in Seq(Nat) /\ q \in Seq(Nat) /\ n \in Seq(Nat)
  BY <1>0, StatementFacts, CountedFacts, CountFits DEF Returns
<1>3. ps \in Seq(Nat)
  <2>1. PICK f : PairsJoin(f)
    BY <1>0, PairsJoined
  <2> DEFINE k == Len(given.params)
  <2>2. k \in Nat /\ given.params \in Seq(Params)
    BY <1>0, StatementFacts
  <2>3. SubSeq(given.params, 1, k) = given.params
    BY <2>2
  <2>4. PairsTo(k) = f[k] /\ f[k] \in Seq(Nat)
    <3>1. /\ f \in [0..k -> Seq(Nat)] /\ \A j \in 0..k : PairsTo(j) = f[j]
      BY <2>1, Zenon DEF PairsJoin
    <3> HIDE DEF k
    <3>2. k \in 0..k
      BY <2>2
    <3> QED BY <3>1, <3>2, Zenon
  <2> QED BY <2>3, <2>4 DEF PairsTo
<1>4. payload = ToCount \o ps
  BY Zenon DEF Built, Payload, ToCount, ToQuery, ToTimezone, ToParsers, ToThreads,
               ToMemory, ToCmd
<1>5. /\ ToMemory = ToCmd \o m /\ ToThreads = ToMemory \o t /\ ToParsers = ToThreads \o p
      /\ ToTimezone = ToParsers \o z /\ ToQuery = ToTimezone \o q /\ ToCount = ToQuery \o n
  BY Zenon DEF ToCount, ToQuery, ToTimezone, ToParsers, ToThreads, ToMemory
<1> HIDE DEF m, t, p, z, q, n, ps
<1>6. Holds(ToCount, ps)
  <2>1. <<>> \in Seq(Nat) /\ ToCount \o ps \in Seq(Nat)
    BY <1>0, <1>3, HeadFacts, ConcatProperties
  <2>2. payload = (ToCount \o ps) \o <<>>
    BY <1>4, <2>1, ConcatEmptySeq
  <2> QED BY <1>0, <1>3, <2>1, <2>2, HeadFacts, Zenon DEF Holds
<1>7. Holds(ToQuery, n)
  BY <1>0, <1>2, <1>5, <1>6, HeadFacts, HeldBefore
<1>8. Holds(ToTimezone, q)
  BY <1>0, <1>2, <1>5, <1>7, HeadFacts, HeldBefore
<1>9. Holds(ToParsers, z)
  BY <1>0, <1>2, <1>5, <1>8, HeadFacts, HeldBefore
<1>10. Holds(ToThreads, p)
  BY <1>0, <1>1, <1>5, <1>9, HeadFacts, HeldBefore
<1>11. Holds(ToMemory, t)
  BY <1>0, <1>1, <1>5, <1>10, HeadFacts, HeldBefore
<1>12. Holds(ToCmd, m)
  BY <1>0, <1>1, <1>5, <1>11, HeadFacts, HeldBefore
<1>13. Holds(<<>>, ToCmd)
  <2> DEFINE e == <<>>
  <2>1. ToCmd \in Seq(Nat) /\ e \in Seq(Nat)
    BY <1>0, HeadFacts
  <2>2. e \o ToCmd = ToCmd
    BY <2>1, ConcatEmptySeq
  <2> HIDE DEF e
  <2>3. Holds(e \o ToCmd, m)
    BY <1>12, <2>2
  <2>4. Holds(e, ToCmd)
    BY <2>1, <2>3, HeldBefore
  <2> QED BY <2>4 DEF e
<1> QED BY <1>4, <1>6, <1>7, <1>8, <1>9, <1>10, <1>11, <1>12, <1>13
    DEF m, t, p, z, q, n, ps

\* Where the parameters stand.
LEMMA ParamsHeld ==
    ASSUME Built
    PROVE  /\ ToParam(0) = ToCount /\ ToParam(Len(given.params)) = payload
           /\ \A j \in 1..Len(given.params) :
                /\ Holds(ToParam(j - 1), Counted(given.params[j].name))
                /\ Holds(ToParam(j - 1) \o Counted(given.params[j].name),
                         Counted(given.params[j].value))
                /\ ToParam(j) = (ToParam(j - 1) \o Counted(given.params[j].name))
                                    \o Counted(given.params[j].value)
<1> DEFINE k == Len(given.params)
<1>0. given \in Statements /\ k \in Nat /\ given.params \in Seq(Params)
  BY StatementFacts DEF Built
<1>1. PICK f : PairsJoin(f)
  BY <1>0, PairsJoined
<1>2. /\ f \in [0..k -> Seq(Nat)] /\ f[0] = <<>>
      /\ \A j \in 1..k : f[j] = f[j - 1] \o PairAt(j)
      /\ \A j \in 0..k : PairsTo(j) = f[j]
      /\ Begins(f, k, Nat)
  BY <1>1 DEF PairsJoin
<1>3. \A j \in 0..k : ToParam(j) = ToCount \o f[j]
  BY <1>2 DEF ToParam, PairsTo
<1>4. ToCount \in Seq(Nat)
  BY <1>0, HeadFacts
<1>5. payload = ToCount \o f[k] /\ Holds(ToCount, f[k])
  <2>1. SubSeq(given.params, 1, k) = given.params
    BY <1>0
  <2>2. Pairs(given.params) = f[k] /\ f[k] \in Seq(Nat)
    <3>1. k \in 0..k
      <4> HIDE DEF k
      <4> QED BY <1>0
    <3>2. PairsTo(k) = f[k] /\ f[k] \in Seq(Nat)
      <4> HIDE DEF k
      <4> QED BY <1>2, <3>1, Zenon
    <3> QED BY <2>1, <3>2, Zenon DEF PairsTo
  <2> QED BY <2>2, FieldsHeld
<1> HIDE DEF k
<1>6. ToParam(0) = ToCount
  <2>1. ToParam(0) = ToCount \o <<>>
    <3>1. 0 \in 0..k
      BY <1>0
    <3> QED BY <1>2, <1>3, <3>1, Zenon
  <2> QED BY <2>1, <1>4, ConcatEmptySeq
<1>7. ToParam(k) = payload
  BY <1>0, <1>3, <1>5
<1>8. ASSUME NEW j \in 1..k
      PROVE  /\ Holds(ToParam(j - 1), Counted(given.params[j].name))
             /\ Holds(ToParam(j - 1) \o Counted(given.params[j].name),
                      Counted(given.params[j].value))
             /\ ToParam(j) = (ToParam(j - 1) \o Counted(given.params[j].name))
                                 \o Counted(given.params[j].value)
  <2> DEFINE x == Counted(given.params[j].name)
             y == Counted(given.params[j].value)
             u == f[j - 1]
             h == ToParam(j - 1)
  <2>1. x \in Seq(Nat) /\ y \in Seq(Nat) /\ PairAt(j) = x \o y /\ x \o y \in Seq(Nat)
    BY <1>0, ParamFacts DEF k, PairAt
  <2>2. j - 1 \in 0..k /\ j \in 0..k
    BY <1>0
  <2>3. h = ToCount \o u /\ u \in Seq(Nat)
    BY <1>2, <1>3, <2>2
  <2>4. f[j] = u \o (x \o y)
    BY <1>2, <2>1
  <2>5. ToParam(j) = ToCount \o f[j]
    BY <1>3, <2>2
  <2>6. PICK r \in Seq(Nat) : f[k] = f[j] \o r
    BY <1>2, <2>2 DEF Begins
  <2> HIDE DEF x, y, u, h
  <2> DEFINE xy == x \o y
  <2>7. xy \in Seq(Nat) /\ f[j] = u \o xy
    BY <2>1, <2>4
  <2> HIDE DEF xy
  <2>8. Associates(ToCount, u, xy)
    BY <1>4, <2>3, <2>7, Associativity
  <2>9. ToParam(j) = h \o xy
    BY <2>3, <2>5, <2>7, <2>8, Zenon DEF Associates
  <2>10. f[j] \in Seq(Nat) /\ h \in Seq(Nat)
    BY <1>4, <2>3, <2>7, ConcatProperties
  <2>11. Associates(ToCount, f[j], r)
    BY <1>4, <2>10, Associativity
  <2>12. payload = (h \o xy) \o r
    BY <1>5, <2>5, <2>6, <2>9, <2>11, Zenon DEF Associates
  <2>13. Holds(h, xy)
    BY <2>7, <2>10, <2>12, Zenon DEF Holds
  <2>14. Holds(h, x) /\ Holds(h \o x, y) /\ (h \o x) \o y = h \o (x \o y)
    BY <2>1, <2>13, HeldParts DEF xy
  <2> QED BY <2>9, <2>14 DEF x, y, h, xy
<1> QED BY <1>6, <1>7, <1>8 DEF k


----------------------------------------------------------------------------
(* The steps of the helper. *)

\* A take: the payload ends before the field does, or the field is taken.
Advanced(next, head, fields) ==
    /\ \/ pc' = "failed" /\ at' = at /\ cut < Len(payload)
       \/ pc' = next /\ at' = Len(head) /\ out' = fields /\ Len(head) \in Nat /\ Len(head) <= got
    /\ UNCHANGED <<given, payload, cut, cap, got>>

LEMMA Take2Step ==
    ASSUME NEW f, NEW next, NEW a, NEW n, Holds(a, Encode(n, 2)), Returns(n, 2),
           at = Len(a), got \in Nat, got = cut, Take2(f, next)
    PROVE  Advanced(next, a \o Encode(n, 2), [out EXCEPT ![f] = n])
<1> DEFINE e == Encode(n, 2)
           p == Len(a)
           end == Len(a \o e)
<1>1. Len(e) = 2 /\ Decode(e) = n
  BY DEF Returns
<1> HIDE DEF e
<1>2. Holds(a, e)
  BY DEF e
<1>3. /\ SubSeq(payload, p + 1, p + Len(e)) = e /\ p \in Nat /\ Len(payload) \in Nat
      /\ end = p + Len(e) /\ p + Len(e) <= Len(payload)
  BY <1>2, HeldAt
<1> HIDE DEF p, end
<1>4. end = p + 2 /\ end \in Nat /\ end <= Len(payload)
  BY <1>1, <1>3
<1>5. Decode(SubSeq(payload, p + 1, p + 2)) = n
  BY <1>1, <1>3
<1>6. at = p
  BY DEF p
<1>7. UNCHANGED <<given, payload, cut, cap, got>>
  BY DEF Take2
<1>8. CASE got - p < 2
  <2>1. pc' = "failed" /\ at' = at
    BY <1>6, <1>8 DEF Take2, Fail, Left
  <2>2. cut < Len(payload)
    BY <1>3, <1>4, <1>8
  <2> QED BY <2>1, <2>2, <1>7 DEF Advanced
<1>9. CASE ~(got - p < 2)
  <2>1. out' = [out EXCEPT ![f] = n] /\ at' = p + 2 /\ pc' = next
    BY <1>5, <1>6, <1>9 DEF Take2, Left
  <2>2. end <= got
    BY <1>3, <1>4, <1>9
  <2> QED BY <2>1, <2>2, <1>4, <1>7 DEF Advanced, end, e
<1> QED BY <1>8, <1>9

LEMMA TakeStrStep ==
    ASSUME NEW f, NEW next, NEW a, NEW str \in Strings, Holds(a, Counted(str)),
           at = Len(a), got \in Nat, got = cut, TakeStr(f, next)
    PROVE  Advanced(next, a \o Counted(str), [out EXCEPT ![f] = str])
<1> DEFINE end == Len(a \o Counted(str))
<1>1. Takes(a, str)
  BY StrTaken
<1>2. end \in Nat /\ end <= Len(payload) /\ Len(payload) \in Nat
  BY HeldAt
<1>3. UNCHANGED <<given, payload, cut, cap, got>>
  BY DEF TakeStr
<1>4. /\ got >= end => StrAt(at) = [ok |-> TRUE, val |-> str, end |-> end]
      /\ got < end => ~StrAt(at).ok
  BY <1>1, Zenon DEF Takes
<1> HIDE DEF end
<1>5. CASE got < end
  <2>1. pc' = "failed" /\ at' = at
    BY <1>4, <1>5, Zenon DEF TakeStr, Fail
  <2>2. cut < Len(payload)
    BY <1>2, <1>5
  <2> QED BY <2>1, <2>2, <1>3 DEF Advanced
<1>6. CASE ~(got < end)
  <2>1. end <= got /\ got >= end
    BY <1>2, <1>6
  <2>2. StrAt(at) = [ok |-> TRUE, val |-> str, end |-> end]
    BY <2>1, <1>4
  <2>3. StrAt(at).ok /\ StrAt(at).val = str /\ StrAt(at).end = end
    BY <2>2
  <2>4. out' = [out EXCEPT ![f] = str] /\ at' = end /\ pc' = next
    BY <2>3 DEF TakeStr
  <2> QED BY <2>1, <2>4, <1>2, <1>3 DEF Advanced, end
<1> QED BY <1>5, <1>6

\* One turn of the parameter loop.
LEMMA TakeParamStep ==
    ASSUME Built, NEW j \in 1..Len(given.params), at = Len(ToParam(j - 1)),
           out.params = SubSeq(given.params, 1, j - 1),
           got \in Nat, got = cut, TakeParam
    PROVE  Advanced("params", ToParam(j),
                    [out EXCEPT !.params = SubSeq(given.params, 1, j)])
<1> DEFINE h == ToParam(j - 1)
           name == given.params[j].name
           value == given.params[j].value
           hn == h \o Counted(name)
           mid == Len(hn)
           end == Len(hn \o Counted(value))
<1>0. given \in Statements
  BY DEF Built
<1>1. /\ name \in Strings /\ value \in Strings
      /\ given.params[j] = [name |-> name, value |-> value]
  BY <1>0, ParamFacts
<1>2. /\ Holds(h, Counted(name)) /\ Holds(hn, Counted(value))
      /\ ToParam(j) = hn \o Counted(value)
  BY ParamsHeld
<1> HIDE DEF h, name, value
<1>3. Takes(h, name)
  BY <1>1, <1>2, StrTaken
<1>4. mid \in Nat
  BY <1>2, HeldAt
<1> HIDE DEF hn
<1>5. Takes(hn, value)
  BY <1>1, <1>2, StrTaken
<1>6. mid <= end /\ end \in Nat /\ end <= Len(payload) /\ Len(payload) \in Nat
  BY <1>2, HeldAt
<1>7. at = Len(h)
  BY DEF h
<1>8. /\ got >= mid => StrAt(at) = [ok |-> TRUE, val |-> name, end |-> mid]
      /\ got < mid => ~StrAt(at).ok
  BY <1>3, <1>7, Zenon DEF Takes, hn
<1>9. /\ got >= end => StrAt(mid) = [ok |-> TRUE, val |-> value, end |-> end]
      /\ got < end => ~StrAt(mid).ok
  BY <1>5, Zenon DEF Takes
<1>10. ToParam(j) = hn \o Counted(value)
  BY <1>2
<1> HIDE DEF mid, end
<1>11. UNCHANGED <<given, payload, cut, cap, got>>
  BY DEF TakeParam
<1>12. CASE got < end
  <2>1. ~StrAt(at).ok \/ ~StrAt(StrAt(at).end).ok
    <3>1. CASE got < mid
      BY <1>8, <3>1
    <3>2. CASE ~(got < mid)
      <4>1. got >= mid
        BY <1>4, <3>2
      <4>2. StrAt(at).end = mid
        BY <4>1, <1>8
      <4> QED BY <4>2, <1>9, <1>12
    <3> QED BY <3>1, <3>2
  <2>2. pc' = "failed" /\ at' = at
    BY <2>1, Zenon DEF TakeParam, Fail
  <2>3. cut < Len(payload)
    BY <1>6, <1>12
  <2> QED BY <2>2, <2>3, <1>11 DEF Advanced
<1>13. CASE ~(got < end)
  <2>1. got >= mid /\ got >= end /\ end <= got
    BY <1>4, <1>6, <1>13
  <2>2. StrAt(at).ok /\ StrAt(at).val = name /\ StrAt(at).end = mid
    BY <2>1, <1>8
  <2>3. StrAt(mid).ok /\ StrAt(mid).val = value /\ StrAt(mid).end = end
    BY <2>1, <1>9
  <2>4. /\ out' = [out EXCEPT !.params = Append(@, [name |-> name, value |-> value])]
        /\ at' = end /\ pc' = pc
    BY <2>2, <2>3, Zenon DEF TakeParam
  <2>5. Append(SubSeq(given.params, 1, j - 1), given.params[j]) = SubSeq(given.params, 1, j)
    <3>1. given.params \in Seq(Params) /\ Len(given.params) \in Nat
      BY <1>0, StatementFacts
    <3> QED BY <3>1
  <2>6. out' = [out EXCEPT !.params = SubSeq(given.params, 1, j)]
    BY <1>1, <2>4, <2>5, Zenon
  <2>7. pc' = "params"
    BY <2>4 DEF TakeParam
  <2>8. at' = Len(ToParam(j))
    BY <1>10, <2>4 DEF end
  <2> QED BY <1>6, <1>10, <1>11, <2>1, <2>6, <2>7, <2>8 DEF Advanced, end
<1> QED BY <1>12, <1>13


----------------------------------------------------------------------------
(* The invariant. *)

Phases == {"memory", "threads", "parsers", "timezone", "query", "count", "params"}

\* The parts of the invariant that do not depend on which field is taken.
LEMMA TakeKeeps ==
    ASSUME PayloadInv, pc = "cmd" \/ pc \in Phases,
           NEW next \in Phases, NEW head, NEW fields, Advanced(next, head, fields)
    PROVE  /\ (given \in Statements)' /\ (pc # "build" => payload = Payload(given))'
           /\ ReadInv' /\ EndInv'
<1>1. UNCHANGED <<given, payload, cut, cap, got>>
  BY DEF Advanced
<1>2. given' \in Statements /\ payload' = Payload(given')
  BY <1>1 DEF PayloadInv, Phases
<1>3. cut \in 0..Len(payload) /\ got <= cut /\ got = cut
  BY DEF PayloadInv, ReadInv, Phases
<1>4. pc' = "failed" \/ pc' \in Phases
  BY DEF Advanced
<1>5. at' \in Nat /\ at' <= got'
  BY <1>1 DEF Advanced, PayloadInv, ReadInv
<1>6. ReadInv'
  <2>1. cap \in Nat /\ got \in Nat /\ Doubled(cap) /\ cap <= SetupMax /\ got <= cap
    BY DEF PayloadInv, ReadInv
  <2>2. (cap \in Nat /\ got \in Nat /\ Doubled(cap) /\ cap <= SetupMax /\ got <= cap)'
    BY <1>1, <2>1, Zenon DEF Doubled
  <2>3. (cut \in 0..Len(payload) /\ got <= cut /\ got = cut)'
    BY <1>1, <1>3
  <2>4. pc' # "build"
    BY <1>4 DEF Phases
  <2> QED BY <1>5, <2>2, <2>3, <2>4, Zenon DEF ReadInv
<1>7. EndInv'
  BY <1>1, <1>4 DEF EndInv, Advanced, Phases
<1> QED BY <1>2, <1>6, <1>7

LEMMA InitPayload == Init => PayloadInv
<1> SUFFICES ASSUME Init PROVE PayloadInv
  OBVIOUS
<1>1. PICK k \in 0..SetupMax : SetupMax = Capacity[k]
  BY CapAssumption
<1>2. k \in Nat /\ SetupMax \in Nat
  <2>1. k \in Nat
    OBVIOUS
  <2> QED BY <1>1, <2>1, CapacityFacts
<1>3. Capacity[0] = FirstCap /\ FirstCap \in Nat
  BY CapacityFacts
<1>4. FirstCap <= SetupMax
  <2>1. 0 \in Nat /\ 0 + k = k
    BY <1>2
  <2>2. Capacity[0] <= Capacity[0 + k]
    BY <1>2, <2>1, CapacityGrows
  <2> QED BY <1>1, <1>3, <2>1, <2>2
<1>5. Doubled(cap)
  <2>1. 0 \in 0..SetupMax
    BY <1>2
  <2> QED BY <1>3, <2>1 DEF Doubled, Init
<1>6. ReadInv
  BY <1>3, <1>4, <1>5 DEF ReadInv, Init
<1> QED BY <1>6 DEF PayloadInv, TakeInv, EndInv, Init

LEMMA BuildKeeps == PayloadInv /\ BuildSetup => PayloadInv'
<1> SUFFICES ASSUME PayloadInv, BuildSetup PROVE PayloadInv'
  OBVIOUS
<1>1. /\ UNCHANGED <<given, cap, got, at, out>> /\ payload' = Payload(given) /\ pc = "build"
      /\ pc' = "refused" \/ (pc' = "read" /\ cut' \in 0..Len(payload'))
  BY Zenon DEF BuildSetup
<1>2. given' \in Statements /\ payload' = Payload(given')
  BY <1>1 DEF PayloadInv
<1>3. cap \in Nat /\ got = 0 /\ at = 0 /\ Doubled(cap) /\ cap <= SetupMax /\ out = NoFields
  BY <1>1 DEF PayloadInv, ReadInv, TakeInv
<1>4. Doubled(cap')
  BY <1>1, <1>3
<1>5. ReadInv'
  <2>1. Doubled(cap)'
    BY <1>4 DEF Doubled
  <2>2. pc' \notin {"build", "refused"} => cut' \in 0..Len(payload') /\ 0 <= cut'
    BY <1>1
  <2> QED BY <1>1, <1>3, <2>1, <2>2 DEF ReadInv
<1>6. TakeInv'
  BY <1>1, <1>3 DEF TakeInv, NoFields
<1>7. EndInv'
  BY <1>1 DEF EndInv
<1> QED BY <1>2, <1>5, <1>6, <1>7 DEF PayloadInv

LEMMA ReadKeeps == PayloadInv /\ (Grow \/ ReadSome \/ ReadEOF) => PayloadInv'
<1> SUFFICES ASSUME PayloadInv, Grow \/ ReadSome \/ ReadEOF PROVE PayloadInv'
  OBVIOUS
<1>1. UNCHANGED <<given, payload, cut, at, out>> /\ pc = "read"
  BY DEF Grow, ReadSome, ReadEOF
<1>2. given' \in Statements /\ payload' = Payload(given')
  BY <1>1 DEF PayloadInv
<1>3. /\ cap \in Nat /\ got \in Nat /\ at = 0 /\ Doubled(cap) /\ cap <= SetupMax
      /\ got <= cap /\ out = NoFields /\ cut \in 0..Len(payload) /\ got <= cut
  BY <1>1 DEF PayloadInv, ReadInv, TakeInv
<1>4. /\ cap \in Nat \ {0} /\ SetupMax \in Nat
      /\ cap * 2 > SetupMax => cap = SetupMax
      /\ cap * 2 <= SetupMax => Doubled(cap * 2)
  BY <1>3, LimitMet
<1>5. Len(payload) \in Nat
  <2>1. Built
    BY <1>1 DEF PayloadInv, Built
  <2> QED BY <2>1, FieldsHeld, HeldAt
<1>6. CASE Grow
  <2>1. CASE TooLarge(cap * 2)
    <3>1. pc' = "failed" /\ cap' = cap /\ got' = got /\ got = cap
      BY <1>6, <2>1 DEF Grow, Fail
    <3>2. cap = SetupMax
      BY <2>1, <1>4 DEF TooLarge
    <3>3. SetupMax <= Len(payload)
      BY <1>3, <1>4, <1>5, <3>1, <3>2
    <3>4. EndInv'
      BY <1>1, <3>1, <3>3 DEF EndInv
    <3>5. Doubled(cap)'
      BY <1>3, <3>1 DEF Doubled
    <3>6. ReadInv'
      BY <1>1, <1>3, <3>1, <3>5 DEF ReadInv
    <3>7. TakeInv'
      BY <3>1 DEF TakeInv
    <3> QED BY <1>2, <3>4, <3>6, <3>7 DEF PayloadInv
  <2>2. CASE ~TooLarge(cap * 2)
    <3>1. pc' = "read" /\ cap' = cap * 2 /\ got' = got
      BY <1>6, <2>2 DEF Grow
    <3>2. cap * 2 <= SetupMax
      BY <2>2, <1>4 DEF TooLarge
    <3>3. Doubled(cap * 2)
      BY <1>4, <3>2
    <3>4. Doubled(cap)'
      BY <3>1, <3>3 DEF Doubled
    <3>5. cap' \in Nat /\ cap' <= SetupMax /\ got' <= cap'
      BY <1>3, <1>4, <3>1, <3>2
    <3>6. ReadInv'
      BY <1>1, <1>3, <3>1, <3>4, <3>5 DEF ReadInv
    <3>7. TakeInv' /\ EndInv'
      BY <1>1, <1>3, <3>1 DEF TakeInv, EndInv, NoFields
    <3> QED BY <1>2, <3>6, <3>7 DEF PayloadInv
  <2> QED BY <2>1, <2>2
<1>7. CASE ReadSome \/ ReadEOF
  <2>1. cap' = cap /\ pc' \in {"read", "cmd"}
    BY <1>7 DEF ReadSome, ReadEOF
  <2>2. /\ got' \in Nat /\ got' <= cap /\ got' <= cut
        /\ pc' = "cmd" => got' = cut
    <3>1. CASE ReadSome
      <4>1. PICK n \in 1..SetupMax : n <= cut - got /\ n <= cap - got /\ got' = got + n
        BY <3>1 DEF ReadSome
      <4>2. pc' = "read"
        BY <3>1 DEF ReadSome
      <4> QED BY <1>3, <1>4, <4>1, <4>2
    <3>2. CASE ReadEOF
      BY <1>3, <3>2 DEF ReadEOF
    <3> QED BY <1>7, <3>1, <3>2
  <2>3. Doubled(cap)'
    BY <1>3, <2>1 DEF Doubled
  <2>4. ReadInv'
    BY <1>1, <1>3, <2>1, <2>2, <2>3 DEF ReadInv
  <2>5. TakeInv' /\ EndInv'
    BY <1>1, <1>3, <2>1 DEF TakeInv, EndInv, NoFields
  <2> QED BY <1>2, <2>4, <2>5 DEF PayloadInv
<1> QED BY <1>6, <1>7


LEMMA TakeCmdKeeps == PayloadInv /\ TakeCmd => PayloadInv'
<1> SUFFICES ASSUME PayloadInv, TakeCmd PROVE PayloadInv'
  OBVIOUS
<1>1. Built /\ pc = "cmd"
  BY DEF PayloadInv, Built, TakeCmd
<1>2. at = 0 /\ out = NoFields /\ got \in Nat /\ got = cut
  BY <1>1 DEF PayloadInv, TakeInv, ReadInv
<1>3. payload[1] = given.cmd /\ 1 <= Len(payload) /\ Len(payload) \in Nat /\ Len(ToCmd) = 1
  <2>1. PICK r \in Seq(Nat) : payload = (<<>> \o ToCmd) \o r
    BY <1>1, FieldsHeld DEF Holds
  <2>2. given.cmd \in Nat
    BY <1>1, StatementFacts DEF Built
  <2>3. ToCmd \in Seq(Nat) /\ Len(ToCmd) = 1 /\ ToCmd[1] = given.cmd
    BY <2>2 DEF ToCmd
  <2>4. payload = ToCmd \o r
    BY <2>1, <2>3, ConcatEmptySeq
  <2>5. /\ Len(ToCmd \o r) = Len(ToCmd) + Len(r) /\ Len(r) \in Nat
        /\ \A i \in 1..Len(ToCmd) : (ToCmd \o r)[i] = ToCmd[i]
    BY <2>3, JoinedAt
  <2>6. 1 \in 1..Len(ToCmd)
    BY <2>3
  <2>7. payload[1] = given.cmd
    BY <2>3, <2>4, <2>5, <2>6, Zenon
  <2>8. Len(payload) = 1 + Len(r)
    BY <2>3, <2>4, <2>5, Zenon
  <2> QED BY <2>3, <2>5, <2>7, <2>8
<1>4. UNCHANGED <<given, payload, cut, cap, got>>
  BY DEF TakeCmd
<1>5. Advanced("memory", ToCmd, WithCmd)
  <2>1. CASE got - at = 0
    <3>1. pc' = "failed" /\ at' = at
      BY <2>1 DEF TakeCmd, Fail, Left
    <3>2. cut < Len(payload)
      BY <1>2, <1>3, <2>1
    <3> QED BY <1>4, <3>1, <3>2 DEF Advanced
  <2>2. CASE got - at # 0
    <3>1. out' = [out EXCEPT !.cmd = payload[at + 1]] /\ at' = at + 1 /\ pc' = "memory"
      BY <2>2, Zenon DEF TakeCmd, Left
    <3>2. at + 1 = 1 /\ 1 <= got
      BY <1>2, <2>2
    <3>3. out' = WithCmd
      BY <1>2, <1>3, <3>1, <3>2 DEF WithCmd
    <3> QED BY <1>3, <1>4, <3>1, <3>2, <3>3 DEF Advanced
  <2> QED BY <2>1, <2>2
<1>6. /\ (given \in Statements)' /\ (pc # "build" => payload = Payload(given))'
      /\ ReadInv' /\ EndInv'
  BY <1>1, <1>5, TakeKeeps DEF Phases
<1>7. TakeInv'
  BY <1>4, <1>5 DEF Advanced, TakeInv, Taken, ToCmd, WithCmd
<1> QED BY <1>6, <1>7 DEF PayloadInv

LEMMA TakeMemoryKeeps == PayloadInv /\ Take2("memory", "threads") => PayloadInv'
<1> SUFFICES ASSUME PayloadInv, Take2("memory", "threads") PROVE PayloadInv'
  OBVIOUS
<1>1. Built /\ pc = "memory"
  BY DEF PayloadInv, Built, Take2
<1>2. at = Len(ToCmd) /\ out = WithCmd /\ got \in Nat /\ got = cut
  BY <1>1 DEF PayloadInv, TakeInv, ReadInv, Taken
<1>3. Holds(ToCmd, Encode(Cast(given.memory), 2)) /\ Returns(Cast(given.memory), 2)
  BY <1>1, FieldsHeld, StatementFacts, CastFits DEF Built
<1>4. Advanced("threads", ToCmd \o Encode(Cast(given.memory), 2),
          [out EXCEPT !.memory = Cast(given.memory)])
  BY <1>2, <1>3, Take2Step
<1>5. Advanced("threads", ToMemory, WithMemory)
  BY <1>2, <1>4, Zenon DEF ToMemory, WithMemory
<1>6. /\ (given \in Statements)' /\ (pc # "build" => payload = Payload(given))'
      /\ ReadInv' /\ EndInv'
  BY <1>1, <1>5, TakeKeeps DEF Phases
<1>7. ToMemory' = ToMemory /\ WithMemory' = WithMemory
  BY <1>5, Zenon DEF Advanced, ToCmd, ToMemory, WithCmd, WithMemory
<1>8. TakeInv'
  BY <1>5, <1>7 DEF Advanced, TakeInv, Taken
<1> QED BY <1>6, <1>8 DEF PayloadInv

LEMMA TakeThreadsKeeps == PayloadInv /\ Take2("threads", "parsers") => PayloadInv'
<1> SUFFICES ASSUME PayloadInv, Take2("threads", "parsers") PROVE PayloadInv'
  OBVIOUS
<1>1. Built /\ pc = "threads"
  BY DEF PayloadInv, Built, Take2
<1>2. at = Len(ToMemory) /\ out = WithMemory /\ got \in Nat /\ got = cut
  BY <1>1 DEF PayloadInv, TakeInv, ReadInv, Taken
<1>3. Holds(ToMemory, Encode(Cast(given.threads), 2)) /\ Returns(Cast(given.threads), 2)
  BY <1>1, FieldsHeld, StatementFacts, CastFits DEF Built
<1>4. Advanced("parsers", ToMemory \o Encode(Cast(given.threads), 2),
          [out EXCEPT !.threads = Cast(given.threads)])
  BY <1>2, <1>3, Take2Step
<1>5. Advanced("parsers", ToThreads, WithThreads)
  BY <1>2, <1>4, Zenon DEF ToThreads, WithThreads
<1>6. /\ (given \in Statements)' /\ (pc # "build" => payload = Payload(given))'
      /\ ReadInv' /\ EndInv'
  BY <1>1, <1>5, TakeKeeps DEF Phases
<1>7. ToThreads' = ToThreads /\ WithThreads' = WithThreads
  BY <1>5, Zenon DEF Advanced, ToCmd, ToMemory, ToThreads, WithCmd, WithMemory, WithThreads
<1>8. TakeInv'
  BY <1>5, <1>7 DEF Advanced, TakeInv, Taken
<1> QED BY <1>6, <1>8 DEF PayloadInv

LEMMA TakeParsersKeeps == PayloadInv /\ Take2("parsers", "timezone") => PayloadInv'
<1> SUFFICES ASSUME PayloadInv, Take2("parsers", "timezone") PROVE PayloadInv'
  OBVIOUS
<1>1. Built /\ pc = "parsers"
  BY DEF PayloadInv, Built, Take2
<1>2. at = Len(ToThreads) /\ out = WithThreads /\ got \in Nat /\ got = cut
  BY <1>1 DEF PayloadInv, TakeInv, ReadInv, Taken
<1>3. Holds(ToThreads, Encode(Cast(given.parsers), 2)) /\ Returns(Cast(given.parsers), 2)
  BY <1>1, FieldsHeld, StatementFacts, CastFits DEF Built
<1>4. Advanced("timezone", ToThreads \o Encode(Cast(given.parsers), 2),
          [out EXCEPT !.parsers = Cast(given.parsers)])
  BY <1>2, <1>3, Take2Step
<1>5. Advanced("timezone", ToParsers, WithParsers)
  BY <1>2, <1>4, Zenon DEF ToParsers, WithParsers
<1>6. /\ (given \in Statements)' /\ (pc # "build" => payload = Payload(given))'
      /\ ReadInv' /\ EndInv'
  BY <1>1, <1>5, TakeKeeps DEF Phases
<1>7. ToParsers' = ToParsers /\ WithParsers' = WithParsers
  BY <1>5, Zenon DEF Advanced, ToCmd, ToMemory, ToThreads, ToParsers, WithCmd,
      WithMemory, WithThreads, WithParsers
<1>8. TakeInv'
  BY <1>5, <1>7 DEF Advanced, TakeInv, Taken
<1> QED BY <1>6, <1>8 DEF PayloadInv

LEMMA TakeTimezoneKeeps == PayloadInv /\ TakeStr("timezone", "query") => PayloadInv'
<1> SUFFICES ASSUME PayloadInv, TakeStr("timezone", "query") PROVE PayloadInv'
  OBVIOUS
<1>1. Built /\ pc = "timezone"
  BY DEF PayloadInv, Built, TakeStr
<1>2. at = Len(ToParsers) /\ out = WithParsers /\ got \in Nat /\ got = cut
  BY <1>1 DEF PayloadInv, TakeInv, ReadInv, Taken
<1>3. Holds(ToParsers, Counted(given.timezone)) /\ given.timezone \in Strings
  BY <1>1, FieldsHeld, StatementFacts DEF Built
<1>4. Advanced("query", ToParsers \o Counted(given.timezone),
          [out EXCEPT !.timezone = given.timezone])
  BY <1>2, <1>3, TakeStrStep
<1>5. Advanced("query", ToTimezone, WithTimezone)
  BY <1>2, <1>4, Zenon DEF ToTimezone, WithTimezone
<1>6. /\ (given \in Statements)' /\ (pc # "build" => payload = Payload(given))'
      /\ ReadInv' /\ EndInv'
  BY <1>1, <1>5, TakeKeeps DEF Phases
<1>7. ToTimezone' = ToTimezone /\ WithTimezone' = WithTimezone
  BY <1>5, Zenon DEF Advanced, ToCmd, ToMemory, ToThreads, ToParsers, ToTimezone,
      WithCmd, WithMemory, WithThreads, WithParsers, WithTimezone
<1>8. TakeInv'
  BY <1>5, <1>7 DEF Advanced, TakeInv, Taken
<1> QED BY <1>6, <1>8 DEF PayloadInv

LEMMA TakeQueryKeeps == PayloadInv /\ TakeStr("query", "count") => PayloadInv'
<1> SUFFICES ASSUME PayloadInv, TakeStr("query", "count") PROVE PayloadInv'
  OBVIOUS
<1>1. Built /\ pc = "query"
  BY DEF PayloadInv, Built, TakeStr
<1>2. at = Len(ToTimezone) /\ out = WithTimezone /\ got \in Nat /\ got = cut
  BY <1>1 DEF PayloadInv, TakeInv, ReadInv, Taken
<1>3. Holds(ToTimezone, Counted(given.query)) /\ given.query \in Strings
  BY <1>1, FieldsHeld, StatementFacts DEF Built
<1>4. Advanced("count", ToTimezone \o Counted(given.query), [out EXCEPT !.query = given.query])
  BY <1>2, <1>3, TakeStrStep
<1>5. Advanced("count", ToQuery, WithQuery)
  BY <1>2, <1>4, Zenon DEF ToQuery, WithQuery
<1>6. /\ (given \in Statements)' /\ (pc # "build" => payload = Payload(given))'
      /\ ReadInv' /\ EndInv'
  BY <1>1, <1>5, TakeKeeps DEF Phases
<1>7. ToQuery' = ToQuery /\ WithQuery' = WithQuery
  BY <1>5, Zenon DEF Advanced, ToCmd, ToMemory, ToThreads, ToParsers, ToTimezone,
      ToQuery, WithCmd, WithMemory, WithThreads, WithParsers, WithTimezone, WithQuery
<1>8. TakeInv'
  BY <1>5, <1>7 DEF Advanced, TakeInv, Taken
<1> QED BY <1>6, <1>8 DEF PayloadInv

LEMMA TakeCountKeeps == PayloadInv /\ Take2("count", "params") => PayloadInv'
<1> SUFFICES ASSUME PayloadInv, Take2("count", "params") PROVE PayloadInv'
  OBVIOUS
<1>1. Built /\ pc = "count"
  BY DEF PayloadInv, Built, Take2
<1>2. at = Len(ToQuery) /\ out = WithQuery /\ got \in Nat /\ got = cut
  BY <1>1 DEF PayloadInv, TakeInv, ReadInv, Taken
<1>3. Holds(ToQuery, Encode(Len(given.params), 2)) /\ Returns(Len(given.params), 2)
  BY <1>1, FieldsHeld, CountFits DEF Built
<1>4. Advanced("params", ToQuery \o Encode(Len(given.params), 2),
          [out EXCEPT !.count = Len(given.params)])
  BY <1>2, <1>3, Take2Step
<1>5. Advanced("params", ToCount, WithCount)
  BY <1>2, <1>4, Zenon DEF ToCount, WithCount
<1>6. /\ (given \in Statements)' /\ (pc # "build" => payload = Payload(given))'
      /\ ReadInv' /\ EndInv'
  BY <1>1, <1>5, TakeKeeps DEF Phases
<1>7. ToCount = ToParam(0) /\ WithCount = WithParam(0)
  <2>1. WithCount.params = <<>> /\ SubSeq(given.params, 1, 0) = <<>>
    BY <1>1, StatementFacts DEF Built, WithCmd, WithMemory, WithThreads, WithParsers,
        WithTimezone, WithQuery, WithCount, NoFields
  <2>2. WithCount = [WithCount EXCEPT !.params = <<>>]
    BY <2>1 DEF WithCmd, WithMemory, WithThreads, WithParsers, WithTimezone, WithQuery,
        WithCount, NoFields
  <2> QED BY <1>1, <2>1, <2>2, ParamsHeld DEF WithParam
<1>8. ToParam(0)' = ToParam(0) /\ WithParam(0)' = WithParam(0)
  BY <1>5, Zenon DEF Advanced, ToParam, WithParam, ToCmd, ToMemory, ToThreads, ToParsers,
      ToTimezone, ToQuery, ToCount, WithCmd, WithMemory, WithThreads, WithParsers,
      WithTimezone, WithQuery, WithCount
<1>9. 0 \in 0..Len(given.params) /\ given' = given
  BY <1>1, <1>5, StatementFacts DEF Built, Advanced
<1>10. pc' = "failed" \/ (pc' = "params" /\ Taken(ToParam(0), WithParam(0))')
  BY <1>5, <1>7, <1>8 DEF Advanced, Taken
<1>11. TakeInv'
  BY <1>9, <1>10 DEF TakeInv
<1> QED BY <1>6, <1>11 DEF PayloadInv


LEMMA TakeParamKeeps == PayloadInv /\ TakeParam => PayloadInv'
<1> SUFFICES ASSUME PayloadInv, TakeParam PROVE PayloadInv'
  OBVIOUS
<1> DEFINE n == Len(given.params)
<1>1. Built /\ pc = "params" /\ got \in Nat /\ got = cut
  BY DEF PayloadInv, Built, TakeParam, ReadInv
<1>2. PICK i \in 0..n : at = Len(ToParam(i)) /\ out = WithParam(i)
  BY <1>1 DEF PayloadInv, TakeInv, Taken
<1>3. /\ WithParam(i).count = n
      /\ WithParam(i).params = SubSeq(given.params, 1, i)
      /\ [WithParam(i) EXCEPT !.params = SubSeq(given.params, 1, i + 1)] = WithParam(i + 1)
  BY DEF WithParam, WithCount, WithQuery, WithTimezone, WithParsers, WithThreads,
         WithMemory, WithCmd, NoFields
<1>4. n \in Nat /\ given.params \in Seq(Params)
  BY <1>1, StatementFacts DEF Built
<1>5. Len(SubSeq(given.params, 1, i)) = i
  BY <1>4
<1>6. i < n
  <2>1. Len(out.params) < out.count
    BY DEF TakeParam
  <2> QED BY <2>1, <1>2, <1>3, <1>5
<1> DEFINE j == i + 1
<1>7. j \in 1..n /\ j - 1 = i
  BY <1>4, <1>6
<1> HIDE DEF j
<1>8. /\ at = Len(ToParam(j - 1)) /\ out.params = SubSeq(given.params, 1, j - 1)
  BY <1>2, <1>3, <1>7
<1>9. Advanced("params", ToParam(j), [out EXCEPT !.params = SubSeq(given.params, 1, j)])
  BY <1>1, <1>7, <1>8, TakeParamStep
<1>10. Advanced("params", ToParam(j), WithParam(j))
  BY <1>2, <1>3, <1>9, Zenon DEF j
<1>11. /\ (given \in Statements)' /\ (pc # "build" => payload = Payload(given))'
       /\ ReadInv' /\ EndInv'
  BY <1>1, <1>10, TakeKeeps DEF Phases
<1>12. ToParam(j)' = ToParam(j) /\ WithParam(j)' = WithParam(j) /\ given' = given
  BY <1>10, Zenon DEF Advanced, ToParam, WithParam, ToCmd, ToMemory, ToThreads, ToParsers,
         ToTimezone, ToQuery, ToCount, WithCmd, WithMemory, WithThreads, WithParsers,
         WithTimezone, WithQuery, WithCount, j
<1>13. pc' = "failed" \/ (pc' = "params" /\ Taken(ToParam(j), WithParam(j))')
  BY <1>10, <1>12 DEF Advanced, Taken
<1>14. j \in 0..n
  BY <1>4, <1>7
<1>15. TakeInv'
  BY <1>12, <1>13, <1>14 DEF TakeInv
<1> QED BY <1>11, <1>15 DEF PayloadInv

\* The loop is over when all of the payload is taken.
LEMMA SessionKeeps == PayloadInv /\ SetupSession => PayloadInv'
<1> SUFFICES ASSUME PayloadInv, SetupSession PROVE PayloadInv'
  OBVIOUS
<1> DEFINE n == Len(given.params)
<1>1. Built /\ pc = "params" /\ got \in Nat /\ got = cut /\ cut \in 0..Len(payload) /\ at <= got
  BY DEF PayloadInv, Built, SetupSession, ReadInv
<1>2. PICK i \in 0..n : at = Len(ToParam(i)) /\ out = WithParam(i)
  BY <1>1 DEF PayloadInv, TakeInv, Taken
<1>3. /\ WithParam(i).count = n /\ WithParam(i).cmd = given.cmd
      /\ WithParam(i).params = SubSeq(given.params, 1, i)
  BY DEF WithParam, WithCount, WithQuery, WithTimezone, WithParsers, WithThreads,
         WithMemory, WithCmd, NoFields
<1>4. n \in Nat /\ given.params \in Seq(Params) /\ given.cmd \in CmdTypes
  BY <1>1, StatementFacts DEF Built
<1>5. i = n
  <2>1. Len(SubSeq(given.params, 1, i)) = i
    BY <1>4
  <2> QED BY <2>1, <1>2, <1>3 DEF SetupSession
<1>6. ToParam(n) = payload /\ Len(payload) \in Nat
  BY <1>1, ParamsHeld, FieldsHeld, HeldAt
<1>7. cut = Len(payload)
  BY <1>1, <1>2, <1>5, <1>6
<1>8. out = Expected
  <2>1. SubSeq(given.params, 1, i) = given.params
    BY <1>4, <1>5
  <2>2. [WithCount EXCEPT !.params = given.params] = Expected
    <3> DEFINE m == Cast(given.memory)
               t == Cast(given.threads)
               p == Cast(given.parsers)
               z == given.timezone
               q == given.query
               ps == given.params
               none == <<>>
    <3>1. Expected = [cmd |-> given.cmd, memory |-> m, threads |-> t, parsers |-> p,
                      timezone |-> z, query |-> q, count |-> n, params |-> ps]
      BY Zenon DEF Expected
    <3>2. /\ WithMemory = [WithCmd EXCEPT !.memory = m]
          /\ WithThreads = [WithMemory EXCEPT !.threads = t]
          /\ WithParsers = [WithThreads EXCEPT !.parsers = p]
          /\ WithTimezone = [WithParsers EXCEPT !.timezone = z]
          /\ WithQuery = [WithTimezone EXCEPT !.query = q]
          /\ WithCount = [WithQuery EXCEPT !.count = n]
      BY Zenon DEF WithCount, WithQuery, WithTimezone, WithParsers, WithThreads, WithMemory
    <3>3. WithCmd = [cmd |-> given.cmd, memory |-> 0, threads |-> 0, parsers |-> 0,
              timezone |-> none, query |-> none, count |-> 0, params |-> none]
      BY DEF WithCmd, NoFields
    <3> HIDE DEF m, t, p, z, q, n, ps, none
    <3>4. WithParsers = [cmd |-> given.cmd, memory |-> m, threads |-> t, parsers |-> p,
              timezone |-> none, query |-> none, count |-> 0, params |-> none]
      BY <3>2, <3>3
    <3>5. WithCount = [cmd |-> given.cmd, memory |-> m, threads |-> t, parsers |-> p,
              timezone |-> z, query |-> q, count |-> n, params |-> none]
      <4>1. WithTimezone = [cmd |-> given.cmd, memory |-> m, threads |-> t,
                parsers |-> p, timezone |-> z, query |-> none, count |-> 0, params |-> none]
        <5>1. WithTimezone = [WithParsers EXCEPT !.timezone = z]
          BY <3>2
        <5> QED BY <3>4, <5>1
      <4>2. WithQuery = [cmd |-> given.cmd, memory |-> m, threads |-> t, parsers |-> p,
                timezone |-> z, query |-> q, count |-> 0, params |-> none]
        <5>1. WithQuery = [WithTimezone EXCEPT !.query = q]
          BY <3>2
        <5> QED BY <4>1, <5>1
      <4>3. WithCount = [cmd |-> given.cmd, memory |-> m, threads |-> t, parsers |-> p,
                timezone |-> z, query |-> q, count |-> n, params |-> none]
        <5>1. WithCount = [WithQuery EXCEPT !.count = n]
          BY <3>2
        <5> QED BY <4>2, <5>1
      <4> QED BY <4>3
    <3>6. [WithCount EXCEPT !.params = ps] = Expected
      BY <3>1, <3>5
    <3> QED BY <3>6 DEF ps
  <2> QED BY <1>2, <2>1, <2>2, Zenon DEF WithParam
<1>9. pc' = "run" /\ UNCHANGED <<given, payload, cut, cap, got, at, out>>
  BY <1>2, <1>3, <1>4 DEF SetupSession
<1>10. Expected' = Expected
  BY <1>9, Zenon DEF Expected
<1>11. EndInv'
  BY <1>7, <1>8, <1>9, <1>10 DEF EndInv
<1>12. (given \in Statements)' /\ (pc # "build" => payload = Payload(given))'
  BY <1>1, <1>9 DEF Built
<1>13. ReadInv'
  <2>1. Doubled(cap)'
    BY <1>9, Zenon DEF PayloadInv, ReadInv, Doubled
  <2> QED BY <1>1, <1>9, <2>1 DEF PayloadInv, ReadInv
<1>14. TakeInv'
  BY <1>9 DEF TakeInv
<1> QED BY <1>11, <1>12, <1>13, <1>14 DEF PayloadInv

\* A step that leaves the state alone.
LEMMA SamePayload == PayloadInv /\ UNCHANGED vars => PayloadInv'
<1> SUFFICES ASSUME PayloadInv, UNCHANGED vars PROVE PayloadInv'
  OBVIOUS
<1>1. UNCHANGED <<given, payload, cut, pc, cap, got, at, out>>
  BY DEF vars
<1>2. /\ ToCmd' = ToCmd /\ ToMemory' = ToMemory /\ ToThreads' = ToThreads
      /\ ToParsers' = ToParsers /\ ToTimezone' = ToTimezone /\ ToQuery' = ToQuery
      /\ \A j \in 0..Len(given.params) : ToParam(j)' = ToParam(j)
  BY <1>1, Zenon DEF ToParam, ToCmd, ToMemory, ToThreads, ToParsers, ToTimezone, ToQuery,
         ToCount
<1>3. /\ WithCmd' = WithCmd /\ WithMemory' = WithMemory /\ WithThreads' = WithThreads
      /\ WithParsers' = WithParsers /\ WithTimezone' = WithTimezone /\ WithQuery' = WithQuery
      /\ \A j \in 0..Len(given.params) : WithParam(j)' = WithParam(j)
  BY <1>1, Zenon DEF WithParam, WithCmd, WithMemory, WithThreads, WithParsers, WithTimezone,
         WithQuery, WithCount
<1>4. ReadInv'
  BY <1>1, Zenon DEF PayloadInv, ReadInv, Doubled
<1>5. EndInv'
  BY <1>1, Zenon DEF PayloadInv, EndInv, Expected
<1>6. TakeInv'
  BY <1>1, <1>2, <1>3 DEF PayloadInv, TakeInv, Taken, NoFields
<1>7. (given \in Statements)' /\ (pc # "build" => payload = Payload(given))'
  BY <1>1 DEF PayloadInv
<1> QED BY <1>4, <1>5, <1>6, <1>7 DEF PayloadInv

\* Through build_setup, the reads of read_setup and the take functions, the
\* helper's cursor stands behind the fields it has taken, those are the
\* fields of the statement, and its buffer has one of the doubled capacities.
THEOREM PayloadInvariance == Spec => []PayloadInv
<1>1. PayloadInv /\ [Next]_vars => PayloadInv'
  <2> SUFFICES ASSUME PayloadInv, [Next]_vars PROVE PayloadInv'
    OBVIOUS
  <2>1. CASE BuildSetup
    BY <2>1, BuildKeeps
  <2>2. CASE Grow \/ ReadSome \/ ReadEOF
    BY <2>2, ReadKeeps
  <2>3. CASE TakeCmd
    BY <2>3, TakeCmdKeeps
  <2>4. CASE TakeSettings
    BY <2>4, TakeMemoryKeeps, TakeThreadsKeeps, TakeParsersKeeps DEF TakeSettings
  <2>5. CASE TakeNames
    BY <2>5, TakeTimezoneKeeps, TakeQueryKeeps DEF TakeNames
  <2>6. CASE TakeCount
    BY <2>6, TakeCountKeeps DEF TakeCount
  <2>7. CASE TakeParam
    BY <2>7, TakeParamKeeps
  <2>8. CASE SetupSession
    BY <2>8, SessionKeeps
  <2>9. CASE Terminated \/ UNCHANGED vars
    BY <2>9, SamePayload DEF Terminated
  <2> QED BY <2>1, <2>2, <2>3, <2>4, <2>5, <2>6, <2>7, <2>8, <2>9, Zenon DEF Next
<1> QED BY InitPayload, <1>1, PTL DEF Spec

\* A query that runs is the query that was sent: whatever the widths of a byte
\* and of a length, the pieces the reads come in and the strings, what the take
\* functions have is what build_setup was given, each GUC as its uint16 cast.
THEOREM RoundTripped == Spec => []RoundTrip
<1>1. PayloadInv => RoundTrip
  BY DEF PayloadInv, EndInv, RoundTrip
<1> QED BY <1>1, PayloadInvariance, PTL

\* A payload that lost its tail never runs: the helper notices the end of the
\* channel in whichever field it falls.
THEOREM TruncatedStopped == Spec => []TruncatedNeverRuns
<1>1. PayloadInv => TruncatedNeverRuns
  BY DEF PayloadInv, EndInv, TruncatedNeverRuns
<1> QED BY <1>1, PayloadInvariance, PTL

\* read_setup never reads past its buffer, its buffer never passes the limit,
\* and the take functions never read past what has arrived.
THEOREM ReadsInBounds == Spec => []InBounds
<1>1. PayloadInv => InBounds
  BY DEF PayloadInv, ReadInv, InBounds
<1> QED BY <1>1, PayloadInvariance, PTL

\* The helper refuses no payload below the limit that arrives whole: read_setup
\* always has room for it, and every take finds its field.
THEOREM WholeAccepted == Spec => []WholeIsAccepted
<1>1. PayloadInv => WholeIsAccepted
  <2> SUFFICES ASSUME PayloadInv, pc = "failed", Len(payload) < SetupMax
               PROVE  cut < Len(payload)
    BY DEF WholeIsAccepted
  <2>1. cut < Len(payload) \/ SetupMax <= Len(payload)
    BY DEF PayloadInv, EndInv
  <2>2. Len(payload) \in Nat /\ SetupMax \in Nat
    <3>1. Built
      BY DEF PayloadInv, Built
    <3>2. Doubled(cap) /\ cap <= SetupMax
      BY DEF PayloadInv, ReadInv
    <3> QED BY <3>1, <3>2, LimitMet, FieldsHeld, HeldAt
  <2> QED BY <2>1, <2>2
<1> QED BY <1>1, PayloadInvariance, PTL
=============================================================================
