-------------------------- MODULE CopyQueryProofs --------------------------
(***************************************************************************)
(* What the operators of CopyQuery compute, for every text, URL and set of *)
(* columns.                                                                *)
(***************************************************************************)
EXTENDS CopyQuery, DataInduction, FiniteSetTheorems

----------------------------------------------------------------------------
(* Texts. *)

LEMMA TextFacts ==
    /\ <<>> \in Text /\ \A t \in Token : <<t>> \in Text
    /\ \A x, y \in Text : x \o y \in Text
    /\ <<"esc">> \in Text /\ <<"ctl">> \in Text /\ <<"esc", "esc">> \in Text
    /\ <<"sp">> \in Text /\ <<"q">> \in Text /\ <<"comma", "sp">> \in Text
    /\ AutoStructure \in Text
<1>1. <<>> \in Text /\ \A t \in Token : <<t>> \in Text
  BY DEF Text
<1>2. \A x, y \in Text : x \o y \in Text
  BY ConcatProperties DEF Text
<1>3. \A t, u \in Token : <<t, u>> \in Text
  BY DEF Text
<1> QED BY <1>1, <1>2, <1>3, TokenAssumption DEF AutoStructure

\* One step of Unescaped, at position i: what it reads there before the rest.
Step(text, i, R) ==
    IF i > Len(text) THEN <<>>
    ELSE IF text[i] = "esc" /\ i < Len(text)
    THEN (IF text[i + 1] = "esc" THEN <<"esc">> ELSE <<"ctl">>) \o R[i + 2]
    ELSE <<text[i]>> \o R[i + 1]

\* R[i] is what Unescaped reads from position i on.
Reads(R, text) == \A i \in 1..(Len(text) + 1) : R[i] = Step(text, i, R)

LEMMA UnescapedSteps ==
    ASSUME NEW text \in Text
    PROVE  \E R : Reads(R, text) /\ Unescaped(text) = R[1]
<1> DEFINE n == Len(text)
           Solves(R) == R = [i \in 1..(n + 1) |->
              IF i > n THEN <<>>
              ELSE IF text[i] = "esc" /\ i < n
              THEN (IF text[i + 1] = "esc" THEN <<"esc">> ELSE <<"ctl">>) \o R[i + 2]
              ELSE <<text[i]>> \o R[i + 1]]
           Rest == CHOOSE R : Solves(R)
           V == Text \X Text
           \* Right to left: the j-th value is the rest at n + 1 - j and the one after.
           Back(j, v) ==
              IF text[n + 1 - j] = "esc" /\ n + 1 - j < n
              THEN (IF text[n + 2 - j] = "esc" THEN <<"esc">> ELSE <<"ctl">>) \o v[2]
              ELSE <<text[n + 1 - j]>> \o v[1]
           F == [j \in 1..n |-> [v \in V |-> <<Back(j, v), v[1]>>]]
<1>1. n \in Nat /\ \A i \in 1..n : text[i] \in Token
  BY DEF Text
<1>2. Unescaped(text) = Rest[1]
  BY Zenon DEF Unescaped
<1> HIDE DEF n, Rest
<1>3. \A j \in 1..n, v \in V : Back(j, v) \in Text
  <2> SUFFICES ASSUME NEW j \in 1..n, NEW v \in V PROVE Back(j, v) \in Text
    OBVIOUS
  <2>1. n + 1 - j \in 1..n /\ text[n + 1 - j] \in Token
    BY <1>1
  <2>2. <<text[n + 1 - j]>> \in Text /\ <<"esc">> \in Text /\ <<"ctl">> \in Text
    BY <2>1, TextFacts
  <2>3. v[1] \in Text /\ v[2] \in Text
    OBVIOUS
  <2> QED BY <2>2, <2>3, TextFacts
<1>4. PICK h \in [0..n -> V] :
        h[0] = <<<<>>, <<>>>> /\ \A j \in 1..n : h[j] = <<Back(j, h[j - 1]), h[j - 1][1]>>
  <2>1. F \in [1..n -> [V -> V]]
    BY <1>3
  <2>2. \A j \in 1..n, v \in V : F[j][v] = <<Back(j, v), v[1]>>
    OBVIOUS
  <2> HIDE DEF F, Back
  <2>3. <<<<>>, <<>>>> \in V
    BY TextFacts
  <2>4. PICK h \in [0..n -> V] : Follows(h, <<<<>>, <<>>>>, F, n)
    <3> HIDE DEF V
    <3> QED BY <1>1, <2>1, <2>3, RecursionTo
  <2>5. \A j \in 1..n : h[j - 1] \in V
    BY <1>1
  <2>6. h[0] = <<<<>>, <<>>>> /\ \A j \in 1..n : h[j] = <<Back(j, h[j - 1]), h[j - 1][1]>>
    BY <2>2, <2>4, <2>5 DEF Follows
  <2> QED BY <2>6
<1> HIDE DEF F
<1>5. \E R : Solves(R)
  <2> DEFINE R == [i \in 1..(n + 1) |-> h[n + 1 - i][1]]
  <2>1. \A i \in 1..(n + 1) : R[i] = h[n + 1 - i][1]
    OBVIOUS
  <2>2. R = [i \in 1..(n + 1) |-> R[i]]
    OBVIOUS
  <2> HIDE DEF R
  <2>3. R[n + 1] = <<>>
    BY <1>1, <1>4, <2>1
  <2>4. \A i \in 1..n : h[n + 1 - i][1] = Back(n + 1 - i, h[n - i])
    <3> SUFFICES ASSUME NEW i \in 1..n PROVE h[n + 1 - i][1] = Back(n + 1 - i, h[n - i])
      OBVIOUS
    <3>1. n + 1 - i \in 1..n /\ (n + 1 - i) - 1 = n - i
      BY <1>1
    <3> HIDE DEF Back
    <3>2. h[n + 1 - i] = <<Back(n + 1 - i, h[n - i]), h[n - i][1]>>
      BY <3>1, <1>4
    <3> QED BY <3>2
  <2>5. \A i \in 1..n : h[n - i][1] = R[i + 1]
    <3> SUFFICES ASSUME NEW i \in 1..n PROVE h[n - i][1] = R[i + 1]
      OBVIOUS
    <3>1. i + 1 \in 1..(n + 1) /\ n + 1 - (i + 1) = n - i
      BY <1>1
    <3> QED BY <3>1, <2>1
  <2>6. \A i \in 1..(n - 1) : h[n - i][2] = R[i + 2]
    <3> SUFFICES ASSUME NEW i \in 1..(n - 1) PROVE h[n - i][2] = R[i + 2]
      OBVIOUS
    <3>1. n - i \in 1..n /\ i + 2 \in 1..(n + 1) /\ n + 1 - (i + 2) = n - i - 1
      BY <1>1
    <3> HIDE DEF Back
    <3>2. h[n - i] = <<Back(n - i, h[n - i - 1]), h[n - i - 1][1]>>
      BY <3>1, <1>4
    <3>3. h[n - i][2] = h[n - i - 1][1]
      BY <3>2
    <3> QED BY <3>1, <3>3, <2>1
  <2>7. \A i \in 1..n : R[i] =
              IF text[i] = "esc" /\ i < n
              THEN (IF text[i + 1] = "esc" THEN <<"esc">> ELSE <<"ctl">>) \o R[i + 2]
              ELSE <<text[i]>> \o R[i + 1]
    <3> SUFFICES ASSUME NEW i \in 1..n
                 PROVE  R[i] = IF text[i] = "esc" /\ i < n
                    THEN (IF text[i + 1] = "esc" THEN <<"esc">> ELSE <<"ctl">>) \o R[i + 2]
                    ELSE <<text[i]>> \o R[i + 1]
      OBVIOUS
    <3>1. n + 1 - (n + 1 - i) = i /\ n + 2 - (n + 1 - i) = i + 1 /\ (i < n => i \in 1..(n - 1))
      BY <1>1
    <3>2. R[i] = h[n + 1 - i][1]
      BY <1>1, <2>1
    <3>3. R[i] = Back(n + 1 - i, h[n - i])
      BY <3>2, <2>4, Zenon
    <3>4. Back(n + 1 - i, h[n - i]) =
              IF text[i] = "esc" /\ i < n
              THEN (IF text[i + 1] = "esc" THEN <<"esc">> ELSE <<"ctl">>) \o h[n - i][2]
              ELSE <<text[i]>> \o h[n - i][1]
      BY <3>1, Zenon
    <3> HIDE DEF Back
    <3> QED BY <3>1, <3>3, <3>4, <2>5, <2>6
  <2>8. \A i \in 1..(n + 1) : R[i] =
              IF i > n THEN <<>>
              ELSE IF text[i] = "esc" /\ i < n
              THEN (IF text[i + 1] = "esc" THEN <<"esc">> ELSE <<"ctl">>) \o R[i + 2]
              ELSE <<text[i]>> \o R[i + 1]
    <3> SUFFICES ASSUME NEW i \in 1..(n + 1)
                 PROVE  R[i] = IF i > n THEN <<>>
                    ELSE IF text[i] = "esc" /\ i < n
                    THEN (IF text[i + 1] = "esc" THEN <<"esc">> ELSE <<"ctl">>) \o R[i + 2]
                    ELSE <<text[i]>> \o R[i + 1]
      OBVIOUS
    <3>1. i > n => i = n + 1
      BY <1>1
    <3>2. ~(i > n) => i \in 1..n
      BY <1>1
    <3> QED BY <3>1, <3>2, <2>3, <2>7, Zenon
  <2>9. Solves(R)
    BY <2>2, <2>8, Zenon
  <2> QED BY <2>9
<1>6. Solves(Rest)
  BY <1>5, Zenon DEF Rest
<1>7. \A i \in 1..(n + 1) : Rest[i] = Step(text, i, Rest)
  BY <1>6, Zenon DEF Step, n
<1> QED BY <1>2, <1>7 DEF n, Reads

\* The pieces Doubled joins.
Piece(token) == IF token = "esc" THEN <<"esc", "esc">> ELSE <<token>>

LEMMA DoubledJoins ==
    ASSUME NEW text \in Text
    PROVE  \E f : /\ Joins(f, [i \in 1..Len(text) |-> Piece(text[i])], Len(text), Token)
                  /\ Doubled(text) = f[Len(text)]
<1> DEFINE ss == [i \in 1..Len(text) |-> Piece(text[i])]
<1>1. Len(text) \in Nat /\ \A i \in 1..Len(text) : text[i] \in Token
  BY DEF Text
<1>2. \A t \in Token : Piece(t) \in Seq(Token)
  BY TextFacts DEF Piece, Text
<1>3. ss \in Seq(Seq(Token)) /\ Len(ss) = Len(text)
  BY <1>1, <1>2
<1>4. DOMAIN text = 1..Len(text)
  BY DEF Text
<1>5. Doubled(text) = FlattenSeq(ss)
  BY <1>4, Zenon DEF Doubled, Piece
<1> HIDE DEF ss
<1>6. \E f : Joins(f, ss, Len(ss), Token) /\ FlattenSeq(ss) = f[Len(ss)]
  BY <1>3, FlattenPrefixes
<1> QED BY <1>3, <1>5, <1>6 DEF ss

LEMMA DoubledText == ASSUME NEW text \in Text PROVE Doubled(text) \in Text
<1>1. PICK f : /\ Joins(f, [i \in 1..Len(text) |-> Piece(text[i])], Len(text), Token)
               /\ Doubled(text) = f[Len(text)]
  BY DoubledJoins
<1>2. f \in [0..Len(text) -> Seq(Token)] /\ Len(text) \in 0..Len(text)
  BY <1>1 DEF Joins, Text
<1> QED BY <1>1, <1>2 DEF Text

\* What Unescaped reads where the piece of one token stands.
ReadsPiece(R, a, token) ==
    R[Len(a) + 1] = <<token>> \o R[Len(a \o Piece(token)) + 1]

LEMMA UnescapedPiece ==
    ASSUME NEW u \in Text, NEW R, Reads(R, u),
           NEW a \in Text, NEW token \in Token, NEW b \in Text,
           u = (a \o Piece(token)) \o b
    PROVE  ReadsPiece(R, a, token)
<1>1. Len(a) \in Nat /\ Len(b) \in Nat /\ Len(u) \in Nat
  BY DEF Text
<1>2. CASE token = "esc"
  <2>1. /\ Len(a \o Piece(token)) = Len(a) + 2 /\ Len(u) = Len(a) + 2 + Len(b)
        /\ u[Len(a) + 1] = "esc" /\ u[Len(a) + 2] = "esc"
    <3> DEFINE p == <<"esc", "esc">>
    <3>1. p \in Seq(Token) /\ Len(p) = 2 /\ p[1] = "esc" /\ p[2] = "esc" /\ Piece(token) = p
      BY <1>2, TextFacts DEF Text, Piece
    <3> HIDE DEF p
    <3>2. 1 \in 1..Len(p) /\ 2 \in 1..Len(p) 
      BY <3>1
    <3>3. a \in Seq(Token) /\ b \in Seq(Token) /\ p \in Seq(Token)
      BY <3>1 DEF Text
    <3>4. /\ Len(a \o p) = Len(a) + Len(p) /\ Len((a \o p) \o b) = Len(a) + Len(p) + Len(b)
          /\ \A i \in 1..Len(p) : ((a \o p) \o b)[Len(a) + i] = p[i]
      BY <3>3, MiddleAt
    <3> QED BY <3>1, <3>2, <3>4
  <2>2. Len(a) + 1 \in 1..(Len(u) + 1) /\ ~(Len(a) + 1 > Len(u)) /\ Len(a) + 1 < Len(u)
        /\ Len(a) + 1 + 1 = Len(a) + 2
    BY <1>1, <2>1
  <2>3. R[Len(a) + 1] = Step(u, Len(a) + 1, R)
    BY <2>2 DEF Reads
  <2>4. Step(u, Len(a) + 1, R) = <<"esc">> \o R[Len(a) + 1 + 2]
    BY <2>1, <2>2 DEF Step
  <2>5. Len(a) + 1 + 2 = Len(a \o Piece(token)) + 1
    BY <1>1, <2>1
  <2> QED BY <1>2, <2>3, <2>4, <2>5 DEF ReadsPiece
<1>3. CASE token # "esc"
  <2>1. /\ Len(a \o Piece(token)) = Len(a) + 1 /\ Len(u) = Len(a) + 1 + Len(b)
        /\ u[Len(a) + 1] = token
    <3> DEFINE p == <<token>>
    <3>1. p \in Seq(Token) /\ Len(p) = 1 /\ p[1] = token /\ Piece(token) = p
      BY <1>3, TextFacts DEF Text, Piece
    <3> HIDE DEF p
    <3>2. 1 \in 1..Len(p) 
      BY <3>1
    <3>3. a \in Seq(Token) /\ b \in Seq(Token) /\ p \in Seq(Token)
      BY <3>1 DEF Text
    <3>4. /\ Len(a \o p) = Len(a) + Len(p) /\ Len((a \o p) \o b) = Len(a) + Len(p) + Len(b)
          /\ \A i \in 1..Len(p) : ((a \o p) \o b)[Len(a) + i] = p[i]
      BY <3>3, MiddleAt
    <3> QED BY <3>1, <3>2, <3>4
  <2>2. Len(a) + 1 \in 1..(Len(u) + 1) /\ ~(Len(a) + 1 > Len(u))
    BY <1>1, <2>1
  <2>3. R[Len(a) + 1] = Step(u, Len(a) + 1, R)
    BY <2>2 DEF Reads
  <2>4. Step(u, Len(a) + 1, R) = <<token>> \o R[Len(a) + 1 + 1]
    BY <1>3, <2>1, <2>2 DEF Step
  <2> QED BY <2>1, <2>3, <2>4 DEF ReadsPiece
<1> QED BY <1>2, <1>3

\* Doubling the backslashes of a text, as chdb_url_columns does to the structure
\* it pins, is undone by chDB's unescaping of a String parameter, for every text.
THEOREM UnescapedDoubled ==
    ASSUME NEW text \in Text
    PROVE  Unescaped(Doubled(text)) = text
<1> DEFINE n == Len(text)
           ss == [i \in 1..n |-> Piece(text[i])]
           u == Doubled(text)
<1>1. n \in Nat /\ u \in Text /\ \A i \in 1..n : text[i] \in Token /\ ss[i] = Piece(text[i])
  BY DoubledText DEF Text
<1>2. PICK f : Joins(f, ss, n, Token) /\ u = f[n]
  BY DoubledJoins
<1>3. PICK R : Reads(R, u) /\ Unescaped(u) = R[1]
  BY <1>1, UnescapedSteps
<1> HIDE DEF n, ss, u
<1>4. \A i \in 0..n : f[i] \in Text /\ \E t \in Text : u = f[i] \o t
  <2>1. Begins(f, n, Token)
    BY <1>2, JoinedPrefix
  <2>2. \A i \in 0..n : f[i] \in Text
    BY <1>2 DEF Joins, Text
  <2> QED BY <1>2, <2>1, <2>2 DEF Text, Begins
<1>5. \A i \in 1..n : f[i] = f[i - 1] \o Piece(text[i])
  BY <1>1, <1>2 DEF Joins
<1> DEFINE Read(k) == R[Len(f[n - k]) + 1] = SubSeq(text, n - k + 1, n)
           T == {k \in 0..n : Read(k)}
<1>6. 0 \in T
  <2>1. Len(u) \in Nat /\ Len(u) + 1 \in 1..(Len(u) + 1) /\ Len(u) + 1 > Len(u)
    BY <1>1 DEF Text
  <2>2. R[Len(u) + 1] = <<>>
    BY <1>3, <2>1 DEF Reads, Step
  <2>3. SubSeq(text, n + 1, n) = <<>>
    BY <1>1 DEF n, Text
  <2>4. n - 0 = n /\ n - 0 + 1 = n + 1
    BY <1>1
  <2>5. Read(0)
    BY <1>2, <2>2, <2>3, <2>4
  <2> QED BY <1>1, <2>5
<1>7. ASSUME NEW k \in 0..(n - 1), k \in T PROVE k + 1 \in T
  <2> DEFINE i == n - k
  <2>1. i \in 1..n /\ n - (k + 1) = i - 1 /\ i - 1 \in 0..n /\ i \in 0..n /\ k + 1 \in 0..n
        /\ n - k = i
    BY <1>1
  <2> HIDE DEF i
  <2>2. PICK t \in Text : u = f[i] \o t
    BY <1>4, <2>1
  <2>3. R[Len(f[i - 1]) + 1] = <<text[i]>> \o R[Len(f[i]) + 1]
    <3>1. f[i] = f[i - 1] \o Piece(text[i]) /\ f[i - 1] \in Text /\ text[i] \in Token
      BY <1>1, <1>4, <1>5, <2>1
    <3>2. u = (f[i - 1] \o Piece(text[i])) \o t
      BY <2>2, <3>1
    <3>3. R[Len(f[i - 1]) + 1] = <<text[i]>> \o R[Len(f[i - 1] \o Piece(text[i])) + 1]
      <4> DEFINE a == f[i - 1]
                 token == text[i]
      <4>1. a \in Text /\ token \in Token /\ u = (a \o Piece(token)) \o t
        BY <3>1, <3>2
      <4> HIDE DEF a, token
      <4>2. ReadsPiece(R, a, token)
        BY <1>1, <1>3, <4>1, UnescapedPiece
      <4> QED BY <4>2 DEF a, token, ReadsPiece
    <3> QED BY <3>1, <3>3
  <2>4. R[Len(f[i]) + 1] = SubSeq(text, i + 1, n)
    BY <1>7, <2>1
  <2>5. <<text[i]>> \o SubSeq(text, i + 1, n) = SubSeq(text, i, n)
    BY <1>1, <2>1 DEF Text, n
  <2>6. n - (k + 1) + 1 = i
    BY <1>1, <2>1
  <2>7. Read(k + 1)
    BY <2>1, <2>3, <2>4, <2>5, <2>6
  <2> QED BY <2>1, <2>7
<1> HIDE DEF T
<1>8. n \in T
  BY <1>1, <1>6, <1>7, InductionTo
<1>9. Read(n)
  BY <1>8 DEF T
<1>10. n - n = 0 /\ Len(f[0]) + 1 = 1 /\ n - n + 1 = 1
  BY <1>1, <1>2 DEF Joins
<1>11. SubSeq(text, 1, n) = text
  BY DEF n, Text
<1> QED BY <1>3, <1>9, <1>10, <1>11 DEF u


----------------------------------------------------------------------------
(* The settings. *)

Cmds == {"NONE", "DESCRIBE", "SELECT", "INSERT"}
Words == {"SETTINGS", "comma", "truncate", "timeout", "max_tries",
          "describe_compact_output", "flatten_nested"}

\* One SETTINGS clause, with a comma between any two settings.
Clause(settings) ==
    /\ Len(settings) % 2 = 0
    /\ \A i \in DOMAIN settings :
        IF i = 1 THEN settings[i] = "SETTINGS"
        ELSE (settings[i] = "comma") <=> (i % 2 = 1)

\* A setting joined to a clause.
LEMMA ClauseExtended ==
    ASSUME NEW s \in Seq(Words), Clause(s), NEW sep \in Words, NEW name \in Words, name # "comma",
           Len(s) = 0 => sep = "SETTINGS", Len(s) # 0 => sep = "comma"
    PROVE  Clause(s \o <<sep, name>>)
<1> DEFINE e == <<sep, name>>
           t == s \o e
<1>1. e \in Seq(Words) /\ Len(e) = 2 /\ e[1] = sep /\ e[2] = name
  OBVIOUS
<1> HIDE DEF e
<1>2. Len(s) \in Nat /\ Len(s) % 2 = 0 /\ DOMAIN s = 1..Len(s)
  BY DEF Clause
<1>3. /\ t \in Seq(Words) /\ Len(t) = Len(s) + 2 /\ DOMAIN t = 1..(Len(s) + 2)
      /\ \A i \in 1..Len(s) : t[i] = s[i]
      /\ t[Len(s) + 1] = sep /\ t[Len(s) + 2] = name
  <2>0. e \in Seq(Words)
    BY <1>1
  <2>1. /\ t \in Seq(Words) /\ Len(t) = Len(s) + Len(e)
        /\ DOMAIN t = 1..(Len(s) + Len(e))
        /\ \A i \in 1..Len(s) : t[i] = s[i]
        /\ \A i \in 1..Len(e) : t[Len(s) + i] = e[i]
    BY <2>0, JoinedAt
  <2> HIDE DEF t
  <2>2. 1 \in 1..Len(e) /\ 2 \in 1..Len(e)
    BY <1>1
  <2> QED BY <1>1, <2>1, <2>2
<1> HIDE DEF t
<1>4. Len(t) % 2 = 0
  BY <1>2, <1>3
<1>5. ASSUME NEW i \in 1..(Len(s) + 2)
      PROVE  IF i = 1 THEN t[i] = "SETTINGS" ELSE (t[i] = "comma") <=> (i % 2 = 1)
  <2>1. CASE i \in 1..Len(s)
    BY <2>1, <1>2, <1>3 DEF Clause
  <2>2. CASE i = Len(s) + 1
    <3>1. Len(s) = 0 <=> i = 1
      BY <2>2, <1>2
    <3>2. i % 2 = 1
      BY <2>2, <1>2
    <3> QED BY <2>2, <3>1, <3>2, <1>3
  <2>3. CASE i = Len(s) + 2
    <3>1. i # 1 /\ i % 2 = 0
      BY <2>3, <1>2
    <3> QED BY <2>3, <3>1, <1>3
  <2> QED BY <2>1, <2>2, <2>3, <1>2
<1> QED BY <1>3, <1>4, <1>5 DEF Clause, t, e

LEMMA SettingsClause ==
    ASSUME NEW ctx, ctx.scheme \in Schemes
    PROVE  /\ Settings(ctx) \in Seq(Words) /\ Clause(Settings(ctx))
           /\ Settings(ctx) = <<>> <=> ctx.scheme \in {"file", "hdfs"} /\ ctx.cmd # "INSERT"
           /\ Contains(Settings(ctx), "truncate") => ctx.cmd = "INSERT"
           /\ ~Contains(Settings(ctx), "flatten_nested")
<1>1. ctx.scheme \in {"http", "s3", "gcs", "file", "az", "abfs", "hdfs"}
  BY DEF Schemes, TableFunction
<1> DEFINE a == <<"SETTINGS", "truncate", "comma", "timeout">>
           b == <<"SETTINGS", "timeout">>
           c == <<"SETTINGS", "timeout", "comma", "max_tries">>
           d == <<"SETTINGS", "truncate">>
<1>2. /\ a \in Seq(Words) /\ Clause(a) /\ a # <<>> /\ ~Contains(a, "flatten_nested")
      /\ b \in Seq(Words) /\ Clause(b) /\ b # <<>> /\ ~Contains(b, "flatten_nested")
      /\ c \in Seq(Words) /\ Clause(c) /\ c # <<>> /\ ~Contains(c, "flatten_nested")
      /\ d \in Seq(Words) /\ Clause(d) /\ d # <<>> /\ ~Contains(d, "flatten_nested")
      /\ <<>> \in Seq(Words) /\ Clause(<<>>) /\ ~Contains(<<>>, "flatten_nested")
      /\ ~Contains(b, "truncate") /\ ~Contains(c, "truncate") /\ ~Contains(<<>>, "truncate")
  BY DEF Words, Clause, Contains
<1> HIDE DEF a, b, c, d
<1>3. Settings(ctx) = CASE ctx.scheme \in {"s3", "gcs", "az", "abfs"} ->
                              IF ctx.cmd = "INSERT" THEN a ELSE b
                        [] ctx.scheme = "http" -> c
                        [] OTHER -> IF ctx.cmd = "INSERT" THEN d ELSE <<>>
  BY Zenon DEF Settings, Truncates, a, b, c, d
<1>4. CASE ctx.scheme \in {"s3", "gcs", "az", "abfs"}
  BY <1>2, <1>3, <1>4
<1>5. CASE ctx.scheme = "http"
  BY <1>2, <1>3, <1>5
<1>6. CASE ctx.scheme \in {"file", "hdfs"}
  BY <1>2, <1>3, <1>6
<1> QED BY <1>1, <1>4, <1>5, <1>6

\* The clause with what DESCRIBE and a nested SELECT add to it.
LEMMA AllSettings ==
    ASSUME NEW ctx, ctx.scheme \in Schemes, ctx.cmd \in Cmds
    PROVE  LET settings == Settings(ctx) \o ExtraSettings(ctx) IN
           /\ Clause(settings)
           /\ Contains(settings, "truncate") => ctx.cmd = "INSERT"
           /\ Contains(settings, "flatten_nested") <=>
                ctx.cmd = "SELECT" /\ ctx.preserve_nested
<1> DEFINE s == Settings(ctx)
           t == s \o ExtraSettings(ctx)
<1>1. /\ s \in Seq(Words) /\ Clause(s)
      /\ s = <<>> <=> ctx.scheme \in {"file", "hdfs"} /\ ctx.cmd # "INSERT"
      /\ Contains(s, "truncate") => ctx.cmd = "INSERT"
      /\ ~Contains(s, "flatten_nested")
  BY SettingsClause
<1> HIDE DEF s
<1>2. ASSUME NEW name \in Words, name # "comma",
             ctx.cmd # "INSERT", ExtraSettings(ctx) = <<Join(ctx), name>>
      PROVE  Clause(t) /\ \A w : Contains(t, w) <=> Contains(s, w) \/ w \in {Join(ctx), name}
  <2> DEFINE sep == Join(ctx)
             e == <<sep, name>>
  <2>1. sep \in Words /\ (s = <<>> => sep = "SETTINGS") /\ (s # <<>> => sep = "comma")
    BY <1>1, <1>2 DEF Join, Words
  <2> HIDE DEF sep
  <2>2. (Len(s) = 0 => sep = "SETTINGS") /\ (Len(s) # 0 => sep = "comma")
    BY <1>1, <2>1, EmptySeq
  <2>3. Clause(t)
    BY <1>1, <1>2, <2>1, <2>2, ClauseExtended DEF sep
  <2>4. e \in Seq(Words) /\ Len(e) = 2 /\ e[1] = sep /\ e[2] = name
    BY <2>1
  <2> HIDE DEF e
  <2>5. t = s \o e
    BY <1>2 DEF e, sep
  <2>0. s \in Seq(Words) /\ e \in Seq(Words)
    BY <1>1, <2>4
  <2> HIDE DEF t
  <2>6. Len(t) = Len(s) + 2 /\ (\A i \in 1..Len(s) : t[i] = s[i])
        /\ t[Len(s) + 1] = sep /\ t[Len(s) + 2] = name /\ Len(s) \in Nat
    <3>1. /\ Len(t) = Len(s) + Len(e) /\ \A i \in 1..Len(s) : t[i] = s[i]
          /\ \A i \in 1..Len(e) : t[Len(s) + i] = e[i]
      BY <2>0, <2>5, JoinedAt
    <3>2. 1 \in 1..Len(e) /\ 2 \in 1..Len(e)
      BY <2>4
    <3> QED BY <1>1, <2>4, <3>1, <3>2
  <2>7. ASSUME NEW w PROVE Contains(t, w) <=> Contains(s, w) \/ w \in {sep, name}
    <3>1. \A i \in 1..Len(t) : i \in 1..Len(s) \/ i = Len(s) + 1 \/ i = Len(s) + 2
      BY <2>6
    <3>2. Len(s) + 1 \in 1..Len(t) /\ Len(s) + 2 \in 1..Len(t) /\ \A i \in 1..Len(s) : i \in 1..Len(t)
      BY <2>6
    <3> QED BY <3>1, <3>2, <2>6 DEF Contains
  <2> QED BY <2>3, <2>7 DEF sep
<1>3. Join(ctx) \in {"SETTINGS", "comma"}
  BY DEF Join
<1>4. CASE ctx.cmd = "DESCRIBE"
  <2>1. ExtraSettings(ctx) = <<Join(ctx), "describe_compact_output">>
    BY <1>4 DEF ExtraSettings
  <2>2. "describe_compact_output" \in Words
    BY DEF Words
  <2>3. Clause(t) /\ \A w : Contains(t, w) <=> Contains(s, w) \/ w \in {Join(ctx),
            "describe_compact_output"}
    BY <1>2, <1>4, <2>1, <2>2
  <2> HIDE DEF t
  <2>4. ~Contains(t, "flatten_nested") /\ (Contains(t, "truncate") => ctx.cmd = "INSERT")
    BY <1>1, <1>3, <2>3
  <2> QED BY <1>4, <2>3, <2>4 DEF t, s
<1>5. CASE ctx.cmd = "SELECT" /\ ctx.preserve_nested
  <2>1. ExtraSettings(ctx) = <<Join(ctx), "flatten_nested">>
    BY <1>5 DEF ExtraSettings
  <2>2. "flatten_nested" \in Words
    BY DEF Words
  <2>3. Clause(t) /\ \A w : Contains(t, w) <=> Contains(s, w) \/ w \in {Join(ctx), "flatten_nested"}
    BY <1>2, <1>5, <2>1, <2>2
  <2> HIDE DEF t
  <2>4. Contains(t, "flatten_nested") /\ (Contains(t, "truncate") => ctx.cmd = "INSERT")
    BY <1>1, <1>3, <2>3
  <2> QED BY <1>5, <2>3, <2>4 DEF t, s
<1>6. CASE ctx.cmd # "DESCRIBE" /\ ~(ctx.cmd = "SELECT" /\ ctx.preserve_nested)
  <2>1. ExtraSettings(ctx) = <<>>
    BY <1>6, Zenon DEF ExtraSettings
  <2>2. t = s
    BY <1>1, <2>1, ConcatEmptySeq
  <2> QED BY <1>1, <1>6, <2>2 DEF t, s
<1> QED BY <1>4, <1>5, <1>6


----------------------------------------------------------------------------
(* The parameters. *)

\* A sequence of parameters with distinct names, all of them in A.
Distinct(p, A) ==
    /\ \E S : p \in Seq(S)
    /\ \A i \in 1..Len(p) : p[i].name \in A
    /\ \A i, j \in 1..Len(p) : p[i].name = p[j].name => i = j

Passes(p, name, v) == \E i \in 1..Len(p) : p[i].name = name /\ p[i].value = v

LEMMA OneParam ==
    ASSUME NEW name, NEW v
    PROVE  /\ Distinct(Param(name, v), {name}) /\ Len(Param(name, v)) = 1
           /\ Passes(Param(name, v), name, v)
<1> DEFINE r == [name |-> name, value |-> v]
           p == <<r>>
<1>1. r.name = name /\ r.value = v
  OBVIOUS
<1>2. p \in Seq({r}) /\ Len(p) = 1 /\ p[1] = r
  OBVIOUS
<1>3. Param(name, v) = p
  BY DEF Param
<1> HIDE DEF r, p
<1>4. 1 \in 1..Len(p) /\ \A i \in 1..Len(p) : i = 1
  BY <1>2
<1>5. Distinct(p, {name})
  BY <1>1, <1>2, <1>4 DEF Distinct
<1>6. Passes(p, name, v)
  BY <1>1, <1>2, <1>4 DEF Passes
<1> QED BY <1>2, <1>3, <1>5, <1>6

LEMMA NoParam == \A A : Distinct(<<>>, A) /\ Len(<<>>) = 0
<1>1. <<>> \in Seq({}) /\ Len(<<>>) = 0
  OBVIOUS
<1> QED BY <1>1 DEF Distinct

LEMMA MayParam ==
    ASSUME NEW name, NEW v
    PROVE  Distinct(IfNamed(name, v), {name}) /\ Len(IfNamed(name, v)) \in 0..1
<1>1. IfNamed(name, v) = <<>> \/ IfNamed(name, v) = Param(name, v)
  BY Zenon DEF IfNamed
<1>2. Distinct(<<>>, {name}) /\ Len(<<>>) \in 0..1
  BY NoParam
<1>3. Distinct(Param(name, v), {name}) /\ Len(Param(name, v)) \in 0..1
  BY OneParam
<1> QED BY <1>1, <1>2, <1>3

\* Parameters of other names are put behind.
LEMMA MoreParams ==
    ASSUME NEW p, NEW A, Distinct(p, A), NEW q, NEW B, Distinct(q, B), A \cap B = {}
    PROVE  /\ Distinct(p \o q, A \cup B)
           /\ Len(p) \in Nat /\ Len(q) \in Nat /\ Len(p \o q) = Len(p) + Len(q)
           /\ \A name, v : Passes(p, name, v) \/ Passes(q, name, v) => Passes(p \o q, name, v)
<1> DEFINE t == p \o q
<1>1. PICK S1 : p \in Seq(S1)
  BY DEF Distinct
<1>2. PICK S2 : q \in Seq(S2)
  BY DEF Distinct
<1> DEFINE S == S1 \cup S2
<1>3. p \in Seq(S) /\ q \in Seq(S)
  BY <1>1, <1>2
<1> HIDE DEF S
<1>4. /\ t \in Seq(S) /\ Len(t) = Len(p) + Len(q)
      /\ \A i \in 1..Len(p) : t[i] = p[i]
      /\ \A i \in 1..Len(q) : t[Len(p) + i] = q[i]
  BY <1>3, JoinedAt
<1>5. Len(p) \in Nat /\ Len(q) \in Nat
  BY <1>3
<1> HIDE DEF t
<1>6. ASSUME NEW i \in 1..Len(t)
      PROVE  \/ i \in 1..Len(p) /\ t[i] = p[i]
             \/ i - Len(p) \in 1..Len(q) /\ t[i] = q[i - Len(p)]
  <2>1. CASE i \in 1..Len(p)
    BY <2>1, <1>4
  <2>2. CASE i \notin 1..Len(p)
    <3>1. i - Len(p) \in 1..Len(q) /\ Len(p) + (i - Len(p)) = i
      BY <2>2, <1>4, <1>5
    <3> QED BY <3>1, <1>4
  <2> QED BY <2>1, <2>2
<1>7. \A i \in 1..Len(t) : t[i].name \in A \cup B
  BY <1>6 DEF Distinct
<1>8. ASSUME NEW i \in 1..Len(t), NEW j \in 1..Len(t), t[i].name = t[j].name PROVE i = j
  <2>1. CASE i \in 1..Len(p) /\ t[i] = p[i]
    <3>1. t[i].name \in A
      BY <2>1 DEF Distinct
    <3>2. CASE j \in 1..Len(p) /\ t[j] = p[j]
      BY <2>1, <3>2, <1>8 DEF Distinct
    <3>3. CASE j - Len(p) \in 1..Len(q) /\ t[j] = q[j - Len(p)]
      <4>1. t[j].name \in B
        BY <3>3 DEF Distinct
      <4> QED BY <3>1, <4>1, <1>8
    <3> QED BY <3>2, <3>3, <1>6
  <2>2. CASE i - Len(p) \in 1..Len(q) /\ t[i] = q[i - Len(p)]
    <3>1. t[i].name \in B
      BY <2>2 DEF Distinct
    <3>2. CASE j \in 1..Len(p) /\ t[j] = p[j]
      <4>1. t[j].name \in A
        BY <3>2 DEF Distinct
      <4> QED BY <3>1, <4>1, <1>8
    <3>3. CASE j - Len(p) \in 1..Len(q) /\ t[j] = q[j - Len(p)]
      <4>1. i - Len(p) = j - Len(p)
        BY <2>2, <3>3, <1>8 DEF Distinct
      <4> QED BY <4>1, <1>4, <1>5
    <3> QED BY <3>2, <3>3, <1>6
  <2> QED BY <2>1, <2>2, <1>6
<1>9. ASSUME NEW name, NEW v PROVE Passes(p, name, v) => Passes(t, name, v)
  <2>1. \A i \in 1..Len(p) : i \in 1..Len(t)
    BY <1>4, <1>5
  <2> QED BY <2>1, <1>4 DEF Passes
<1>10. ASSUME NEW name, NEW v PROVE Passes(q, name, v) => Passes(t, name, v)
  <2>1. \A i \in 1..Len(q) : Len(p) + i \in 1..Len(t)
    BY <1>4, <1>5
  <2> QED BY <2>1, <1>4 DEF Passes
<1>11. Distinct(t, A \cup B)
  BY <1>4, <1>7, <1>8 DEF Distinct
<1> QED BY <1>4, <1>5, <1>9, <1>10, <1>11 DEF t

\* Value finds the parameter of a name.
LEMMA ValuePassed ==
    ASSUME NEW q, NEW A, Distinct(q.params, A), NEW name, NEW v, Passes(q.params, name, v)
    PROVE  Value(q, name) = v
<1> DEFINE p == q.params
           I == {i \in 1..Len(p) : p[i].name = name}
<1>1. PICK i \in 1..Len(p) : p[i].name = name /\ p[i].value = v
  BY DEF Passes
<1>2. I \subseteq Nat /\ I # {}
  <2>1. i \in I
    BY <1>1
  <2> QED BY <2>1
<1>3. Min(I) \in I
  BY <1>2, MinIsLeast
<1>4. Min(I) = i
  BY <1>1, <1>3 DEF Distinct
<1>5. Value(q, name) = p[IF I # {} THEN Min(I) ELSE 0].value
  BY Zenon DEF Value, SelectInSeq
<1> HIDE DEF I
<1> QED BY <1>1, <1>2, <1>4, <1>5
LEMMA ShapeParams ==
    ASSUME NEW ctx
    PROVE  /\ Distinct(Shape(ctx), {"format", "structure"}) /\ Len(Shape(ctx)) = 2
           /\ Passes(Shape(ctx), "structure", ctx.structure)
<1> DEFINE a == Param("format", OrAuto(ctx.format))
           b == Param("structure", ctx.structure)
<1>1. Distinct(a, {"format"}) /\ Len(a) = 1
  BY OneParam
<1>2. Distinct(b, {"structure"}) /\ Len(b) = 1 /\ Passes(b, "structure", ctx.structure)
  BY OneParam
<1> HIDE DEF a, b
<1>3. {"format"} \cap {"structure"} = {}
  OBVIOUS
<1>4. /\ Distinct(a \o b, {"format"} \cup {"structure"}) /\ Len(a \o b) = Len(a) + Len(b)
      /\ \A name, v : Passes(a, name, v) \/ Passes(b, name, v) => Passes(a \o b, name, v)
  BY <1>1, <1>2, <1>3, MoreParams
<1>5. {"format"} \cup {"structure"} = {"format", "structure"}
  OBVIOUS
<1>6. Shape(ctx) = a \o b
  BY DEF Shape, a, b
<1> QED BY <1>1, <1>2, <1>4, <1>5, <1>6

CredentialNames == {"access_key", "access_secret", "session_token"}

LEMMA CredentialParams ==
    ASSUME NEW ctx
    PROVE  Distinct(Credentials(ctx), CredentialNames) /\ Len(Credentials(ctx)) \in 0..3
<1> DEFINE a == Param("access_key", ctx.access_key)
           b == Param("access_secret", ctx.access_secret)
           c == IF ctx.scheme = "s3" THEN IfNamed("session_token", ctx.session_token) ELSE <<>>
<1>1. Distinct(a, {"access_key"}) /\ Len(a) = 1
  BY OneParam
<1>2. Distinct(b, {"access_secret"}) /\ Len(b) = 1
  BY OneParam
<1>3. Distinct(c, {"session_token"}) /\ Len(c) \in 0..1
  <2>1. c = IfNamed("session_token", ctx.session_token) \/ c = <<>>
    BY Zenon
  <2> HIDE DEF c
  <2>2. Distinct(<<>>, {"session_token"}) /\ Len(<<>>) \in 0..1
    BY NoParam
  <2> QED BY <2>1, <2>2, MayParam
<1>4. Credentials(ctx) = <<>> \/ Credentials(ctx) = (a \o b) \o c
  BY Zenon DEF Credentials
<1> HIDE DEF a, b, c
<1>5. /\ {"access_key"} \cap {"access_secret"} = {}
      /\ ({"access_key"} \cup {"access_secret"}) \cap {"session_token"} = {}
      /\ ({"access_key"} \cup {"access_secret"}) \cup {"session_token"} = CredentialNames
  BY DEF CredentialNames
<1>6. Distinct(a \o b, {"access_key"} \cup {"access_secret"}) /\ Len(a \o b) = Len(a) + Len(b)
  BY <1>1, <1>2, <1>5, MoreParams
<1>7. Distinct((a \o b) \o c, CredentialNames) /\ Len((a \o b) \o c) = Len(a \o b) + Len(c)
  BY <1>3, <1>5, <1>6, MoreParams
<1>8. Distinct(<<>>, CredentialNames) /\ Len(<<>>) \in 0..3
  BY NoParam
<1>9. Len((a \o b) \o c) \in 0..3
  BY <1>1, <1>2, <1>3, <1>6, <1>7
<1> QED BY <1>4, <1>7, <1>8, <1>9
LEMMA ParamBehind ==
    ASSUME NEW p, NEW A, Distinct(p, A), NEW name, NEW v, name \notin A
    PROVE  /\ Distinct(p \o Param(name, v), A \cup {name})
           /\ Len(p) \in Nat /\ Len(p \o Param(name, v)) = Len(p) + 1
           /\ Passes(p \o Param(name, v), name, v)
           /\ \A m, w : Passes(p, m, w) => Passes(p \o Param(name, v), m, w)
<1>1. Distinct(Param(name, v), {name}) /\ Len(Param(name, v)) = 1 /\ Passes(Param(name, v), name, v)
  BY OneParam
<1>2. A \cap {name} = {}
  OBVIOUS
<1> QED BY <1>1, <1>2, MoreParams

\* No array of arguments overflows, no argument is passed twice, and the
\* structure and the parts of an Azure URL are among them.
LEMMA ParamsPassed ==
    ASSUME NEW ctx, ctx.scheme \in Schemes
    PROVE  /\ \E A : Distinct(Params(ctx), A)
           /\ Len(Params(ctx)) \in 0..CHDB_MAX_TABLEFUNC_ARGS
           /\ Passes(Params(ctx), "structure", ctx.structure)
           /\ ctx.scheme \in {"az", "abfs"} =>
                /\ Passes(Params(ctx), "url", AzureParts(ctx).account)
                /\ Passes(Params(ctx), "container", AzureParts(ctx).container)
                /\ Passes(Params(ctx), "path", AzureParts(ctx).path)
<1>0. ctx.scheme \in {"http", "s3", "gcs", "file", "az", "abfs", "hdfs"}
  BY DEF Schemes, TableFunction
<1> DEFINE shape == Shape(ctx)
           last == IfNamed("compression", ctx.compression)
<1>1. /\ Distinct(shape, {"format", "structure"}) /\ Len(shape) = 2
      /\ Passes(shape, "structure", ctx.structure)
  BY ShapeParams
<1>2. Distinct(last, {"compression"}) /\ Len(last) \in 0..1
  BY MayParam
<1>3. CASE ctx.scheme \in {"s3", "gcs"}
  <2> DEFINE a == Param("url", ObjectUrl(ctx))
             b == Credentials(ctx)
             A == {"url"} \cup CredentialNames
             B == A \cup {"format", "structure"}
  <2>1. Distinct(a, {"url"}) /\ Len(a) = 1
    BY OneParam
  <2>2. Distinct(b, CredentialNames) /\ Len(b) \in 0..3
    BY CredentialParams
  <2>3. Params(ctx) = ((a \o b) \o shape) \o last
    BY <1>3, <1>0, Zenon DEF Params
  <2>4. {"url"} \cap CredentialNames = {} /\ A \cap {"format", "structure"} = {}
        /\ B \cap {"compression"} = {}
    BY DEF CredentialNames
  <2> HIDE DEF a, b, shape, last, A
  <2>5. Distinct(a \o b, A) /\ Len(a \o b) = Len(a) + Len(b)
    BY <2>1, <2>2, <2>4, MoreParams DEF A
  <2> HIDE DEF B
  <2>6. /\ Distinct((a \o b) \o shape, B) /\ Len((a \o b) \o shape) = Len(a \o b) + Len(shape)
        /\ Passes((a \o b) \o shape, "structure", ctx.structure)
    BY <1>1, <2>5, <2>4, MoreParams DEF B
  <2>7. /\ Distinct(((a \o b) \o shape) \o last, B \cup {"compression"})
        /\ Len(((a \o b) \o shape) \o last) = Len((a \o b) \o shape) + Len(last)
        /\ Passes(((a \o b) \o shape) \o last, "structure", ctx.structure)
    BY <1>2, <2>6, <2>4, MoreParams
  <2>8. Len(((a \o b) \o shape) \o last) \in 0..CHDB_MAX_TABLEFUNC_ARGS
    <3>1. Len(((a \o b) \o shape) \o last) = ((1 + Len(b)) + 2) + Len(last)
      BY <1>1, <2>1, <2>5, <2>6, <2>7, Zenon
    <3>2. Len(b) \in 0..3 /\ Len(last) \in 0..1
      BY <1>2, <2>2
    <3>3. \A m \in 0..3, n \in 0..1 : ((1 + m) + 2) + n \in 0..9
      OBVIOUS
    <3> QED BY <3>1, <3>2, <3>3 DEF CHDB_MAX_TABLEFUNC_ARGS
  <2> QED BY <1>3, <2>3, <2>7, <2>8
<1>4. CASE ctx.scheme \in {"az", "abfs"}
  <2> DEFINE parts == AzureParts(ctx)
             a == Param("url", parts.account)
             b == a \o Param("container", parts.container)
             c == b \o Param("path", parts.path)
             d == c \o Param("account_name", ctx.access_key)
             e == d \o Param("account_key", ctx.access_secret)
             f == e \o Param("format", OrAuto(ctx.format))
             g == f \o Param("compression", OrAuto(ctx.compression))
             h == g \o Param("structure", ctx.structure)
  <2>1. Params(ctx) = h
    BY <1>4, <1>0, Zenon DEF Params
  <2>2. Distinct(a, {"url"}) /\ Len(a) = 1 /\ Passes(a, "url", parts.account)
    BY OneParam
  <2> DEFINE N1 == {"url"}
             N2 == N1 \cup {"container"}
             N3 == N2 \cup {"path"}
             N4 == N3 \cup {"account_name"}
             N5 == N4 \cup {"account_key"}
             N6 == N5 \cup {"format"}
             N7 == N6 \cup {"compression"}
             N8 == N7 \cup {"structure"}
  <2>0. /\ "container" \notin N1
        /\ "path" \notin N2
        /\ "account_name" \notin N3
        /\ "account_key" \notin N4
        /\ "format" \notin N5
        /\ "compression" \notin N6
        /\ "structure" \notin N7
    OBVIOUS
  <2> HIDE DEF a, parts, N1
  <2>3. /\ Distinct(b, N2) /\ Len(b) = Len(a) + 1
        /\ Passes(b, "container", parts.container)
        /\ \A m, w : Passes(a, m, w) => Passes(b, m, w)
    <3> HIDE DEF N2, N3, N4, N5, N6, N7, N8, c, d, e, f, g, h
    <3>1. Distinct(a, N1) /\ "container" \notin N1
      BY <2>0, <2>2 DEF N1
    <3> QED BY <3>1, ParamBehind DEF b, N2
  <2> HIDE DEF b, N2
  <2>4. /\ Distinct(c, N3) /\ Len(c) = Len(b) + 1
        /\ Passes(c, "path", parts.path)
        /\ \A m, w : Passes(b, m, w) => Passes(c, m, w)
    <3> HIDE DEF N3, N4, N5, N6, N7, N8, d, e, f, g, h
    <3>1. Distinct(b, N2) /\ "path" \notin N2
      BY <2>0, <2>3
    <3> QED BY <3>1, ParamBehind DEF c, N3
  <2> HIDE DEF c, N3
  <2>5. /\ Distinct(d, N4) /\ Len(d) = Len(c) + 1
        /\ Passes(d, "account_name", ctx.access_key)
        /\ \A m, w : Passes(c, m, w) => Passes(d, m, w)
    <3> HIDE DEF N4, N5, N6, N7, N8, e, f, g, h
    <3>1. Distinct(c, N3) /\ "account_name" \notin N3
      BY <2>0, <2>4
    <3> QED BY <3>1, ParamBehind DEF d, N4
  <2> HIDE DEF d, N4
  <2>6. /\ Distinct(e, N5) /\ Len(e) = Len(d) + 1
        /\ Passes(e, "account_key", ctx.access_secret)
        /\ \A m, w : Passes(d, m, w) => Passes(e, m, w)
    <3> HIDE DEF N5, N6, N7, N8, f, g, h
    <3>1. Distinct(d, N4) /\ "account_key" \notin N4
      BY <2>0, <2>5
    <3> QED BY <3>1, ParamBehind DEF e, N5
  <2> HIDE DEF e, N5
  <2>7. /\ Distinct(f, N6) /\ Len(f) = Len(e) + 1
        /\ Passes(f, "format", OrAuto(ctx.format))
        /\ \A m, w : Passes(e, m, w) => Passes(f, m, w)
    <3> HIDE DEF N6, N7, N8, g, h
    <3>1. Distinct(e, N5) /\ "format" \notin N5
      BY <2>0, <2>6
    <3> QED BY <3>1, ParamBehind DEF f, N6
  <2> HIDE DEF f, N6
  <2>8. /\ Distinct(g, N7) /\ Len(g) = Len(f) + 1
        /\ Passes(g, "compression", OrAuto(ctx.compression))
        /\ \A m, w : Passes(f, m, w) => Passes(g, m, w)
    <3> HIDE DEF N7, N8, h
    <3>1. Distinct(f, N6) /\ "compression" \notin N6
      BY <2>0, <2>7
    <3> QED BY <3>1, ParamBehind DEF g, N7
  <2> HIDE DEF g, N7
  <2>9. /\ Distinct(h, N8) /\ Len(h) = Len(g) + 1
        /\ Passes(h, "structure", ctx.structure)
        /\ \A m, w : Passes(g, m, w) => Passes(h, m, w)
    <3> HIDE DEF N8
    <3>1. Distinct(g, N7) /\ "structure" \notin N7
      BY <2>0, <2>8
    <3> QED BY <3>1, ParamBehind DEF h, N8
  <2> HIDE DEF h, N8
  <2>10. Passes(h, "url", parts.account) /\ Passes(h, "container", parts.container)
         /\ Passes(h, "path", parts.path)
    BY <2>2, <2>3, <2>4, <2>5, <2>6, <2>7, <2>8, <2>9
  <2>11. Len(h) \in 0..CHDB_MAX_TABLEFUNC_ARGS
    BY <2>2, <2>3, <2>4, <2>5, <2>6, <2>7, <2>8, <2>9 DEF CHDB_MAX_TABLEFUNC_ARGS
  <2> QED BY <2>1, <2>9, <2>10, <2>11 DEF parts
<1>5. CASE ctx.scheme = "file"
  <2> DEFINE a == Param("path", ctx.url)
             A == {"path"} \cup {"format", "structure"}
  <2>1. Distinct(a, {"path"}) /\ Len(a) = 1
    BY OneParam
  <2>2. Params(ctx) = (a \o shape) \o last
    BY <1>5, <1>0, Zenon DEF Params
  <2>3. {"path"} \cap {"format", "structure"} = {} /\ A \cap {"compression"} = {}
    OBVIOUS
  <2> HIDE DEF a, shape, last
  <2>4. /\ Distinct(a \o shape, A) /\ Len(a \o shape) = Len(a) + Len(shape)
        /\ Passes(a \o shape, "structure", ctx.structure)
    BY <1>1, <2>1, <2>3, MoreParams
  <2> HIDE DEF A
  <2>5. /\ Distinct((a \o shape) \o last, A \cup {"compression"})
        /\ Len((a \o shape) \o last) = Len(a \o shape) + Len(last)
        /\ Passes((a \o shape) \o last, "structure", ctx.structure)
    BY <1>2, <2>3, <2>4, MoreParams
  <2>6. Len((a \o shape) \o last) \in 0..CHDB_MAX_TABLEFUNC_ARGS
    BY <1>1, <1>2, <2>1, <2>4, <2>5 DEF CHDB_MAX_TABLEFUNC_ARGS
  <2> QED BY <1>5, <2>2, <2>5, <2>6
<1>6. CASE ctx.scheme \in {"http", "hdfs"}
  <2> DEFINE a == Param("url", ctx.url)
  <2>1. Distinct(a, {"url"}) /\ Len(a) = 1
    BY OneParam
  <2>2. Params(ctx) = a \o shape
    BY <1>6, <1>0, Zenon DEF Params
  <2>3. {"url"} \cap {"format", "structure"} = {}
    OBVIOUS
  <2> HIDE DEF a, shape
  <2>4. /\ Distinct(a \o shape, {"url"} \cup {"format", "structure"})
        /\ Len(a \o shape) = Len(a) + Len(shape)
        /\ Passes(a \o shape, "structure", ctx.structure)
    BY <1>1, <2>1, <2>3, MoreParams
  <2>5. Len(a \o shape) \in 0..CHDB_MAX_TABLEFUNC_ARGS
    BY <1>1, <2>1, <2>4 DEF CHDB_MAX_TABLEFUNC_ARGS
  <2> QED BY <1>6, <2>2, <2>4, <2>5
<1> QED BY <1>0, <1>3, <1>4, <1>5, <1>6


----------------------------------------------------------------------------
(* The URL. *)

LEMMA FirstFacts ==
    ASSUME NEW text \in Text, NEW token
    PROVE  /\ First(text, token) \in 0..Len(text)
           /\ First(text, token) # 0 =>
                /\ text[First(text, token)] = token
                /\ \A j \in 1..(First(text, token) - 1) : text[j] # token
           /\ First(text, token) = 0 <=> \A j \in 1..Len(text) : text[j] # token
<1> DEFINE I == {j \in 1..Len(text) : text[j] = token}
<1>1. Len(text) \in Nat /\ I \subseteq Nat
  BY DEF Text
<1>2. First(text, token) = IF I # {} THEN Min(I) ELSE 0
  BY Zenon DEF First, SelectInSeq
<1>3. CASE I = {}
  BY <1>1, <1>2, <1>3
<1>4. CASE I # {}
  <2>1. Min(I) \in I /\ \A j \in I : Min(I) <= j
    BY <1>1, <1>4, MinIsLeast
  <2>2. First(text, token) = Min(I)
    BY <1>2, <1>4
  <2> DEFINE m == Min(I)
  <2> HIDE DEF m
  <2>3. m \in 1..Len(text) /\ text[m] = token /\ \A j \in 1..Len(text) : text[j] = token => m <= j
    BY <2>1 DEF m
  <2>4. \A j \in 1..(m - 1) : text[j] # token
    BY <1>1, <2>3
  <2> QED BY <1>1, <2>2, <2>3, <2>4 DEF m
<1> QED BY <1>3, <1>4

\* A text is cut at the first of a token.
LEMMA Split ==
    ASSUME NEW text \in Text, NEW token
    PROVE  LET i == First(text, token) IN
           /\ Before(text, i) \in Text /\ After(text, i) \in Text
           /\ First(Before(text, i), token) = 0
           /\ i = 0 => Before(text, i) = text /\ Len(After(text, i)) = 0
           /\ i # 0 => /\ <<token>> \in Text
                       /\ text = (Before(text, i) \o <<token>>) \o After(text, i)
<1> DEFINE i == First(text, token)
           b == Before(text, i)
           a == After(text, i)
<1>1. /\ i \in 0..Len(text) /\ Len(text) \in Nat
      /\ i # 0 => text[i] = token /\ \A j \in 1..(i - 1) : text[j] # token
      /\ i = 0 => \A j \in 1..Len(text) : text[j] # token
  BY FirstFacts DEF Text
<1> HIDE DEF i
<1>2. CASE i = 0
  <2>1. b = text /\ a = <<>>
    BY <1>2 DEF Before, After
  <2>2. First(b, token) = 0
    BY <1>2, <2>1 DEF i
  <2>3. <<>> \in Text /\ Len(<<>>) = 0
    BY DEF Text
  <2> QED BY <1>2, <2>1, <2>2, <2>3 DEF i
<1>3. CASE i # 0
  <2>0. i \in 1..Len(text) /\ Len(text) \in Nat /\ i \in Nat
    BY <1>1, <1>3
  <2>1. b = SubSeq(text, 1, i - 1) /\ a = SubSeq(text, i + 1, Len(text))
    BY <1>3 DEF Before, After
  <2>2. b \in Text /\ Len(b) = i - 1 /\ \A j \in 1..(i - 1) : b[j] = text[j]
    BY <2>0, <2>1 DEF Text
  <2>3. a \in Text /\ Len(a) = Len(text) - i /\ \A j \in 1..(Len(text) - i) : a[j] = text[i + j]
    BY <2>0, <2>1 DEF Text
  <2> HIDE DEF a, b
  <2>4. First(b, token) = 0
    <3>1. \A j \in 1..Len(b) : b[j] # token
      BY <2>0, <2>2, <1>1, <1>3
    <3> QED BY <2>2, <3>1, FirstFacts
  <2> DEFINE t == <<token>>
             s == (b \o t) \o a
  <2>5. text[i] = token /\ text[i] \in Token
    BY <1>1, <1>3, <2>0 DEF Text
  <2>6. t \in Text /\ Len(t) = 1 /\ t[1] = token
    BY <2>5 DEF Text
  <2> HIDE DEF t
  <2>7. b \in Seq(Token) /\ t \in Seq(Token) /\ a \in Seq(Token)
    BY <2>2, <2>3, <2>6 DEF Text
  <2> DEFINE u == b \o t
  <2>8. /\ u \in Seq(Token) /\ Len(u) = Len(b) + Len(t)
        /\ \A j \in 1..Len(b) : u[j] = b[j]
        /\ \A j \in 1..Len(t) : u[Len(b) + j] = t[j]
    BY <2>7, JoinedAt
  <2> HIDE DEF u
  <2>9. /\ s \in Seq(Token) /\ Len(s) = Len(u) + Len(a)
        /\ \A j \in 1..Len(u) : s[j] = u[j]
        /\ \A j \in 1..Len(a) : s[Len(u) + j] = a[j]
    BY <2>7, <2>8, JoinedAt DEF u
  <2> HIDE DEF s
  <2>10. Len(u) = i /\ Len(s) = Len(text)
    BY <2>0, <2>2, <2>3, <2>6, <2>8, <2>9
  <2>11. ASSUME NEW j \in 1..Len(text) PROVE s[j] = text[j]
    <3>1. CASE j \in 1..(i - 1)
      <4>1. j \in 1..Len(b) /\ j \in 1..Len(u)
        BY <3>1, <2>0, <2>2, <2>10
      <4> QED BY <3>1, <4>1, <2>2, <2>8, <2>9
    <3>2. CASE j = i
      <4>1. 1 \in 1..Len(t) /\ Len(b) + 1 = i /\ i \in 1..Len(u)
        BY <2>0, <2>2, <2>6, <2>10
      <4>2. u[i] = token
        BY <4>1, <2>6, <2>8
      <4> QED BY <3>2, <4>1, <4>2, <2>5, <2>9
    <3>3. CASE j > i
      <4>1. j - i \in 1..Len(a) /\ Len(u) + (j - i) = j /\ j - i \in 1..(Len(text) - i) /\ i + (j - i) = j
        BY <3>3, <2>0, <2>3, <2>10
      <4> QED BY <4>1, <2>3, <2>9
    <3> QED BY <3>1, <3>2, <3>3, <2>0
  <2>12. s = text
    BY <2>9, <2>10, <2>11, SeqEqual DEF Text
  <2> QED BY <1>3, <2>2, <2>3, <2>4, <2>6, <2>12 DEF i, a, b, s, t
<1> QED BY <1>2, <1>3

\* Five sequences joined, the last three first or one behind the other.
Regroups(x, p, y, q, z) == (x \o p) \o ((y \o q) \o z) = (((x \o p) \o y) \o q) \o z

LEMMA Regrouped ==
    ASSUME NEW S, NEW x \in Seq(S), NEW p \in Seq(S), NEW y \in Seq(S),
           NEW q \in Seq(S), NEW z \in Seq(S)
    PROVE  Regroups(x, p, y, q, z)
<1> DEFINE u == x \o p
           v == y \o q
<1>1. u \in Seq(S) /\ v \in Seq(S)
  BY ConcatProperties
<1> HIDE DEF u, v
<1>2. Associates(u, y, q) /\ Associates(u, v, z)
  BY <1>1, Associativity
<1> QED BY <1>2, Zenon DEF u, v, Associates, Regroups

\* The pieces of an Azure URL that is not refused make up what stands before its
\* first "?" again, the rest goes to the account, and the container of an az://
\* URL is one path segment.
LEMMA AzurePieces ==
    ASSUME NEW ctx, ctx.url \in Text, ctx.scheme \in {"az", "abfs"}, ~Malformed(ctx)
    PROVE  LET parts == AzureParts(ctx)
               account == parts.account
               place == IF ctx.scheme = "az" THEN account.host \o <<"/">> \o parts.container
                        ELSE parts.container \o <<"@">> \o account.host
               mark == First(ctx.url, "?")
           IN  /\ parts.path # <<>> => place \o <<"/">> \o parts.path = Before(ctx.url, mark)
               /\ account.sas = After(ctx.url, mark) /\ (account.signed <=> mark # 0)
               /\ ctx.scheme = "az" => First(parts.container, "/") = 0
<1> DEFINE parts == AzureParts(ctx)
           uri == AzureUri(ctx)
           mark == First(ctx.url, "?")
<1>1. uri \in Text
  BY Split DEF AzureUri
<1>0. /\ uri = Before(ctx.url, mark) /\ Sas(ctx) = After(ctx.url, mark)
      /\ (HasSas(ctx) <=> mark # 0)
  BY Zenon DEF AzureUri, Sas, HasSas
<1> HIDE DEF uri, mark
<1>2. CASE ctx.scheme = "az"
  <2> DEFINE i == First(uri, "/")
             host == Before(uri, i)
             rest == After(uri, i)
             j == First(rest, "/")
             container == Before(rest, j)
             path == After(rest, j)
             slash == <<"/">>
  <2>1. /\ parts.account.host = host /\ parts.account.signed = HasSas(ctx)
        /\ parts.account.sas = Sas(ctx)
        /\ parts.container = container /\ parts.path = path
    BY <1>2 DEF AzureParts, AzParts, Account, uri
  <2>2. /\ host \in Text /\ rest \in Text /\ (i = 0 => Len(rest) = 0)
        /\ i # 0 => slash \in Text /\ uri = (host \o slash) \o rest
    BY <1>1, Split
  <2> HIDE DEF rest
  <2>3. /\ container \in Text /\ path \in Text /\ First(container, "/") = 0
        /\ j = 0 => Len(path) = 0
        /\ j # 0 => slash \in Text /\ rest = (container \o slash) \o path
    BY <2>2, Split
  <2> HIDE DEF host, container, path, slash, parts
  <2>4. ASSUME path # <<>> PROVE (((host \o slash) \o container) \o slash) \o path = uri
    <3>1. j # 0
      BY <2>3, <2>4, EmptySeq DEF Text
    <3>2. i # 0
      <4>1. j \in 0..Len(rest)
        BY <2>2, FirstFacts
      <4> QED BY <2>2, <3>1, <4>1
    <3>3. /\ host \in Seq(Token) /\ container \in Seq(Token) /\ path \in Seq(Token)
          /\ slash \in Seq(Token)
      BY <2>2, <2>3, <3>1 DEF Text
    <3>4. Regroups(host, slash, container, slash, path)
      BY <3>3, Regrouped
    <3> QED BY <2>2, <2>3, <3>1, <3>2, <3>4, Zenon DEF Regroups
  <2> QED BY <1>0, <1>2, <2>1, <2>3, <2>4, Zenon DEF mark, slash, parts
<1>3. CASE ctx.scheme = "abfs"
  <2> DEFINE i == First(uri, "@")
             container == Before(uri, i)
             rest == After(uri, i)
             j == First(rest, "/")
             host == Before(rest, j)
             path == After(rest, j)
             slash == <<"/">>
             at == <<"@">>
  <2>1. /\ parts.account.host = host /\ parts.account.signed = HasSas(ctx)
        /\ parts.account.sas = Sas(ctx)
        /\ parts.container = container /\ parts.path = path
    BY <1>3 DEF AzureParts, AbfsParts, Account, uri
  <2>2. i # 0
    BY <1>3 DEF Malformed, uri
  <2>3. container \in Text /\ rest \in Text /\ at \in Text /\ uri = (container \o at) \o rest
    BY <1>1, <2>2, Split
  <2> HIDE DEF rest
  <2>4. /\ host \in Text /\ path \in Text
        /\ j = 0 => Len(path) = 0
        /\ j # 0 => slash \in Text /\ rest = (host \o slash) \o path
    BY <2>3, Split
  <2> HIDE DEF host, container, path, slash, at, parts
  <2>5. ASSUME path # <<>> PROVE (((container \o at) \o host) \o slash) \o path = uri
    <3>1. j # 0
      BY <2>4, <2>5, EmptySeq DEF Text
    <3>2. /\ host \in Seq(Token) /\ container \in Seq(Token) /\ path \in Seq(Token)
          /\ slash \in Seq(Token) /\ at \in Seq(Token)
      BY <2>3, <2>4, <3>1 DEF Text
    <3>3. Regroups(container, at, host, slash, path)
      BY <3>2, Regrouped
    <3> QED BY <2>3, <2>4, <3>1, <3>3, Zenon DEF Regroups
  <2>6. ctx.scheme # "az"
    BY <1>3
  <2> QED BY <1>0, <2>1, <2>5, <2>6, Zenon DEF mark, slash, at, parts
<1> QED BY <1>2, <1>3


----------------------------------------------------------------------------
(* The structure. *)

LEMMA FlattenBegins ==
    ASSUME NEW S, NEW ss \in Seq(Seq(S)), Len(ss) # 0, Len(ss[1]) # 0
    PROVE  FlattenSeq(ss) \in Seq(S) /\ Len(FlattenSeq(ss)) # 0
<1> DEFINE n == Len(ss)
<1>1. PICK f : Joins(f, ss, n, S) /\ FlattenSeq(ss) = f[n]
  BY FlattenPrefixes
<1>2. n \in Nat /\ 1 \in 0..n /\ 1 \in 1..n /\ 0 \in 0..n /\ n \in 0..n /\ 1 - 1 = 0
  OBVIOUS
<1>3. Begins(f, n, S)
  BY <1>1, JoinedPrefix
<1> HIDE DEF n
<1>4. PICK t \in Seq(S) : f[n] = f[1] \o t
  BY <1>2, <1>3 DEF Begins
<1>5. f[n] \in Seq(S) /\ f[1] \in Seq(S) /\ f[0] \in Seq(S) /\ ss[1] \in Seq(S) /\ f[1] = f[0] \o ss[1]
  BY <1>1, <1>2 DEF Joins
<1>6. Len(f[1]) = Len(f[0]) + Len(ss[1]) /\ Len(f[0]) \in Nat /\ Len(ss[1]) \in Nat
  BY <1>5, JoinedAt
<1>7. Len(f[n]) = Len(f[1]) + Len(t) /\ Len(t) \in Nat
  BY <1>4, <1>5, JoinedAt
<1>8. Len(f[n]) # 0
  <2>1. \A x, y, z \in Nat : y # 0 => (x + y) + z # 0
    OBVIOUS
  <2> QED BY <2>1, <1>6, <1>7, Zenon
<1> QED BY <1>1, <1>5, <1>8

LEMMA QuotedText == \A name \in Text : Quoted(name) \in Text
<1> SUFFICES ASSUME NEW name \in Text PROVE Quoted(name) \in Text
  OBVIOUS
<1>1. Quoted(name) = name \/ Quoted(name) = (<<"q">> \o Doubled(name)) \o <<"q">>
  BY Zenon DEF Quoted
<1>2. Doubled(name) \in Text
  BY DoubledText
<1>3. (<<"q">> \o Doubled(name)) \o <<"q">> \in Text
  <2>1. <<"q">> \o Doubled(name) \in Text
    BY <1>2, TextFacts
  <2> QED BY <2>1, TextFacts
<1> QED BY <1>1, <1>3

LEMMA StructureText ==
    ASSUME NEW columns \in Columns
    PROVE  /\ StructureOf(columns) \in Text
           /\ Len(columns) # 0 => Len(StructureOf(columns)) # 0
<1> DEFINE Item(i) == (((IF i = 1 THEN <<>> ELSE <<"comma", "sp">>)
                         \o Quoted(columns[i].name)) \o <<"sp">>) \o columns[i].type
           ss == [i \in DOMAIN columns |-> Item(i)]
<1>1. /\ Len(columns) \in Nat /\ DOMAIN columns = 1..Len(columns)
      /\ \A i \in 1..Len(columns) : columns[i].name \in Text /\ columns[i].type \in Text
  <2> DEFINE C == [name : Text, type : Text]
  <2>1. columns \in Seq(C)
    BY DEF Columns
  <2>2. \A c \in C : c.name \in Text /\ c.type \in Text
    OBVIOUS
  <2> HIDE DEF C
  <2>3. Len(columns) \in Nat /\ DOMAIN columns = 1..Len(columns) /\ \A i \in 1..Len(columns) : columns[i] \in C
    BY <2>1
  <2> QED BY <2>2, <2>3
<1>2. ASSUME NEW i \in 1..Len(columns) PROVE Item(i) \in Text /\ Len(Item(i)) # 0
  <2> DEFINE c == IF i = 1 THEN <<>> ELSE <<"comma", "sp">>
             w == Quoted(columns[i].name)
             t == columns[i].type
             b == <<"sp">>
  <2>1. c \in Text
    BY TextFacts
  <2> HIDE DEF c
  <2>2. w \in Text /\ t \in Text
    BY <1>1, QuotedText
  <2>3. b \in Text /\ Len(b) = 1
    BY TextFacts
  <2> HIDE DEF w, t, b
  <2>4. c \o w \in Text
    BY <2>1, <2>2, TextFacts
  <2> DEFINE u == c \o w
  <2> HIDE DEF u
  <2>5. u \o b \in Text /\ Len(u \o b) = Len(u) + Len(b) /\ Len(u) \in Nat
    <3>1. u \in Seq(Token) /\ b \in Seq(Token)
      BY <2>3, <2>4 DEF Text, u
    <3> QED BY <3>1, JoinedAt DEF Text
  <2> DEFINE v == u \o b
  <2> HIDE DEF v
  <2>6. v \o t \in Text /\ Len(v \o t) = Len(v) + Len(t) /\ Len(v) \in Nat /\ Len(t) \in Nat
    <3>1. v \in Seq(Token) /\ t \in Seq(Token)
      BY <2>2, <2>5 DEF Text, v
    <3> QED BY <3>1, JoinedAt DEF Text
  <2>7. Len(v \o t) # 0
    BY <2>3, <2>5, <2>6 DEF v
  <2> QED BY <2>6, <2>7, Zenon DEF c, w, t, b, u, v
<1> HIDE DEF Item
<1>3. ss \in Seq(Text) /\ Len(ss) = Len(columns) /\ \A i \in 1..Len(columns) : ss[i] = Item(i)
  BY <1>1, <1>2
<1>4. StructureOf(columns) = FlattenSeq(ss)
  BY Zenon DEF StructureOf, Item
<1> HIDE DEF ss
<1>5. ss \in Seq(Seq(Token))
  BY <1>3 DEF Text
<1>6. FlattenSeq(ss) \in Seq(Token)
  <2>1. PICK f : Joins(f, ss, Len(ss), Token) /\ FlattenSeq(ss) = f[Len(ss)]
    BY <1>5, FlattenPrefixes
  <2>2. Len(ss) \in 0..Len(ss)
    BY <1>5
  <2> QED BY <2>1, <2>2 DEF Joins
<1>7. ASSUME Len(columns) # 0 PROVE Len(FlattenSeq(ss)) # 0
  <2>1. Len(ss) # 0 /\ Len(ss[1]) # 0
    <3>1. 1 \in 1..Len(columns)
      BY <1>1, <1>7
    <3> QED BY <3>1, <1>2, <1>3, <1>7
  <2> QED BY <1>5, <2>1, FlattenBegins
<1> QED BY <1>4, <1>6, <1>7 DEF Text

LEMMA DoubledNotEmpty ==
    ASSUME NEW text \in Text, Len(text) # 0
    PROVE  Len(Doubled(text)) # 0
<1> DEFINE Item(i) == IF text[i] = "esc" THEN <<"esc", "esc">> ELSE <<text[i]>>
           ss == [i \in DOMAIN text |-> Item(i)]
<1>1. Len(text) \in Nat /\ DOMAIN text = 1..Len(text) /\ \A i \in 1..Len(text) : text[i] \in Token
  BY DEF Text
<1>2. ASSUME NEW i \in 1..Len(text) PROVE Item(i) \in Text /\ Len(Item(i)) # 0
  BY <1>1, TokenAssumption DEF Text
<1> HIDE DEF Item
<1>3. ss \in Seq(Text) /\ Len(ss) = Len(text) /\ \A i \in 1..Len(text) : ss[i] = Item(i)
  BY <1>1, <1>2
<1>4. Doubled(text) = FlattenSeq(ss)
  BY Zenon DEF Doubled, Item
<1> HIDE DEF ss
<1>5. ss \in Seq(Seq(Token))
  BY <1>3 DEF Text
<1>6. Len(ss) # 0 /\ Len(ss[1]) # 0
  <2>1. 1 \in 1..Len(text)
    BY <1>1
  <2> QED BY <2>1, <1>2, <1>3
<1> QED BY <1>4, <1>5, <1>6, FlattenBegins

\* The structure that CREATE TABLE pins is a text, never the empty one that
\* would make the copy take its default, and chDB reads it as the one inferred.
LEMMA PinnedRead ==
    ASSUME NEW columns \in Columns, Len(columns) # 0
    PROVE  /\ Pinned(columns) \in Text /\ Pinned(columns) # <<>>
           /\ Unescaped(Pinned(columns)) = StructureOf(columns)
<1> DEFINE t == StructureOf(columns)
<1>1. t \in Text /\ Len(t) # 0
  BY StructureText
<1>2. Pinned(columns) = Doubled(t)
  BY DEF Pinned
<1> HIDE DEF t
<1>3. Doubled(t) \in Text /\ Unescaped(Doubled(t)) = t
  BY <1>1, DoubledText, UnescapedDoubled
<1>4. Len(Doubled(t)) # 0
  BY <1>1, DoubledNotEmpty
<1>5. Len(<<>>) = 0
  OBVIOUS
<1> QED BY <1>2, <1>3, <1>4, <1>5 DEF t

----------------------------------------------------------------------------
(* The timeout. *)

\* The timeout of a request is that of the statement, or less than a second
\* more, and none only for none.
LEMMA TimeoutRounded ==
    ASSUME NEW ctx, ctx.timeout \in Nat
    PROVE  /\ RequestTimeout(ctx) \in ctx.timeout .. (ctx.timeout + 999)
           /\ RequestTimeout(ctx) = 0 <=> ctx.timeout = 0
<1> DEFINE ms == ctx.timeout
<1>1. ms \in Nat
  OBVIOUS
<1> HIDE DEF ms
<1>2. Seconds(ms) * 1000 \in ms .. (ms + 999) /\ (Seconds(ms) * 1000 = 0 <=> ms = 0)
  BY <1>1 DEF Seconds
<1>3. ms \in ms .. (ms + 999)
  BY <1>1
<1>4. RequestTimeout(ctx) = Seconds(ms) * 1000 \/ RequestTimeout(ctx) = ms
  BY Zenon DEF RequestTimeout, ms
<1> QED BY <1>2, <1>3, <1>4 DEF ms


----------------------------------------------------------------------------
(* The rewriting of a structure. *)

LEMMA BehindRange ==
    ASSUME NEW text \in Text, NEW i \in 1..Len(text)
    PROVE  BehindType(text, i) \in (i + 1)..(Len(text) + 1)
<1> DEFINE close == {j \in i + 1 .. Len(text) : text[j] = ")"}
<1>1. Len(text) \in Nat /\ i \in Nat
  BY DEF Text
<1>2. close \subseteq Nat /\ close \subseteq (i + 1)..Len(text)
  BY <1>1
<1>3. BehindType(text, i) = i + 1 \/ (close # {} /\ BehindType(text, i) = Min(close) + 1)
  BY Zenon DEF BehindType
<1> HIDE DEF close
<1>4. close # {} => Min(close) \in close
  BY <1>2, MinIsLeast
<1>5. close # {} => Min(close) + 1 \in (i + 1)..(Len(text) + 1)
  <2>1. \A m \in (i + 1)..Len(text) : m + 1 \in (i + 1)..(Len(text) + 1)
    BY <1>1
  <2> QED BY <1>2, <1>4, <2>1, Zenon
<1>6. i + 1 \in (i + 1)..(Len(text) + 1)
  BY <1>1
<1> QED BY <1>3, <1>5, <1>6

\* structure_as_string replaces what begins at position i.
Ends(text, j) == j > Len(text) \/ text[j] \in {"comma", ")"}
Rewrites(text, i, type) == BareAt(text, i, type) /\ Ends(text, BehindType(text, i))

\* R[i] is what it makes of the text from position i on.
Makes(R, text, type) ==
    /\ R \in [1..(Len(text) + 1) -> Text]
    /\ R[Len(text) + 1] = <<>>
    /\ \A i \in 1..Len(text) :
         R[i] = IF Rewrites(text, i, type) THEN <<"String">> \o R[BehindType(text, i)]
                ELSE <<text[i]>> \o R[i + 1]

LEMMA AsStringSteps ==
    ASSUME NEW text \in Text, NEW type
    PROVE  \E R : Makes(R, text, type) /\ StructureAsString(text, type) = R[1]
<1> DEFINE n == Len(text)
           Solves(R) == R = [i \in 1..(n + 1) |->
              IF i > n THEN <<>>
              ELSE IF Rewrites(text, i, type)
              THEN <<"String">> \o R[BehindType(text, i)]
              ELSE <<text[i]>> \o R[i + 1]]
           Rest == CHOOSE R : Solves(R)
           Back(i, r) == IF Rewrites(text, i, type) THEN <<"String">> \o r[BehindType(text, i)]
                         ELSE <<text[i]>> \o r[i + 1]
           W == [1..(n + 1) -> Text]
           F == [i \in 1..n |-> [r \in W |-> Back(i, r)]]
<1>1. n \in Nat /\ \A i \in 1..n : text[i] \in Token
  BY DEF Text
<1>2. StructureAsString(text, type) = Rest[1]
  BY Zenon DEF StructureAsString, Rewrites, Ends
<1>3. \A i \in 1..n : BehindType(text, i) \in (i + 1)..(n + 1)
  BY BehindRange
<1> HIDE DEF n, Rest
<1>4. \A i \in 1..n, r \in W : Back(i, r) \in Text
  <2> SUFFICES ASSUME NEW i \in 1..n, NEW r \in W PROVE Back(i, r) \in Text
    OBVIOUS
  <2>1. <<text[i]>> \in Text /\ <<"String">> \in Text
    BY <1>1, TextFacts, TokenAssumption
  <2>2. BehindType(text, i) \in 1..(n + 1) /\ i + 1 \in 1..(n + 1)
    BY <1>1, <1>3
  <2>3. r[BehindType(text, i)] \in Text /\ r[i + 1] \in Text
    BY <2>2
  <2> QED BY <2>1, <2>3, TextFacts
<1>5. F \in [1..n -> [W -> Text]] /\ \A i \in 1..n, r \in W : F[i][r] = Back(i, r)
  <2> HIDE DEF W, Back
  <2> QED BY <1>4
<1>6. ReadsLater(F, n, Text)
  <2> SUFFICES ASSUME NEW i \in 1..n, NEW r \in W, NEW s \in W,
                      \A m \in (i + 1)..(n + 1) : r[m] = s[m]
               PROVE  F[i][r] = F[i][s]
    BY DEF ReadsLater
  <2>1. r[BehindType(text, i)] = s[BehindType(text, i)]
    BY <1>3
  <2>2. i + 1 \in (i + 1)..(n + 1)
    BY <1>1
  <2>3. r[i + 1] = s[i + 1]
    BY <2>2
  <2>4. Back(i, r) = Back(i, s)
    BY <2>1, <2>3
  <2> HIDE DEF Back, W, F
  <2> QED BY <1>5, <2>4
<1>7. PICK r \in W : Computes(r, <<>>, F, n)
  <2>1. <<>> \in Text
    BY TextFacts
  <2> HIDE DEF F
  <2> QED BY <1>1, <1>5, <1>6, <2>1, RecursionBack
<1>8. r[n + 1] = <<>> /\ \A i \in 1..n : r[i] = Back(i, r)
  <2> HIDE DEF Back, F
  <2> QED BY <1>5, <1>7 DEF Computes
<1>9. Solves(r)
  <2>1. r = [i \in 1..(n + 1) |-> r[i]]
    OBVIOUS
  <2>2. ASSUME NEW i \in 1..(n + 1)
        PROVE r[i] = IF i > n THEN <<>>
              ELSE IF Rewrites(text, i, type)
              THEN <<"String">> \o r[BehindType(text, i)]
              ELSE <<text[i]>> \o r[i + 1]
    <3>1. CASE i > n
      <4>1. i = n + 1
        BY <1>1, <3>1
      <4> QED BY <1>8, <3>1, <4>1
    <3>2. CASE ~(i > n)
      <4>1. i \in 1..n
        BY <1>1, <3>2
      <4> QED BY <1>8, <3>2, <4>1, Zenon
    <3> QED BY <3>1, <3>2
  <2> QED BY <2>1, <2>2, Zenon
<1>10. Solves(Rest)
  BY <1>9, Zenon DEF Rest
<1>11. \A i \in 1..(n + 1) : Rest[i] =
              IF i > n THEN <<>>
              ELSE IF Rewrites(text, i, type)
              THEN <<"String">> \o Rest[BehindType(text, i)]
              ELSE <<text[i]>> \o Rest[i + 1]
  BY <1>10, Zenon
<1>12. Rest[n + 1] = <<>>
  <2>1. n + 1 \in 1..(n + 1) /\ n + 1 > n
    BY <1>1
  <2> QED BY <1>11, <2>1, Zenon
<1>13. \A i \in 1..n : Rest[i] = Back(i, Rest)
  <2> SUFFICES ASSUME NEW i \in 1..n PROVE Rest[i] = Back(i, Rest)
    OBVIOUS
  <2>1. i \in 1..(n + 1) /\ ~(i > n)
    BY <1>1
  <2> QED BY <1>11, <2>1, Zenon
<1>14. Rest \in W
  <2> DEFINE T == {k \in 0..n : \A i \in (n + 1 - k)..(n + 1) : Rest[i] \in Text}
  <2>1. 0 \in T
    <3>1. \A i \in (n + 1 - 0)..(n + 1) : i = n + 1
      BY <1>1
    <3> QED BY <1>1, <1>12, <3>1, TextFacts
  <2>2. ASSUME NEW k \in 0..(n - 1), k \in T PROVE k + 1 \in T
    <3> DEFINE i == n + 1 - (k + 1)
    <3>1. i \in 1..n /\ k + 1 \in 0..n /\ n + 1 - k = i + 1
      BY <1>1
    <3>2. \A m \in (n + 1 - (k + 1))..(n + 1) : m = i \/ m \in (n + 1 - k)..(n + 1)
      BY <1>1
    <3>3. \A m \in (n + 1 - k)..(n + 1) : Rest[m] \in Text
      BY <2>2
    <3> HIDE DEF i
    <3>4. \A m \in (i + 1)..(n + 1) : Rest[m] \in Text
      BY <3>1, <3>3
    <3>5. Rest[BehindType(text, i)] \in Text
      BY <1>3, <3>1, <3>4
    <3>6. i + 1 \in (i + 1)..(n + 1)
      BY <1>1, <3>1
    <3>7. Rest[i + 1] \in Text
      BY <3>4, <3>6
    <3>8. <<text[i]>> \in Text /\ <<"String">> \in Text
      BY <1>1, <3>1, TextFacts, TokenAssumption
    <3>9. Back(i, Rest) \in Text
      BY <3>5, <3>7, <3>8, TextFacts
    <3>10. Rest[i] \in Text
      <4> HIDE DEF Back
      <4> QED BY <1>13, <3>1, <3>9
    <3> QED BY <3>1, <3>2, <3>3, <3>10
  <2>3. \A k \in 0..n : k \in T
    <3> HIDE DEF T
    <3> QED BY <1>1, <2>1, <2>2, InductionTo
  <2>4. \A i \in 1..(n + 1) : Rest[i] \in Text
    <3>1. n \in 0..n /\ n + 1 - n = 1
      BY <1>1
    <3>2. n \in T
      BY <2>3, <3>1
    <3> QED BY <3>1, <3>2
  <2>5. Rest = [i \in 1..(n + 1) |-> Rest[i]]
    <3>1. \A R : Solves(R) => R = [i \in 1..(n + 1) |-> R[i]]
      <4> SUFFICES ASSUME NEW R, Solves(R) PROVE R = [i \in 1..(n + 1) |-> R[i]]
        OBVIOUS
      <4> DEFINE E(i) == IF i > n THEN <<>>
              ELSE IF Rewrites(text, i, type)
              THEN <<"String">> \o R[BehindType(text, i)]
              ELSE <<text[i]>> \o R[i + 1]
      <4>1. R = [i \in 1..(n + 1) |-> E(i)]
        BY Zenon
      <4> HIDE DEF E
      <4> QED BY <4>1
    <3> QED BY <1>10, <3>1
  <2> QED BY <2>4, <2>5
<1>15. Makes(Rest, text, type)
  <2> HIDE DEF Solves
  <2> QED BY <1>12, <1>13, <1>14 DEF Makes, n
<1> QED BY <1>2, <1>15


\* A double quote opens or closes a quoted name, any other token does neither.
LEMMA QuotesStep ==
    ASSUME NEW text, NEW i \in Nat \ {0}
    PROVE  /\ ~InQuotes(text, 0)
           /\ text[i] = "q" => (InQuotes(text, i) <=> ~InQuotes(text, i - 1))
           /\ text[i] # "q" => (InQuotes(text, i) <=> InQuotes(text, i - 1))
<1> DEFINE Q(k) == {j \in 1..k : text[j] = "q"}
<1>1. \A k \in Nat : IsFiniteSet(Q(k)) /\ Cardinality(Q(k)) \in Nat
  <2> SUFFICES ASSUME NEW k \in Nat PROVE IsFiniteSet(Q(k)) /\ Cardinality(Q(k)) \in Nat
    OBVIOUS
  <2>1. IsFiniteSet(1..k) /\ Q(k) \subseteq 1..k
    BY FS_Interval
  <2> HIDE DEF Q
  <2>2. IsFiniteSet(Q(k))
    BY <2>1, FS_Subset
  <2> QED BY <2>2, FS_CardinalityType
<1>2. \A k : InQuotes(text, k) <=> Cardinality(Q(k)) % 2 = 1
  BY Zenon DEF InQuotes
<1>3. Cardinality(Q(0)) = 0
  <2>1. Q(0) = {}
    OBVIOUS
  <2> HIDE DEF Q
  <2> QED BY <2>1, FS_EmptySet
<1>4. text[i] # "q" => Q(i) = Q(i - 1)
  OBVIOUS
<1>5. text[i] = "q" => Cardinality(Q(i)) = Cardinality(Q(i - 1)) + 1
  <2> SUFFICES ASSUME text[i] = "q" PROVE Cardinality(Q(i)) = Cardinality(Q(i - 1)) + 1
    OBVIOUS
  <2>1. Q(i) = Q(i - 1) \cup {i} /\ i \notin Q(i - 1) /\ i - 1 \in Nat
    OBVIOUS
  <2> HIDE DEF Q
  <2>2. IsFiniteSet(Q(i - 1))
    BY <1>1, <2>1
  <2> QED BY <2>1, <2>2, FS_AddElement
<1>6. i \in Nat /\ i - 1 \in Nat
  OBVIOUS
<1> HIDE DEF Q
<1>7. Cardinality(Q(i - 1)) \in Nat
  BY <1>1, <1>6
<1>8. \A c \in Nat : ((c + 1) % 2 = 1) <=> ~(c % 2 = 1)
  OBVIOUS
<1>9. 0 % 2 # 1
  OBVIOUS
<1> QED BY <1>2, <1>3, <1>4, <1>5, <1>7, <1>8, <1>9


\* The text has these tokens behind position n.
At(text, n, seg) ==
    n + Len(seg) <= Len(text) /\ \A k \in 1..Len(seg) : text[n + k] = seg[k]
\* What is made of the text behind position n begins with out and goes on with
\* what is made of it behind position m.
Yields(R, n, m, out) == R[n + 1] = out \o R[m + 1]

\* What is not rewritten is copied.
LEMMA Copied ==
    ASSUME NEW text \in Text, NEW type, NEW R, Makes(R, text, type),
           NEW n \in Nat, NEW seg \in Text, At(text, n, seg),
           \A k \in 1..Len(seg) : ~Rewrites(text, n + k, type)
    PROVE  Yields(R, n, n + Len(seg), seg)
<1> DEFINE m == Len(seg)
           w == Len(text)
           p(k) == SubSeq(seg, 1, k)
           T == {k \in 0..m : R[n + 1] = p(k) \o R[n + k + 1]}
<1>0. m \in Nat /\ w \in Nat
  BY DEF Text
<1>1. m \in Nat /\ w \in Nat /\ n + m <= w /\ \A k \in 1..m : text[n + k] = seg[k]
  BY <1>0, Zenon DEF At
<1>2. \A i \in 1..(w + 1) : R[i] \in Seq(Token)
  BY DEF Makes, Text
<1>3. \A i \in 1..w : ~Rewrites(text, i, type) => R[i] = <<text[i]>> \o R[i + 1]
  BY DEF Makes
<1>4. /\ \A k \in 0..m : p(k) \in Seq(Token)
      /\ \A k \in 1..m : seg[k] \in Token /\ p(k) = p(k - 1) \o <<seg[k]>>
      /\ p(0) = <<>> /\ p(m) = seg
  BY DEF Text
<1> HIDE DEF m, w, p
<1>5. 0 \in T
  <2>1. n + 1 \in 1..(w + 1) /\ n + 0 + 1 = n + 1 /\ 0 \in 0..m
    BY <1>1
  <2>2. <<>> \o R[n + 1] = R[n + 1]
    BY <1>2, <2>1, ConcatEmptySeq
  <2> QED BY <1>4, <2>1, <2>2
<1>6. ASSUME NEW k \in 0..(m - 1), k \in T PROVE k + 1 \in T
  <2> DEFINE i == n + k + 1
             a == p(k)
             b == <<seg[k + 1]>>
             c == R[i + 1]
  <2>1. /\ i \in 1..w /\ i \in 1..(w + 1) /\ i + 1 \in 1..(w + 1) /\ k \in 0..m
        /\ k + 1 \in 1..m /\ k + 1 \in 0..m /\ i = n + (k + 1) /\ (k + 1) - 1 = k
        /\ i + 1 = n + (k + 1) + 1
    BY <1>1
  <2>2. R[n + 1] = a \o R[i]
    BY <1>6
  <2>3. text[i] = seg[k + 1] /\ ~Rewrites(text, i, type)
    BY <1>1, <2>1 DEF m
  <2>4. R[i] = b \o c
    BY <1>3, <2>1, <2>3
  <2>5. a \in Seq(Token) /\ b \in Seq(Token) /\ c \in Seq(Token) /\ p(k + 1) = a \o b
    BY <1>2, <1>4, <2>1
  <2> HIDE DEF a, b
  <2>6. R[n + 1] = p(k + 1) \o c
    <3> HIDE DEF c
    <3>1. Associates(a, b, c)
      BY <2>5, Associativity
    <3> QED BY <2>2, <2>4, <2>5, <3>1, Zenon DEF Associates
  <2> QED BY <2>1, <2>6
<1>7. \A k \in 0..m : k \in T
  <2> HIDE DEF T
  <2> QED BY <1>1, <1>5, <1>6, InductionTo
<1>8. m \in T
  <2>1. m \in 0..m
    BY <1>1
  <2> QED BY <1>7, <2>1
<1> QED BY <1>4, <1>8 DEF Yields, m

\* Tokens other than double quotes open and close nothing.
LEMMA QuotesKept ==
    ASSUME NEW text, NEW n \in Nat, NEW m \in Nat,
           \A k \in 1..m : text[n + k] # "q"
    PROVE  \A k \in 0..m : InQuotes(text, n + k) <=> InQuotes(text, n)
<1> DEFINE T == {k \in 0..m : InQuotes(text, n + k) <=> InQuotes(text, n)}
<1>1. 0 \in T
  OBVIOUS
<1>2. ASSUME NEW k \in 0..(m - 1), k \in T PROVE k + 1 \in T
  <2> DEFINE i == n + (k + 1)
  <2>1. i \in Nat \ {0} /\ i - 1 = n + k /\ k + 1 \in 1..m /\ k + 1 \in 0..m
    OBVIOUS
  <2>2. text[i] # "q"
    BY <2>1
  <2>3. InQuotes(text, n + k) <=> InQuotes(text, n)
    BY <1>2
  <2> HIDE DEF i
  <2>4. InQuotes(text, i) <=> InQuotes(text, i - 1)
    BY <2>1, <2>2, QuotesStep
  <2>5. InQuotes(text, i) <=> InQuotes(text, n)
    BY <2>1, <2>3, <2>4
  <2> QED BY <2>1, <2>5 DEF i
<1>3. \A k \in 0..m : k \in T
  <2> HIDE DEF T
  <2> QED BY <1>1, <1>2, InductionTo
<1> QED BY <1>3

\* From position n to position m, neither of them between quotes, out is made.
Moves(R, text, n, m, out) ==
    ~InQuotes(text, n) => ~InQuotes(text, m) /\ Yields(R, n, m, out)

LEMMA MovesOn ==
    ASSUME NEW text \in Text, NEW type, NEW R, Makes(R, text, type),
           NEW n \in Nat, NEW m \in Nat, NEW k \in 0..Len(text),
           NEW x \in Text, NEW y \in Text, Moves(R, text, n, m, x), Moves(R, text, m, k, y)
    PROVE  Moves(R, text, n, k, x \o y)
<1>1. R[k + 1] \in Seq(Token)
  <2>1. Len(text) \in Nat
    BY DEF Text
  <2>2. k + 1 \in 1..(Len(text) + 1)
    BY <2>1
  <2> QED BY <2>2 DEF Makes, Text
<1> DEFINE r == R[k + 1]
<1> HIDE DEF r
<1>2. Associates(x, y, r)
  BY <1>1, Associativity DEF Text, r
<1> QED BY <1>2, Zenon DEF Moves, Yields, Associates, r

\* Tokens that are neither double quotes nor the type's name.
LEMMA MovesPlain ==
    ASSUME NEW text \in Text, NEW type, NEW R, Makes(R, text, type),
           NEW n \in Nat, NEW seg \in Text, At(text, n, seg),
           \A k \in 1..Len(seg) : seg[k] # "q" /\ seg[k] # type
    PROVE  Moves(R, text, n, n + Len(seg), seg)
<1> DEFINE m == Len(seg)
<1>1. m \in Nat /\ \A k \in 1..m : text[n + k] = seg[k]
  BY DEF Text, At
<1>2. \A k \in 1..m : ~Rewrites(text, n + k, type)
  BY <1>1 DEF Rewrites, BareAt
<1>3. Yields(R, n, n + m, seg)
  BY <1>2, Copied
<1>4. \A k \in 1..m : text[n + k] # "q"
  BY <1>1
<1> HIDE DEF m
<1>5. \A k \in 0..m : InQuotes(text, n + k) <=> InQuotes(text, n)
  BY <1>1, <1>4, QuotesKept
<1>6. m \in 0..m
  BY <1>1
<1> QED BY <1>3, <1>5, <1>6 DEF Moves, m


\* A name is copied, quoted or not, whatever it looks like.
LEMMA MovesName ==
    ASSUME NEW text \in Text, NEW type, type # "q", NEW R, Makes(R, text, type),
           NEW n \in Nat, NEW name \in Text, ~Contains(name, "q"),
           At(text, n, Quoted(name)), At(text, n + Len(Quoted(name)), <<"sp">>)
    PROVE  Moves(R, text, n, n + Len(Quoted(name)), Quoted(name))
<1> DEFINE seg == Quoted(name)
           m == Len(seg)
<1>1. seg \in Text /\ m \in Nat /\ Len(text) \in Nat
  BY QuotedText DEF Text
<1>2. n + m <= Len(text) /\ \A k \in 1..m : text[n + k] = seg[k]
  BY Zenon DEF At
<1>3. n + m + 1 <= Len(text) /\ text[n + m + 1] = "sp"
  <2> DEFINE e == <<"sp">>
             i == n + m
  <2>1. Len(e) = 1 /\ e[1] = "sp" /\ 1 \in 1..1
    OBVIOUS
  <2>2. i + Len(e) <= Len(text) /\ \A k \in 1..Len(e) : text[i + k] = e[k]
    BY Zenon DEF At
  <2> HIDE DEF e
  <2> QED BY <2>1, <2>2
<1>4. name \in Seq(Token) /\ \A i \in 1..Len(name) : name[i] # "q"
  BY DEF Text, Contains
<1>5. CASE Len(name) = 1 /\ name # <<"esc">>
  <2>1. seg = name /\ m = 1 /\ seg[1] # "q"
    BY <1>4, <1>5 DEF Quoted
  <2> HIDE DEF seg, m
  <2>2. BehindType(text, n + 1) = n + 2
    <3>1. ~(n + 1 < Len(text) /\ text[n + 1 + 1] = "(")
      <4>1. n + 1 + 1 = n + m + 1
        BY <2>1
      <4> QED BY <1>3, <4>1
    <3>2. n + 1 + 1 = n + 2
      OBVIOUS
    <3> QED BY <3>1, <3>2, Zenon DEF BehindType
  <2>3. ~Ends(text, n + 2)
    <3>1. n + 2 = n + m + 1
      BY <2>1
    <3>2. ~(n + 2 > Len(text)) /\ text[n + 2] = "sp"
      BY <1>1, <1>3, <3>1
    <3> QED BY <3>2 DEF Ends
  <2>4. ~Rewrites(text, n + 1, type)
    BY <2>2, <2>3 DEF Rewrites
  <2>5. \A k \in 1..m : k = 1
    BY <2>1
  <2>6. \A k \in 1..m : ~Rewrites(text, n + k, type) /\ text[n + k] # "q"
    BY <1>2, <2>1, <2>4, <2>5
  <2>7. At(text, n, seg)
    BY DEF seg
  <2>8. Yields(R, n, n + Len(seg), seg)
    BY <1>1, <2>6, <2>7, Copied DEF m
  <2>9. \A k \in 0..m : InQuotes(text, n + k) <=> InQuotes(text, n)
    BY <1>1, <2>6, QuotesKept
  <2>10. m \in 0..m
    BY <1>1
  <2> QED BY <2>8, <2>9, <2>10 DEF Moves, m, seg
<1>6. CASE ~(Len(name) = 1 /\ name # <<"esc">>)
  <2> DEFINE d == Doubled(name)
             z == Len(d)
             q == <<"q">>
  <2>1. seg = (q \o d) \o q
    BY <1>6, Zenon DEF Quoted
  <2>2. d \in Seq(Token) /\ q \in Seq(Token) /\ Len(q) = 1 /\ q[1] = "q"
    BY DoubledText, TextFacts DEF Text
  <2>3. \A k \in 1..z : d[k] # "q"
    <3> DEFINE S == Token \ {"q"}
               ss == [i \in 1..Len(name) |-> Piece(name[i])]
    <3>1. Len(name) \in Nat /\ DOMAIN name = 1..Len(name) /\ \A i \in 1..Len(name) : name[i] \in S
      BY <1>4
    <3>2. \A t \in S : Piece(t) \in Seq(S)
      <4>1. \A t, v \in S : <<t>> \in Seq(S) /\ <<t, v>> \in Seq(S)
        OBVIOUS
      <4>2. "esc" \in S
        BY TokenAssumption
      <4> QED BY <4>1, <4>2 DEF Piece
    <3> HIDE DEF S
    <3>3. ss \in Seq(Seq(S))
      BY <3>1, <3>2
    <3>4. d = FlattenSeq(ss)
      BY <3>1, Zenon DEF Doubled, Piece
    <3> HIDE DEF ss, d
    <3>5. PICK f : Joins(f, ss, Len(ss), S) /\ FlattenSeq(ss) = f[Len(ss)]
      BY <3>3, FlattenPrefixes
    <3>6. Len(ss) \in 0..Len(ss)
      BY <3>3
    <3>7. d \in Seq(S)
      BY <3>4, <3>5, <3>6 DEF Joins
    <3> QED BY <3>7 DEF S
  <2> HIDE DEF d, q
  <2> DEFINE u == q \o d
  <2>4. /\ u \in Seq(Token) /\ Len(u) = 1 + z /\ z \in Nat
        /\ \A k \in 1..1 : u[k] = q[k]
        /\ \A k \in 1..z : u[1 + k] = d[k]
    BY <2>2, JoinedAt
  <2> HIDE DEF u
  <2>5. /\ m = (1 + z) + 1
        /\ \A k \in 1..(1 + z) : seg[k] = u[k]
        /\ \A k \in 1..1 : seg[(1 + z) + k] = q[k]
    <3> HIDE DEF m, seg, z
    <3>1. seg = u \o q
      BY <2>1 DEF u
    <3>2. /\ Len(u \o q) = Len(u) + Len(q)
          /\ \A k \in 1..Len(u) : (u \o q)[k] = u[k]
          /\ \A k \in 1..Len(q) : (u \o q)[Len(u) + k] = q[k]
      <4>1. u \in Seq(Token) /\ q \in Seq(Token)
        BY <2>2, <2>4
      <4> QED BY <4>1, JoinedAt
    <3> QED BY <2>2, <2>4, <3>1, <3>2 DEF m
  <2> HIDE DEF m, seg, z
  <2>6. /\ 1 \in 1..m /\ m \in 1..m /\ 1 \in 1..1 /\ 1 \in 1..(1 + z) /\ m = (1 + z) + 1
        /\ \A k \in 1..z : 1 + k \in 1..m /\ 1 + k \in 1..(1 + z)
        /\ \A k \in 1..m : k = 1 \/ k = m \/ \E j \in 1..z : k = 1 + j
    <3>1. \A k \in 1..m : k = 1 \/ k = m \/ (k - 1 \in 1..z /\ k = 1 + (k - 1))
      BY <2>4, <2>5
    <3> QED BY <2>4, <2>5, <3>1
  <2>7. seg[1] = "q" /\ seg[m] = "q"
    BY <2>2, <2>4, <2>5, <2>6
  <2>8. \A j \in 1..z : seg[1 + j] = d[j]
    BY <2>4, <2>5, <2>6
  <2>9. text[n + 1] = "q" /\ text[n + m] = "q"
    BY <1>2, <2>6, <2>7
  <2>10. \A j \in 1..z : text[(n + 1) + j] # "q"
    <3> SUFFICES ASSUME NEW j \in 1..z PROVE text[(n + 1) + j] # "q"
      OBVIOUS
    <3>1. 1 + j \in 1..m /\ n + (1 + j) = (n + 1) + j
      BY <2>4, <2>6
    <3> QED BY <1>2, <2>3, <2>8, <3>1 DEF z
  <2>11. ASSUME ~InQuotes(text, n) PROVE InQuotes(text, n + 1)
    <3>1. n + 1 \in Nat \ {0} /\ (n + 1) - 1 = n
      OBVIOUS
    <3> QED BY <2>9, <2>11, <3>1, QuotesStep
  <2>12. \A j \in 0..z : InQuotes(text, (n + 1) + j) <=> InQuotes(text, n + 1)
    <3>1. n + 1 \in Nat
      OBVIOUS
    <3> QED BY <2>4, <2>10, <3>1, QuotesKept
  <2>13. ASSUME ~InQuotes(text, n) PROVE ~InQuotes(text, n + m)
    <3>1. n + m \in Nat \ {0} /\ (n + m) - 1 = (n + 1) + z /\ z \in 0..z
      BY <2>4, <2>5
    <3>2. InQuotes(text, (n + m) - 1)
      BY <2>11, <2>12, <2>13, <3>1
    <3> QED BY <2>9, <3>1, <3>2, QuotesStep
  <2>14. ASSUME ~InQuotes(text, n), NEW k \in 1..m PROVE ~Rewrites(text, n + k, type)
    <3>1. CASE k = 1 \/ k = m
      BY <2>9, <3>1 DEF Rewrites, BareAt
    <3>2. ASSUME NEW j \in 1..z, k = 1 + j PROVE InQuotes(text, n + k)
      <4>1. j \in 0..z /\ n + k = (n + 1) + j
        BY <2>4, <3>2
      <4> QED BY <2>11, <2>12, <2>14, <4>1
    <3> QED BY <2>6, <3>1, <3>2 DEF Rewrites, BareAt
  <2>15. At(text, n, seg)
    BY DEF seg
  <2>16. ASSUME ~InQuotes(text, n) PROVE Yields(R, n, n + Len(seg), seg)
    <3>1. \A k \in 1..Len(seg) : ~Rewrites(text, n + k, type)
      BY <2>14, <2>16 DEF m
    <3> QED BY <1>1, <2>15, <3>1, Copied
  <2> QED BY <2>13, <2>16 DEF Moves, m, seg
<1> QED BY <1>5, <1>6

\* A type's name, or one with its parameter: what structure_as_string replaces.
Called(base, type) ==
    base = <<type>> \/ \E p \in Token \ {"q", ")"} : base = <<type, "(", p, ")">>

\* The type is replaced where it begins a clause and something ends behind it.
LEMMA MovesBase ==
    ASSUME NEW text \in Text, NEW type, type # "q", NEW R, Makes(R, text, type),
           NEW n \in Nat \ {0}, NEW base \in Text, At(text, n, base),
           Called(base, type), text[n] \in {"sp", "("},
           Ends(text, n + Len(base) + 1)
    PROVE  Moves(R, text, n, n + Len(base), <<"String">>)
<1> DEFINE m == Len(base)
           i == n + 1
<1>1. m \in Nat /\ Len(text) \in Nat
  BY DEF Text
<1>2. n + m <= Len(text) /\ \A k \in 1..m : text[n + k] = base[k]
  BY Zenon DEF At
<1>3. /\ m \in {1, 4} /\ base[1] = type
      /\ m = 4 => base[2] = "(" /\ base[3] \notin {"q", ")"} /\ base[4] = ")"
  BY DEF Called
<1> HIDE DEF m
<1>4. i \in 1..Len(text) /\ text[i] = type /\ i > 1 /\ text[i - 1] \in {"sp", "("}
  <2>1. 1 \in 1..m /\ i - 1 = n /\ i > 1 /\ i \in 1..Len(text)
    BY <1>1, <1>2, <1>3
  <2> QED BY <1>2, <1>3, <2>1
<1>5. BehindType(text, i) = n + m + 1
  <2> DEFINE close == {j \in i + 1 .. Len(text) : text[j] = ")"}
  <2>1. CASE m = 1
    <3>1. i + 1 = n + m + 1 /\ i + 1 \in Nat
      BY <2>1
    <3>2. ~(i < Len(text) /\ text[i + 1] = "(")
      BY <1>1, <3>1 DEF Ends, m
    <3> QED BY <3>1, <3>2, Zenon DEF BehindType
  <2>2. CASE m = 4
    <3>1. 2 \in 1..m /\ 3 \in 1..m /\ 4 \in 1..m
      BY <2>2
    <3>2. text[n + 2] = "(" /\ text[n + 3] # ")" /\ text[n + 4] = ")"
      BY <1>2, <1>3, <2>2, <3>1
    <3>3. i + 1 = n + 2 /\ i < Len(text) /\ n + 4 \in (i + 1)..Len(text)
      BY <1>1, <1>2, <2>2
    <3>4. \A j \in close : j # n + 2 /\ j # n + 3
      BY <3>2
    <3>5. close \subseteq Nat /\ n + 4 \in close /\ \A j \in close : n + 4 <= j
      BY <1>1, <3>2, <3>3, <3>4
    <3>6. BehindType(text, i) = Min(close) + 1
      BY <3>2, <3>3, <3>5, Zenon DEF BehindType
    <3> HIDE DEF close
    <3>7. Min(close) \in close /\ Min(close) <= n + 4
      BY <3>5, MinIsLeast
    <3>8. Min(close) = n + 4
      <4>1. Min(close) \in Nat /\ n + 4 <= Min(close) /\ Min(close) <= n + 4
        BY <3>5, <3>7, Zenon
      <4>2. \A x \in Nat : n + 4 <= x /\ x <= n + 4 => x = n + 4
        OBVIOUS
      <4> QED BY <4>1, <4>2, Zenon
    <3> QED BY <2>2, <3>6, <3>8
  <2> QED BY <1>3, <2>1, <2>2
<1>6. \A k \in 1..m : text[n + k] # "q"
  <2>1. \A k \in 1..m : k = 1 \/ (m = 4 /\ k \in {2, 3, 4})
    BY <1>3
  <2>2. \A k \in 1..m : base[k] # "q"
    BY <1>3, <2>1
  <2> QED BY <1>2, <2>2
<1>7. \A k \in 0..m : InQuotes(text, n + k) <=> InQuotes(text, n)
  BY <1>1, <1>6, QuotesKept
<1>8. m \in 0..m /\ 1 \in 0..m
  BY <1>1, <1>3
<1>9. ASSUME ~InQuotes(text, n) PROVE Yields(R, n, n + m, <<"String">>)
  <2>1. ~InQuotes(text, i)
    BY <1>7, <1>8, <1>9
  <2>2. Rewrites(text, i, type)
    BY <1>4, <1>5, <2>1 DEF Rewrites, BareAt, m
  <2>3. R[i] = <<"String">> \o R[BehindType(text, i)]
    BY <1>4, <2>2 DEF Makes
  <2> QED BY <1>5, <2>3 DEF Yields
<1> QED BY <1>7, <1>8, <1>9 DEF Moves, m


\* Two texts one behind the other.
LEMMA AtBoth ==
    ASSUME NEW text \in Text, NEW n \in Nat, NEW x \in Text, NEW y \in Text,
           At(text, n, x \o y)
    PROVE  /\ At(text, n, x) /\ At(text, n + Len(x), y)
           /\ Len(x \o y) = Len(x) + Len(y) /\ x \o y \in Text
<1> DEFINE u == x \o y
<1>1. /\ u \in Seq(Token) /\ Len(u) = Len(x) + Len(y)
      /\ \A i \in 1..Len(x) : u[i] = x[i]
      /\ \A i \in 1..Len(y) : u[Len(x) + i] = y[i]
  BY JoinedAt DEF Text
<1>2. Len(x) \in Nat /\ Len(y) \in Nat /\ Len(text) \in Nat
  BY DEF Text
<1> HIDE DEF u
<1>3. n + Len(u) <= Len(text) /\ \A k \in 1..Len(u) : text[n + k] = u[k]
  BY DEF At, u
<1>4. At(text, n, x)
  <2>1. n + Len(x) <= Len(text)
    BY <1>1, <1>2, <1>3
  <2>2. \A k \in 1..Len(x) : k \in 1..Len(u)
    BY <1>1, <1>2
  <2> QED BY <1>1, <1>3, <2>1, <2>2 DEF At
<1>5. At(text, n + Len(x), y)
  <2>1. (n + Len(x)) + Len(y) <= Len(text)
    BY <1>1, <1>2, <1>3
  <2>2. \A k \in 1..Len(y) : Len(x) + k \in 1..Len(u) /\ (n + Len(x)) + k = n + (Len(x) + k)
    BY <1>1, <1>2
  <2> QED BY <1>1, <1>3, <2>1, <2>2 DEF At
<1> QED BY <1>1, <1>4, <1>5 DEF u, Text

\* Tokens that structure_as_string copies.
Clean(seg, type) == \A k \in 1..Len(seg) : seg[k] # "q" /\ seg[k] # type
\* A type: what it is wrapped in, and its name, which is or is not the one sought.
Shaped(pre, base, post, type) ==
    /\ pre \in Text /\ base \in Text /\ post \in Text
    /\ Clean(pre, type) /\ (Len(pre) # 0 => pre[Len(pre)] = "(")
    /\ Clean(post, type) /\ (Len(post) # 0 => post[1] = ")")
    /\ IF base[1] = type THEN Called(base, type) ELSE Clean(base, type)
Lose(base, type) == IF base[1] = type THEN <<"String">> ELSE base

\* A type is copied but for the name that is sought.
LEMMA MovesType ==
    ASSUME NEW text \in Text, NEW type, type # "q", NEW R, Makes(R, text, type),
           NEW n \in Nat \ {0}, text[n] = "sp",
           NEW pre, NEW base, NEW post, Shaped(pre, base, post, type),
           At(text, n, (pre \o base) \o post),
           Ends(text, n + Len((pre \o base) \o post) + 1)
    PROVE  Moves(R, text, n, n + Len((pre \o base) \o post),
                 (pre \o Lose(base, type)) \o post)
<1> DEFINE u == pre \o base
           v == u \o post
           a == n + Len(pre)
           b == a + Len(base)
           c == b + Len(post)
           out == Lose(base, type)
<1>1. pre \in Text /\ base \in Text /\ post \in Text /\ u \in Text
  BY TextFacts DEF Shaped
<1>2. /\ Len(pre) \in Nat /\ Len(base) \in Nat /\ Len(post) \in Nat /\ Len(text) \in Nat
      /\ n \in Nat
  BY <1>1 DEF Text
<1> HIDE DEF u
<1>3. At(text, n, u) /\ At(text, n + Len(u), post) /\ Len(v) = Len(u) + Len(post)
  <2>1. At(text, n, u \o post)
    BY DEF u
  <2> QED BY <1>1, <1>2, <2>1, AtBoth
<1>4. At(text, n, pre) /\ At(text, a, base) /\ Len(u) = Len(pre) + Len(base)
  BY <1>1, <1>2, <1>3, AtBoth DEF u
<1> HIDE DEF v
<1>5. n + Len(u) = b /\ n + Len(v) = c /\ a \in Nat \ {0} /\ b \in Nat
  BY <1>2, <1>3, <1>4
<1>6. c \in 0..Len(text) /\ b \in 0..Len(text)
  <2>1. b + Len(post) <= Len(text)
    BY <1>3, <1>5 DEF At
  <2> QED BY <1>2, <1>5, <2>1
<1>7. Ends(text, c + 1)
  BY <1>5 DEF v, u
<1> HIDE DEF a, b, c
<1>8. Moves(R, text, n, a, pre)
  BY <1>1, <1>2, <1>4, MovesPlain DEF Shaped, Clean, a
<1>9. Moves(R, text, b, c, post)
  BY <1>1, <1>3, <1>5, MovesPlain DEF Shaped, Clean, c
<1>10. Moves(R, text, a, b, out) /\ out \in Text
  <2>1. CASE base[1] = type
    <3>1. text[a] \in {"sp", "("}
      <4>1. CASE Len(pre) = 0
        BY <1>2, <4>1 DEF a
      <4>2. CASE Len(pre) # 0
        <5>1. Len(pre) \in 1..Len(pre)
          BY <1>2, <4>2
        <5> QED BY <1>4, <4>2, <5>1 DEF At, Shaped, a
      <4> QED BY <4>1, <4>2
    <3>2. Ends(text, b + 1)
      <4>1. CASE Len(post) = 0
        <5>1. c = b
          BY <1>5, <4>1 DEF c
        <5> QED BY <1>7, <5>1
      <4>2. CASE Len(post) # 0
        <5>1. 1 \in 1..Len(post)
          BY <1>2, <4>2
        <5>2. text[b + 1] = ")"
          BY <1>3, <1>5, <4>2, <5>1 DEF At, Shaped
        <5> QED BY <5>2 DEF Ends
      <4> QED BY <4>1, <4>2
    <3>3. Called(base, type) /\ out = <<"String">>
      BY <2>1 DEF Shaped, Lose
    <3>4. Moves(R, text, a, a + Len(base), <<"String">>)
      <4>1. Ends(text, a + Len(base) + 1)
        BY <3>2 DEF b
      <4> QED BY <1>1, <1>4, <1>5, <3>1, <3>3, <4>1, MovesBase
    <3> QED BY <3>3, <3>4, TextFacts, TokenAssumption DEF b
  <2>2. CASE base[1] # type
    <3>1. Clean(base, type) /\ out = base
      BY <2>2 DEF Shaped, Lose
    <3>2. a \in Nat
      BY <1>5
    <3>3. Moves(R, text, a, a + Len(base), base)
      BY <1>1, <1>4, <3>1, <3>2, MovesPlain DEF Clean
    <3> QED BY <1>1, <3>1, <3>3 DEF b
  <2> QED BY <2>1, <2>2
<1> HIDE DEF out
<1>11. pre \o out \in Text /\ a \in Nat /\ b \in Nat
  BY <1>1, <1>5, <1>10, TextFacts
<1>12. Moves(R, text, n, b, pre \o out)
  BY <1>1, <1>2, <1>6, <1>8, <1>10, <1>11, MovesOn
<1> DEFINE w == pre \o out
<1> HIDE DEF w
<1>13. Moves(R, text, n, c, w \o post)
  <2>1. w \in Text /\ Moves(R, text, n, b, w)
    BY <1>11, <1>12 DEF w
  <2> QED BY <1>1, <1>2, <1>6, <1>9, <1>11, <2>1, MovesOn
<1> QED BY <1>5, <1>13 DEF v, u, w, out

\* The column behind position n, from its comma to the end of its type.
Item(lead, name, type) == ((lead \o Quoted(name)) \o <<"sp">>) \o type

LEMMA MovesItem ==
    ASSUME NEW text \in Text, NEW type, type \notin {"q", "sp", "comma"},
           NEW R, Makes(R, text, type), NEW n \in Nat,
           NEW lead \in {<<>>, <<"comma", "sp">>},
           NEW name \in Text, ~Contains(name, "q"),
           NEW pre, NEW base, NEW post, Shaped(pre, base, post, type),
           At(text, n, Item(lead, name, (pre \o base) \o post)),
           Ends(text, n + Len(Item(lead, name, (pre \o base) \o post)) + 1)
    PROVE  Moves(R, text, n, n + Len(Item(lead, name, (pre \o base) \o post)),
                 Item(lead, name, (pre \o Lose(base, type)) \o post))
<1> DEFINE old == (pre \o base) \o post
           new == (pre \o Lose(base, type)) \o post
           q == Quoted(name)
           sp == <<"sp">>
           u == lead \o q
           v == u \o sp
           a == n + Len(lead)
           b == a + Len(q)
           c == b + 1
           d == c + Len(old)
<1>1. lead \in Text /\ q \in Text /\ sp \in Text /\ Len(sp) = 1 /\ sp[1] = "sp"
  BY QuotedText, TextFacts
<1>2. old \in Text /\ new \in Text
  <2>1. pre \in Text /\ base \in Text /\ post \in Text /\ Lose(base, type) \in Text
    BY TextFacts, TokenAssumption DEF Shaped, Lose
  <2>2. pre \o base \in Text /\ pre \o Lose(base, type) \in Text
    BY <2>1, TextFacts
  <2> QED BY <2>1, <2>2, TextFacts
<1>3. u \in Text /\ v \in Text
  BY <1>1, TextFacts
<1>4. Len(lead) \in Nat /\ Len(q) \in Nat /\ Len(old) \in Nat /\ Len(text) \in Nat
  BY <1>1, <1>2 DEF Text
<1>5. Clean(lead, type) /\ Clean(sp, type)
  BY DEF Clean
<1>6. At(text, n, v \o old) /\ Ends(text, n + Len(v \o old) + 1)
  BY DEF Item
<1> HIDE DEF old, new, q, sp, u, v
<1>7. At(text, n, v) /\ At(text, n + Len(v), old) /\ Len(v \o old) = Len(v) + Len(old)
  BY <1>2, <1>3, <1>6, AtBoth
<1>8. At(text, n, u) /\ At(text, n + Len(u), sp) /\ Len(v) = Len(u) + 1
  <2>1. At(text, n, u \o sp)
    BY <1>7 DEF v
  <2>2. At(text, n, u) /\ At(text, n + Len(u), sp) /\ Len(u \o sp) = Len(u) + Len(sp)
    <3>1. u \in Text /\ sp \in Text
      BY <1>1, <1>3
    <3> QED BY <2>1, <3>1, AtBoth
  <2> QED BY <1>1, <2>2 DEF v
<1>9. At(text, n, lead) /\ At(text, n + Len(lead), q) /\ Len(u) = Len(lead) + Len(q)
  BY <1>1, <1>8, AtBoth DEF u
<1>10. /\ n + Len(u) = b /\ n + Len(v) = c /\ n + Len(v \o old) = d
       /\ a \in Nat /\ b \in Nat /\ c \in Nat \ {0} /\ c \in Nat /\ d \in Nat
  BY <1>4, <1>7, <1>8, <1>9
<1>11. d <= Len(text)
  BY <1>7, <1>10 DEF At
<1>12. a \in 0..Len(text) /\ b \in 0..Len(text) /\ c \in 0..Len(text) /\ d \in 0..Len(text)
  BY <1>4, <1>10, <1>11
<1> HIDE DEF a, b, c, d
<1>13. Moves(R, text, n, a, lead)
  BY <1>1, <1>5, <1>9, MovesPlain DEF Clean, a
<1>14. Moves(R, text, a, b, q)
  <2>1. At(text, a, q) /\ At(text, a + Len(q), sp)
    BY <1>8, <1>9, <1>10 DEF a, b
  <2>2. type # "q"
    OBVIOUS
  <2> QED BY <1>10, <2>1, <2>2, MovesName DEF q, sp, b
<1>15. Moves(R, text, b, c, sp)
  <2>1. Moves(R, text, b, b + Len(sp), sp)
    BY <1>1, <1>5, <1>8, <1>10, MovesPlain DEF Clean
  <2> QED BY <1>1, <2>1 DEF c
<1>16. Moves(R, text, c, d, new)
  <2>1. text[c] = "sp"
    <3>1. 1 \in 1..Len(sp)
      BY <1>1
    <3>2. text[b + 1] = sp[1]
      BY <1>8, <1>10, <3>1 DEF At
    <3> QED BY <1>1, <3>2 DEF c
  <2>2. At(text, c, old) /\ Ends(text, c + Len(old) + 1)
    BY <1>6, <1>7, <1>10 DEF d
  <2>3. type # "q"
    OBVIOUS
  <2>4. Moves(R, text, c, c + Len(old), new)
    BY <1>10, <2>1, <2>2, <2>3, MovesType DEF old, new
  <2> QED BY <2>4 DEF d
<1>17. Moves(R, text, n, b, u)
  BY <1>1, <1>10, <1>12, <1>13, <1>14, MovesOn DEF u
<1>18. Moves(R, text, n, c, v)
  BY <1>1, <1>3, <1>10, <1>12, <1>15, <1>17, MovesOn DEF v
<1>19. Moves(R, text, n, d, v \o new)
  BY <1>2, <1>3, <1>10, <1>12, <1>16, <1>18, MovesOn
<1> QED BY <1>10, <1>19 DEF Item, old, new, q, sp, u, v


Lead(i) == IF i = 1 THEN <<>> ELSE <<"comma", "sp">>
Items(columns) ==
    [i \in 1..Len(columns) |-> Item(Lead(i), columns[i].name, columns[i].type)]

LEMMA ColumnsFacts ==
    ASSUME NEW columns \in Columns
    PROVE  /\ Len(columns) \in Nat /\ DOMAIN columns = 1..Len(columns)
           /\ \A i \in 1..Len(columns) : /\ columns[i].name \in Text /\ columns[i].type \in Text
                                         /\ columns[i] \in [name : Text, type : Text]
<1> DEFINE C == [name : Text, type : Text]
<1>1. columns \in Seq(C)
  BY DEF Columns
<1>2. \A c \in C : c.name \in Text /\ c.type \in Text
  OBVIOUS
<1> HIDE DEF C
<1>3. Len(columns) \in Nat /\ DOMAIN columns = 1..Len(columns) /\ \A i \in 1..Len(columns) : columns[i] \in C
  BY <1>1
<1> QED BY <1>2, <1>3 DEF C

LEMMA ItemText ==
    ASSUME NEW i, NEW name \in Text, NEW type \in Text
    PROVE  Lead(i) \in Text /\ Item(Lead(i), name, type) \in Text
<1>1. Lead(i) \in Text
  BY TextFacts DEF Lead
<1>2. Quoted(name) \in Text /\ <<"sp">> \in Text
  BY QuotedText, TextFacts
<1> DEFINE w == Quoted(name)
           sp == <<"sp">>
           l == Lead(i)
<1> HIDE DEF w, sp, l
<1>3. l \o w \in Text
  BY <1>1, <1>2, TextFacts DEF l, w
<1>4. (l \o w) \o sp \in Text
  BY <1>2, <1>3, TextFacts DEF sp
<1>5. ((l \o w) \o sp) \o type \in Text
  BY <1>4, TextFacts
<1> QED BY <1>1, <1>5 DEF Item, l, w, sp

\* A structure is its items joined.
LEMMA StructureJoins ==
    ASSUME NEW columns \in Columns
    PROVE  \E f : /\ Joins(f, Items(columns), Len(columns), Token)
                  /\ StructureOf(columns) = f[Len(columns)]
<1> DEFINE ss == Items(columns)
<1>1. /\ Len(columns) \in Nat /\ DOMAIN columns = 1..Len(columns)
      /\ \A i \in 1..Len(columns) : columns[i].name \in Text /\ columns[i].type \in Text
  BY ColumnsFacts
<1>2. \A i \in 1..Len(columns) : Item(Lead(i), columns[i].name, columns[i].type) \in Seq(Token)
  BY <1>1, ItemText DEF Text
<1>3. ss \in Seq(Seq(Token)) /\ Len(ss) = Len(columns)
  BY <1>1, <1>2 DEF Items
<1>4. StructureOf(columns) = FlattenSeq(ss)
  BY <1>1, Zenon DEF StructureOf, Items, Item, Lead
<1> HIDE DEF ss
<1>5. \E f : Joins(f, ss, Len(ss), Token) /\ FlattenSeq(ss) = f[Len(ss)]
  BY <1>3, FlattenPrefixes
<1> QED BY <1>3, <1>4, <1>5 DEF ss

LEMMA AtMiddle ==
    ASSUME NEW a \in Text, NEW s \in Text, NEW t \in Text
    PROVE  At((a \o s) \o t, Len(a), s) /\ Len(a \o s) = Len(a) + Len(s)
<1> DEFINE u == (a \o s) \o t
<1>1. /\ Len(u) = Len(a) + Len(s) + Len(t) /\ Len(a \o s) = Len(a) + Len(s)
      /\ \A i \in 1..Len(s) : u[Len(a) + i] = s[i]
  BY MiddleAt DEF Text
<1>2. Len(a) \in Nat /\ Len(s) \in Nat /\ Len(t) \in Nat
  BY DEF Text
<1> HIDE DEF u
<1>3. Len(a) + Len(s) <= Len(u)
  BY <1>1, <1>2
<1> QED BY <1>1, <1>3 DEF At, u

\* The columns differ in the types whose name is the one sought, which are String.
Rewritten(columns, new, type) ==
    /\ Len(new) = Len(columns)
    /\ \A i \in 1..Len(columns) :
        /\ ~Contains(columns[i].name, "q") /\ new[i].name = columns[i].name
        /\ \E pre, base, post :
            /\ Shaped(pre, base, post, type)
            /\ columns[i].type = (pre \o base) \o post
            /\ new[i].type = (pre \o Lose(base, type)) \o post

\* structure_as_string makes of a list of columns the list in which the sought
\* type is String, wherever it stands in a column's type, and touches no name,
\* not even one that is or holds the name of the type.
THEOREM AsString ==
    ASSUME NEW columns \in Columns, NEW new \in Columns,
           NEW type, type \notin {"q", "sp", "comma"}, Rewritten(columns, new, type)
    PROVE  StructureAsString(StructureOf(columns), type) = StructureOf(new)
<1> DEFINE n == Len(columns)
           ss == Items(columns)
           tt == Items(new)
           text == StructureOf(columns)
<1>1. n \in Nat /\ \A i \in 1..n : columns[i].name \in Text /\ columns[i].type \in Text
  BY ColumnsFacts
<1>2. Len(new) = n /\ \A i \in 1..n : new[i].name \in Text /\ new[i].type \in Text
  <2>1. Len(new) = n
    BY DEF Rewritten
  <2> QED BY <2>1, ColumnsFacts
<1>3. PICK f : Joins(f, ss, n, Token) /\ text = f[n]
  BY StructureJoins
<1>4. PICK g : Joins(g, tt, n, Token) /\ StructureOf(new) = g[n]
  <2> HIDE DEF n
  <2> QED BY <1>2, StructureJoins
<1>5. text \in Text
  BY StructureText
<1>6. PICK R : Makes(R, text, type) /\ StructureAsString(text, type) = R[1]
  BY <1>5, AsStringSteps
<1>7. /\ \A i \in 1..n : ss[i] = Item(Lead(i), columns[i].name, columns[i].type) /\ ss[i] \in Text
      /\ \A i \in 1..n : tt[i] = Item(Lead(i), new[i].name, new[i].type) /\ tt[i] \in Text
  <2>1. /\ \A i \in 1..n : ss[i] = Item(Lead(i), columns[i].name, columns[i].type)
        /\ \A i \in 1..n : tt[i] = Item(Lead(i), new[i].name, new[i].type)
    BY <1>2 DEF Items
  <2> HIDE DEF ss, tt, n
  <2>2. \A i \in 1..n : /\ Item(Lead(i), columns[i].name, columns[i].type) \in Text
                        /\ Item(Lead(i), new[i].name, new[i].type) \in Text
    BY <1>1, <1>2, ItemText
  <2> QED BY <2>1, <2>2
<1>8. \A i \in 1..n :
        /\ ~Contains(columns[i].name, "q") /\ new[i].name = columns[i].name
        /\ \E pre, base, post :
            /\ Shaped(pre, base, post, type)
            /\ columns[i].type = (pre \o base) \o post
            /\ new[i].type = (pre \o Lose(base, type)) \o post
  BY DEF Rewritten
<1> HIDE DEF n, ss, tt, text
<1>9. /\ \A i \in 0..n : f[i] \in Text /\ g[i] \in Text /\ \E t \in Text : text = f[i] \o t
      /\ \A i \in 1..n : f[i] = f[i - 1] \o ss[i] /\ g[i] = g[i - 1] \o tt[i]
      /\ f[0] = <<>> /\ g[0] = <<>>
  <2>1. Begins(f, n, Token)
    BY <1>1, <1>3, JoinedPrefix
  <2>2. \A i \in 0..n : f[i] \in Text /\ g[i] \in Text
    BY <1>3, <1>4 DEF Joins, Text
  <2>3. \A i \in 0..n : \E t \in Text : text = f[i] \o t
    BY <1>3, <2>1 DEF Begins, Text
  <2> QED BY <1>3, <1>4, <2>2, <2>3 DEF Joins
\* Where the items stand.
<1>10. \A i \in 1..n : /\ At(text, Len(f[i - 1]), ss[i])
                       /\ Len(f[i]) = Len(f[i - 1]) + Len(ss[i])
                       /\ Len(f[i - 1]) \in Nat /\ Len(f[i]) \in 0..Len(text)
  <2> SUFFICES ASSUME NEW i \in 1..n
               PROVE  /\ At(text, Len(f[i - 1]), ss[i])
                      /\ Len(f[i]) = Len(f[i - 1]) + Len(ss[i])
                      /\ Len(f[i - 1]) \in Nat /\ Len(f[i]) \in 0..Len(text)
    OBVIOUS
  <2>1. i \in 0..n /\ i - 1 \in 0..n
    BY <1>1
  <2>2. PICK t \in Text : text = f[i] \o t
    BY <1>9, <2>1
  <2> DEFINE a == f[i - 1]
             s == ss[i]
  <2>3. a \in Text /\ s \in Text /\ f[i] = a \o s
    BY <1>7, <1>9, <2>1
  <2> HIDE DEF a, s
  <2>4. At((a \o s) \o t, Len(a), s) /\ Len(a \o s) = Len(a) + Len(s)
    BY <2>3, AtMiddle
  <2>5. Len(a) \in Nat /\ Len(s) \in Nat /\ Len(text) \in Nat
    BY <1>5, <2>3 DEF Text
  <2>6. At(text, Len(a), s) /\ Len(f[i]) = Len(a) + Len(s)
    BY <2>2, <2>3, <2>4
  <2>7. Len(a) + Len(s) <= Len(text)
    BY <2>6 DEF At
  <2>8. Len(f[i]) \in 0..Len(text)
    BY <2>5, <2>6, <2>7
  <2> QED BY <2>5, <2>6, <2>8 DEF a, s
\* What stands behind them.
<1>11. \A i \in 1..n : Ends(text, Len(f[i]) + 1)
  <2> SUFFICES ASSUME NEW i \in 1..n PROVE Ends(text, Len(f[i]) + 1)
    OBVIOUS
  <2>1. CASE i = n
    <3>1. Len(text) \in Nat /\ f[i] = text
      BY <1>3, <1>5, <2>1 DEF Text
    <3>2. Len(f[i]) + 1 > Len(text)
      BY <3>1
    <3> QED BY <3>2 DEF Ends
  <2>2. CASE i # n
    <3> DEFINE m == Len(f[i])
               j == i + 1
               l == Lead(j)
               w == Quoted(columns[j].name)
               sp == <<"sp">>
               y == columns[j].type
    <3>1. j \in 1..n /\ j - 1 = i /\ j # 1
      BY <1>1, <2>2
    <3>2. At(text, m, ss[j]) /\ m \in Nat
      BY <1>10, <3>1
    <3>3. l = <<"comma", "sp">> /\ w \in Text /\ y \in Text /\ sp \in Text
      BY <1>1, <3>1, QuotedText, TextFacts DEF Lead
    <3>4. ss[j] = ((l \o w) \o sp) \o y
      BY <1>7, <3>1 DEF Item
    <3>5. l \in Text /\ Len(l) = 2 /\ l[1] = "comma"
      BY <3>3, TextFacts
    <3> HIDE DEF m, j, l, w, sp, y
    <3>6. l \o w \in Text /\ (l \o w) \o sp \in Text
      <4>1. l \o w \in Text
        BY <3>3, <3>5, TextFacts
      <4> QED BY <3>3, <4>1, TextFacts
    <3> DEFINE lw == l \o w
               lws == lw \o sp
    <3>7. lw \in Text /\ lws \in Text
      BY <3>6
    <3> HIDE DEF lw
    <3> HIDE DEF lws
    <3>8. At(text, m, lws)
      <4>1. At(text, m, lws \o y)
        BY <3>2, <3>4 DEF lw, lws
      <4>2. y \in Text /\ m \in Nat
        BY <3>2, <3>3
      <4> QED BY <1>5, <3>7, <4>1, <4>2, AtBoth
    <3>9. At(text, m, lw)
      <4>1. At(text, m, lw \o sp) /\ sp \in Text /\ m \in Nat
        BY <3>2, <3>3, <3>8 DEF lws
      <4> QED BY <1>5, <3>7, <4>1, AtBoth
    <3>10. At(text, m, l)
      <4>1. At(text, m, l \o w) /\ w \in Text /\ l \in Text /\ m \in Nat
        BY <3>2, <3>3, <3>5, <3>9 DEF lw
      <4> QED BY <1>5, <4>1, AtBoth
    <3>11. text[m + 1] = "comma"
      <4>1. 1 \in 1..Len(l)
        BY <3>5
      <4> QED BY <3>5, <3>10, <4>1 DEF At
    <3> QED BY <3>11 DEF Ends, m
  <2> QED BY <2>1, <2>2
<1>12. \A i \in 1..n : Moves(R, text, Len(f[i - 1]), Len(f[i]), tt[i])
  <2> SUFFICES ASSUME NEW i \in 1..n PROVE Moves(R, text, Len(f[i - 1]), Len(f[i]), tt[i])
    OBVIOUS
  <2>1. PICK pre, base, post :
            /\ Shaped(pre, base, post, type)
            /\ columns[i].type = (pre \o base) \o post
            /\ new[i].type = (pre \o Lose(base, type)) \o post
    BY <1>8
  <2> DEFINE m == Len(f[i - 1])
             l == Lead(i)
             name == columns[i].name
  <2>2. /\ ss[i] = Item(l, name, (pre \o base) \o post)
        /\ tt[i] = Item(l, name, (pre \o Lose(base, type)) \o post)
    BY <1>7, <1>8, <2>1
  <2>3. m \in Nat /\ l \in {<<>>, <<"comma", "sp">>} /\ name \in Text /\ ~Contains(name, "q")
    BY <1>1, <1>8, <1>10 DEF Lead
  <2>4. At(text, m, ss[i]) /\ Len(f[i]) = m + Len(ss[i]) /\ Ends(text, m + Len(ss[i]) + 1)
    BY <1>10, <1>11
  <2> HIDE DEF m, l, name
  <2>5. /\ At(text, m, Item(l, name, (pre \o base) \o post))
        /\ Ends(text, m + Len(Item(l, name, (pre \o base) \o post)) + 1)
    BY <2>2, <2>4
  <2>6. Moves(R, text, m, m + Len(Item(l, name, (pre \o base) \o post)),
              Item(l, name, (pre \o Lose(base, type)) \o post))
    BY <1>5, <1>6, <2>1, <2>3, <2>5, MovesItem
  <2> QED BY <2>2, <2>4, <2>6 DEF m
<1> DEFINE T == {k \in 0..n : Moves(R, text, 0, Len(f[k]), g[k])}
<1>13. R \in [1..(Len(text) + 1) -> Text] /\ Len(text) \in Nat
  BY <1>5, <1>6 DEF Makes, Text
<1>14. 0 \in T
  <2>1. 1 \in 1..(Len(text) + 1) /\ 0 + 1 = 1
    BY <1>13
  <2>2. R[1] \in Seq(Token)
    BY <1>13, <2>1 DEF Text
  <2>3. <<>> \o R[1] = R[1] /\ Len(<<>>) = 0
    BY <2>2, ConcatEmptySeq
  <2>4. Moves(R, text, 0, Len(f[0]), g[0])
    BY <1>9, <2>1, <2>3 DEF Moves, Yields
  <2> QED BY <1>1, <2>4
<1>15. ASSUME NEW k \in 0..(n - 1), k \in T PROVE k + 1 \in T
  <2> DEFINE i == k + 1
             a == Len(f[k])
             b == Len(f[i])
             x == g[k]
             y == tt[i]
  <2>1. i \in 1..n /\ i - 1 = k /\ i \in 0..n /\ k \in 0..n
    BY <1>1
  <2>2. Moves(R, text, 0, a, x)
    BY <1>15
  <2>3. Moves(R, text, a, b, y)
    BY <1>12, <2>1
  <2>4. a \in Nat /\ b \in 0..Len(text) /\ x \in Text /\ y \in Text /\ g[i] = x \o y /\ 0 \in Nat
    BY <1>7, <1>9, <1>10, <2>1
  <2> HIDE DEF a, b, x, y
  <2>5. Moves(R, text, 0, b, x \o y)
    BY <1>5, <1>6, <2>2, <2>3, <2>4, MovesOn
  <2> QED BY <2>1, <2>4, <2>5 DEF b
<1>16. \A k \in 0..n : k \in T
  <2> HIDE DEF T
  <2> QED BY <1>1, <1>14, <1>15, InductionTo
<1>17. Moves(R, text, 0, Len(text), g[n])
  <2>1. n \in 0..n
    BY <1>1
  <2> QED BY <1>3, <1>16, <2>1
<1>18. R[1] = g[n] \o <<>>
  <2>1. 1 \in Nat \ {0} /\ 0 + 1 = 1
    OBVIOUS
  <2>2. ~InQuotes(text, 0)
    BY <2>1, QuotesStep
  <2>3. R[0 + 1] = g[n] \o R[Len(text) + 1]
    BY <1>17, <2>2 DEF Moves, Yields
  <2> QED BY <1>6, <2>1, <2>3 DEF Makes
<1>19. g[n] \o <<>> = g[n]
  <2>1. n \in 0..n
    BY <1>1
  <2>2. g[n] \in Seq(Token)
    BY <1>9, <2>1 DEF Text
  <2> QED BY <2>2, ConcatEmptySeq
<1> QED BY <1>4, <1>6, <1>18, <1>19 DEF text


\* A text without a backslash is what chDB reads it as.
LEMMA UnescapedPlain ==
    ASSUME NEW text \in Seq(Token \ {"esc"})
    PROVE  Unescaped(text) = text
<1> DEFINE n == Len(text)
<1>1. text \in Text /\ n \in Nat /\ \A i \in 1..n : text[i] # "esc"
  BY DEF Text
<1>2. PICK R : Reads(R, text) /\ Unescaped(text) = R[1]
  BY <1>1, UnescapedSteps
<1>3. R[n + 1] = <<>>
  <2>1. n + 1 \in 1..(n + 1) /\ n + 1 > n
    BY <1>1
  <2> QED BY <1>2, <2>1 DEF Reads, Step
<1>4. \A i \in 1..n : R[i] = <<text[i]>> \o R[i + 1]
  <2> SUFFICES ASSUME NEW i \in 1..n PROVE R[i] = <<text[i]>> \o R[i + 1]
    OBVIOUS
  <2>1. i \in 1..(n + 1) /\ ~(i > n) /\ text[i] # "esc"
    BY <1>1
  <2> QED BY <1>2, <2>1 DEF Reads, Step
<1> DEFINE p(k) == SubSeq(text, n - k + 1, n)
           T == {k \in 0..n : R[n - k + 1] = p(k)}
<1>5. /\ p(0) = <<>> /\ p(n) = text
      /\ \A k \in 0..(n - 1) : p(k + 1) = <<text[n - k]>> \o p(k)
  OBVIOUS
<1> HIDE DEF n, p
<1>6. 0 \in T
  BY <1>1, <1>3, <1>5
<1>7. ASSUME NEW k \in 0..(n - 1), k \in T PROVE k + 1 \in T
  <2>1. n - k \in 1..n /\ n - (k + 1) + 1 = n - k /\ k + 1 \in 0..n
    BY <1>1
  <2>2. R[n - k] = <<text[n - k]>> \o R[n - k + 1]
    BY <1>4, <2>1
  <2> QED BY <1>5, <1>7, <2>1, <2>2
<1>8. \A k \in 0..n : k \in T
  <2> HIDE DEF T
  <2> QED BY <1>1, <1>6, <1>7, InductionTo
<1>9. R[1] = p(n)
  <2>1. n \in 0..n /\ n - n + 1 = 1
    BY <1>1
  <2>2. n \in T
    BY <1>8, <2>1
  <2> QED BY <2>1, <2>2
<1> QED BY <1>2, <1>5, <1>9

\* A structure holds no backslash when no name and no type does.
LEMMA StructurePlain ==
    ASSUME NEW columns \in Columns,
           \A i \in 1..Len(columns) : /\ ~Contains(columns[i].name, "esc")
                                      /\ ~Contains(columns[i].type, "esc")
    PROVE  Unescaped(StructureOf(columns)) = StructureOf(columns)
<1> DEFINE S == Token \ {"esc"}
           n == Len(columns)
           ss == Items(columns)
<1>1. n \in Nat /\ DOMAIN columns = 1..n
      /\ \A i \in 1..n : columns[i].name \in Seq(S) /\ columns[i].type \in Seq(S)
  <2>1. n \in Nat /\ DOMAIN columns = 1..n
        /\ \A i \in 1..n : columns[i].name \in Seq(Token) /\ columns[i].type \in Seq(Token)
    BY ColumnsFacts DEF Text
  <2>2. \A t \in Seq(Token) : ~Contains(t, "esc") => t \in Seq(S)
    <3> SUFFICES ASSUME NEW t \in Seq(Token), ~Contains(t, "esc") PROVE t \in Seq(S)
      OBVIOUS
    <3>1. \A i \in 1..Len(t) : t[i] \in S
      BY DEF Contains
    <3> HIDE DEF S
    <3> QED BY <3>1
  <2> HIDE DEF S, n
  <2> QED BY <2>1, <2>2 DEF n
<1>2. /\ \A t \in S : <<t>> \in Seq(S)
      /\ \A x, y \in Seq(S) : x \o y \in Seq(S)
      /\ <<"q">> \in Seq(S) /\ <<"sp">> \in Seq(S) /\ <<"comma", "sp">> \in Seq(S) /\ <<>> \in Seq(S)
  <2>1. "q" \in S /\ "sp" \in S /\ "comma" \in S
    BY TokenAssumption
  <2> HIDE DEF S
  <2>2. \A t, v \in S : <<t>> \in Seq(S) /\ <<t, v>> \in Seq(S)
    OBVIOUS
  <2>3. \A x, y \in Seq(S) : x \o y \in Seq(S)
    BY ConcatProperties
  <2> QED BY <2>1, <2>2, <2>3
<1>3. \A name \in Seq(S) : Doubled(name) \in Seq(S)
  <2> SUFFICES ASSUME NEW name \in Seq(S) PROVE Doubled(name) \in Seq(S)
    OBVIOUS
  <2> DEFINE dd == [i \in 1..Len(name) |-> Piece(name[i])]
  <2>1. Len(name) \in Nat /\ DOMAIN name = 1..Len(name)
        /\ \A i \in 1..Len(name) : name[i] \in S /\ name[i] # "esc"
    OBVIOUS
  <2> HIDE DEF S
  <2>2. \A i \in 1..Len(name) : Piece(name[i]) \in Seq(S)
    BY <1>2, <2>1 DEF Piece
  <2>3. dd \in Seq(Seq(S))
    BY <2>1, <2>2
  <2>4. Doubled(name) = FlattenSeq(dd)
    BY <2>1, Zenon DEF Doubled, Piece
  <2> HIDE DEF dd
  <2>5. PICK f : Joins(f, dd, Len(dd), S) /\ FlattenSeq(dd) = f[Len(dd)]
    BY <2>3, FlattenPrefixes
  <2>6. Len(dd) \in 0..Len(dd)
    BY <2>3
  <2> QED BY <2>4, <2>5, <2>6 DEF Joins
<1> HIDE DEF S
<1>4. ASSUME NEW i \in 1..n PROVE Item(Lead(i), columns[i].name, columns[i].type) \in Seq(S)
  <2> DEFINE l == Lead(i)
             w == Quoted(columns[i].name)
             d == Doubled(columns[i].name)
             q == <<"q">>
             sp == <<"sp">>
             y == columns[i].type
  <2>1. l \in Seq(S) /\ q \in Seq(S) /\ sp \in Seq(S) /\ y \in Seq(S) /\ columns[i].name \in Seq(S)
    BY <1>1, <1>2 DEF Lead
  <2>2. d \in Seq(S)
    BY <1>3, <2>1
  <2>3. w = columns[i].name \/ w = (q \o d) \o q
    BY Zenon DEF Quoted
  <2> HIDE DEF l, w, d, q, sp, y
  <2>4. q \o d \in Seq(S)
    BY <1>2, <2>1, <2>2
  <2>5. (q \o d) \o q \in Seq(S)
    BY <1>2, <2>1, <2>4
  <2>6. w \in Seq(S)
    BY <2>1, <2>3, <2>5
  <2>7. l \o w \in Seq(S)
    BY <1>2, <2>1, <2>6
  <2>8. (l \o w) \o sp \in Seq(S)
    BY <1>2, <2>1, <2>7
  <2>9. ((l \o w) \o sp) \o y \in Seq(S)
    BY <1>2, <2>1, <2>8
  <2> QED BY <2>9 DEF Item, l, w, sp, y
<1>5. ss \in Seq(Seq(S))
  BY <1>1, <1>4 DEF Items
<1>6. StructureOf(columns) = FlattenSeq(ss)
  BY <1>1, Zenon DEF StructureOf, Items, Item, Lead
<1> HIDE DEF ss
<1>7. PICK f : Joins(f, ss, Len(ss), S) /\ FlattenSeq(ss) = f[Len(ss)]
  BY <1>5, FlattenPrefixes
<1>8. Len(ss) \in 0..Len(ss)
  BY <1>5
<1>9. StructureOf(columns) \in Seq(S)
  BY <1>6, <1>7, <1>8 DEF Joins
<1> QED BY <1>9, UnescapedPlain DEF S
=============================================================================
