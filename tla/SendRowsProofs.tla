--------------------------- MODULE SendRowsProofs ---------------------------
(***************************************************************************)
(* Proofs of the safety properties of SendRows, for every relation, row    *)
(* size, block size and encoder, and every size of nativeSink.             *)
(***************************************************************************)
EXTENDS SendRows, SequenceTheorems, TLAPS

USE SizesAssumption, SinkAssumption

Marks == Nat \X Nat

\* The writer at each point: below a cut while scanning, at a cut or at the end
\* of the scan while encoding, empty at the end.
WriterInv ==
    /\ pc = "scan" => w_bytes < BlockBytes
    /\ pc = "encode" => w_bytes >= BlockBytes
    /\ pc \in {"last", "end"} => rows = total
    /\ pc = "end" => w_rows = <<>>

\* Only the block after the scan may be short.
CutsInv ==
    \A b \in 1..Len(cuts) : cuts[b] >= BlockBytes \/ (b = Len(cuts) /\ pc \in {"end", "raised"})

\* The pieces of the blocks built so far have left the sink.
SinkInv ==
    /\ SinkFits /\ Len(sink) <= piece
    /\ pc \in {"scan", "end"} => sink = <<>> /\ piece = 0

SInv == TypeOK /\ WriterInv /\ CutsInv /\ SinkInv /\ RowsKept /\ StreamInOrder

----------------------------------------------------------------------------
(* Facts about sequences and numbers. *)

\* The n-th piece overall is the piece k of block c + 1.
LEMMA PieceNumber ==
  ASSUME NEW c \in Nat, NEW k \in 0..Pieces - 1
  PROVE  (Pieces * c + k) \div Pieces = c /\ (Pieces * c + k) % Pieces = k
  OBVIOUS

LEMMA JoinedEnd ==
  ASSUME NEW S, NEW s \in Seq(S), NEW q \in Seq(S), NEW e \in S
  PROVE  s \o Append(q, e) = Append(s \o q, e)
  <1>1. s \o q \in Seq(S) /\ <<e>> \in Seq(S)
    BY ConcatProperties
  <1>2. Append(q, e) = q \o <<e>> /\ Append(s \o q, e) = (s \o q) \o <<e>>
    BY <1>1, AppendIsConcat
  <1>3. (s \o q) \o <<e>> = s \o (q \o <<e>>)
    BY <1>1, ConcatAssociative
  <1>. QED
    BY <1>2, <1>3

\* The stream as a sequence.
LEMMA InOrderSeq ==
  ASSUME NEW n \in Nat
  PROVE  /\ InOrder(n) \in Seq(Marks) /\ Len(InOrder(n)) = n
         /\ \A i \in 1..n :
              InOrder(n)[i] = <<((i - 1) \div Pieces) + 1, ((i - 1) % Pieces) + 1>>
  <1> DEFINE Mark(i) == <<((i - 1) \div Pieces) + 1, ((i - 1) % Pieces) + 1>>
  <1>1. \A i \in 1..n : Mark(i) \in Marks
    <2> SUFFICES ASSUME NEW i \in 1..n PROVE Mark(i) \in Marks
      OBVIOUS
    <2>1. i - 1 \in Nat
      OBVIOUS
    <2>2. (i - 1) \div Pieces \in Nat /\ (i - 1) % Pieces \in Nat
      BY <2>1
    <2>. QED
      BY <2>2 DEF Marks
  <1>2. InOrder(n) = [i \in 1..n |-> Mark(i)]
    BY DEF InOrder
  <1> HIDE DEF Mark
  <1>3. InOrder(n) \in [1..n -> Marks] /\ DOMAIN InOrder(n) = 1..n
    BY <1>1, <1>2
  <1>4. InOrder(n) \in Seq(Marks) /\ Len(InOrder(n)) = n
    BY <1>3
  <1>5. \A i \in 1..n : InOrder(n)[i] = Mark(i)
    BY <1>2
  <1>. QED
    BY <1>4, <1>5 DEF Mark

\* The stream grows by the piece the encoder has just made.
LEMMA NextPiece ==
  ASSUME NEW c \in Nat, NEW k \in 0..Pieces - 1
  PROVE  Append(InOrder(Pieces * c + k), <<c + 1, k + 1>>) = InOrder(Pieces * c + k + 1)
  <1> DEFINE n == Pieces * c + k
             e == <<c + 1, k + 1>>
  <1>1. n \in Nat /\ n + 1 \in Nat
    OBVIOUS
  <1>2. e = <<(n \div Pieces) + 1, (n % Pieces) + 1>> /\ e \in Marks
    <2>1. n \div Pieces = c /\ n % Pieces = k
      BY PieceNumber
    <2> HIDE DEF n
    <2>. QED
      BY <2>1 DEF Marks
  <1> HIDE DEF n, e
  <1>3. /\ Append(InOrder(n), e) \in Seq(Marks) /\ Len(Append(InOrder(n), e)) = n + 1
        /\ \A i \in 1..n : Append(InOrder(n), e)[i] = InOrder(n)[i]
        /\ Append(InOrder(n), e)[n + 1] = e
    <2>1. InOrder(n) \in Seq(Marks) /\ Len(InOrder(n)) = n
      BY <1>1, InOrderSeq
    <2>2. e \in Marks
      BY <1>2
    <2>. QED
      BY <2>1, <2>2, AppendProperties
  <1>4. \A i \in 1..n + 1 : Append(InOrder(n), e)[i] = InOrder(n + 1)[i]
    <2> SUFFICES ASSUME NEW i \in 1..n + 1
                 PROVE  Append(InOrder(n), e)[i] = InOrder(n + 1)[i]
      OBVIOUS
    <2>1. CASE i \in 1..n
      BY <1>1, <1>3, <2>1, InOrderSeq
    <2>2. CASE i = n + 1
      <3>1. i - 1 = n /\ i \in 1..n + 1
        BY <1>1, <2>2
      <3>2. InOrder(n + 1)[i] = <<((i - 1) \div Pieces) + 1, ((i - 1) % Pieces) + 1>>
        BY <1>1, <3>1, InOrderSeq
      <3>. QED
        BY <1>2, <1>3, <2>2, <3>1, <3>2
    <2>3. i \in 1..n \/ i = n + 1
      BY <1>1
    <2>. QED
      BY <2>1, <2>2, <2>3
  <1>5. Append(InOrder(n), e) = InOrder(n + 1)
    BY <1>1, <1>3, <1>4, InOrderSeq, SeqEqual
  <1>. QED
    BY <1>5 DEF n, e

\* The scan order as a sequence, and the row after it.
LEMMA NextRow ==
  ASSUME NEW n \in Nat
  PROVE  /\ [i \in 1..n |-> i] \in Seq(Nat) /\ Len([i \in 1..n |-> i]) = n
         /\ Append([i \in 1..n |-> i], n + 1) = [i \in 1..n + 1 |-> i]
  <1> DEFINE s(m) == [i \in 1..m |-> i]
  <1>1. \A m \in Nat : s(m) \in [1..m -> Nat] /\ DOMAIN s(m) = 1..m
    OBVIOUS
  <1>2. \A m \in Nat : s(m) \in Seq(Nat) /\ Len(s(m)) = m
    BY <1>1
  <1>3. Append(s(n), n + 1) = s(n + 1)
    <2>1. Append(s(n), n + 1) \in Seq(Nat) /\ Len(Append(s(n), n + 1)) = n + 1
      BY <1>2, AppendProperties
    <2>2. \A i \in 1..n + 1 : Append(s(n), n + 1)[i] = s(n + 1)[i]
      BY <1>2, AppendProperties
    <2>3. s(n + 1) \in Seq(Nat) /\ Len(s(n + 1)) = n + 1
      BY <1>2
    <2> HIDE DEF s
    <2>. QED
      BY <2>1, <2>2, <2>3, SeqEqual
  <1>. QED
    BY <1>2, <1>3

----------------------------------------------------------------------------
(* Preservation, part by part. *)

\* sink_write, both ways, and what it does to the stream.
LEMMA SinkWrite ==
  ASSUME TypeOK, SinkInv, StreamInOrder, EncodePiece
  PROVE  /\ sink' \in Seq(Marks) /\ wire' \in Seq(Marks) /\ sink_len' \in Nat
         /\ sink_len' <= SinkBytes /\ Len(sink') <= Len(sink) + 1
         /\ wire' \o sink' = Append(wire \o sink, Current)
  <1> DEFINE e == Current
  <1>1. e \in Marks /\ wire \in Seq(Marks) /\ sink \in Seq(Marks) /\ sink_len \in Nat
    BY LenProperties DEF TypeOK, Current, Block, Marks
  <1>2. PICK n \in PieceBytes : SinkWriteDirect(n) \/ SinkWriteBuffered(n)
    BY DEF EncodePiece
  <1>3. n \in Nat
    OBVIOUS
  <1> HIDE DEF e
  <1>4. wire \o sink \in Seq(Marks) /\ <<>> \in Seq(Marks)
    BY <1>1, ConcatProperties, EmptySeq
  <1>5. <<e>> \in Seq(Marks) /\ Append(wire \o sink, e) = (wire \o sink) \o <<e>>
    BY <1>1, <1>4, AppendIsConcat
  <1>6. CASE SinkWriteDirect(n)
    <2>1. wire' = Append(wire \o sink, e) /\ sink' = <<>> /\ sink_len' = 0
      BY <1>6 DEF SinkWriteDirect, Flushed, e
    <2>2. wire' \in Seq(Marks)
      BY <1>1, <1>4, <2>1, AppendProperties
    <2>. QED
      BY <1>4, <2>1, <2>2, ConcatEmptySeq DEF e
  <1>7. CASE SinkWriteBuffered(n) /\ sink_len + n > SinkBytes
    <2>1. wire' = wire \o sink /\ sink' = <<e>> /\ sink_len' = n /\ n < SinkDirect
      BY <1>7 DEF SinkWriteBuffered, Flushed, e
    <2>. QED
      BY <1>3, <1>4, <1>5, <2>1 DEF e
  <1>8. CASE SinkWriteBuffered(n) /\ ~(sink_len + n > SinkBytes)
    <2>1. wire' = wire /\ sink' = Append(sink, e) /\ sink_len' = sink_len + n
      BY <1>8 DEF SinkWriteBuffered, e
    <2>2. sink' \in Seq(Marks) /\ wire' \o sink' = Append(wire \o sink, e)
      BY <1>1, <2>1, AppendProperties, JoinedEnd
    <2>. QED
      BY <1>1, <1>3, <1>8, <2>1, <2>2 DEF e
  <1>. QED
    BY <1>2, <1>6, <1>7, <1>8

\* sink_flush.
LEMMA SinkFlush ==
  ASSUME TypeOK, BlockSent
  PROVE  /\ sink' = <<>> /\ sink_len' = 0 /\ wire' = wire \o sink
         /\ wire' \in Seq(Marks) /\ wire' \o sink' = wire \o sink
  <1>1. wire \o sink \in Seq(Marks)
    BY ConcatProperties DEF TypeOK, Marks
  <1>2. sink' = <<>> /\ sink_len' = 0 /\ wire' = wire \o sink
    BY DEF BlockSent, Flushed
  <1>. QED
    BY <1>1, <1>2, ConcatEmptySeq

\* No step changes the type of a variable.
LEMMA TypeStep == SInv /\ [Next]_vars => TypeOK'
  <1> SUFFICES ASSUME SInv, [Next]_vars PROVE TypeOK'
    OBVIOUS
  <1>0. TypeOK
    BY DEF SInv
  <1>1. CASE ScanRow
    <2>1. PICK n \in RowBytes : w_bytes' = w_bytes + n
      BY <1>1 DEF ScanRow
    <2>2. w_rows' \in Seq(Nat) /\ w_bytes' \in Nat /\ rows' \in 0..total
      BY <1>0, <1>1, <2>1, AppendProperties DEF ScanRow, TypeOK
    <2>. QED
      BY <1>0, <1>1, <2>2 DEF ScanRow, TypeOK, stream
  <1>2. CASE ScanEnds \/ Raises \/ UNCHANGED vars
    BY <1>0, <1>2 DEF ScanEnds, Raises, TypeOK, writer, stream, vars
  <1>3. CASE EncodePiece
    <2>1. sink' \in Seq(Nat \X Nat) /\ wire' \in Seq(Nat \X Nat) /\ sink_len' \in Nat
      BY <1>3, SinkWrite DEF SInv, Marks
    <2>. QED
      BY <1>0, <1>3, <2>1 DEF EncodePiece, TypeOK, writer
  <1>4. CASE BlockSent
    <2>1. sink' \in Seq(Nat \X Nat) /\ wire' \in Seq(Nat \X Nat) /\ sink_len' \in Nat
      BY <1>0, <1>4, SinkFlush, EmptySeq DEF Marks
    <2>2. packed' \in Seq(Nat) /\ cuts' \in Seq(Nat) /\ w_rows' \in Seq(Nat)
      BY <1>0, <1>4, ConcatProperties, AppendProperties, EmptySeq
         DEF BlockSent, WriterReset, TypeOK
    <2>. QED
      BY <1>0, <1>4, <2>1, <2>2 DEF BlockSent, WriterReset, TypeOK
  <1>. QED
    BY <1>1, <1>2, <1>3, <1>4 DEF Next, Terminated

\* The writer is cut in time, and only the last block may be short.
LEMMA WriterStep == SInv /\ [Next]_vars => WriterInv' /\ CutsInv'
  <1> SUFFICES ASSUME SInv, [Next]_vars PROVE WriterInv' /\ CutsInv'
    OBVIOUS
  <1>0. TypeOK /\ WriterInv /\ CutsInv
    BY DEF SInv
  <1>1. CASE ScanRow
    <2>1. w_bytes' \in Nat
      BY <1>0, <1>1 DEF ScanRow, TypeOK
    <2>2. pc = "scan" /\ pc' = (IF w_bytes' >= BlockBytes THEN "encode" ELSE "scan")
      BY <1>1 DEF ScanRow, Cut
    <2>. QED
      BY <1>0, <1>1, <2>1, <2>2 DEF ScanRow, WriterInv, CutsInv
  <1>2. CASE ScanEnds \/ Raises \/ UNCHANGED vars
    BY <1>0, <1>2 DEF ScanEnds, Raises, WriterInv, CutsInv, TypeOK, writer, vars
  <1>3. CASE EncodePiece
    BY <1>0, <1>3 DEF EncodePiece, Encoding, WriterInv, CutsInv, writer
  <1>4. CASE BlockSent
    <2>1. /\ pc \in {"encode", "last"} /\ w_rows' = <<>> /\ w_bytes' = 0
          /\ pc' = (IF pc = "encode" THEN "scan" ELSE "end")
          /\ rows' = rows /\ total' = total
      BY <1>4 DEF BlockSent, Encoding, WriterReset
    <2>2. WriterInv'
      BY <1>0, <2>1 DEF WriterInv
    <2>3. /\ Len(cuts') = Len(cuts) + 1 /\ Len(cuts) \in Nat
          /\ \A b \in 1..Len(cuts) : cuts'[b] = cuts[b]
          /\ cuts'[Len(cuts) + 1] = w_bytes
      BY <1>0, <1>4, AppendProperties, LenProperties DEF BlockSent, TypeOK
    <2>4. \A b \in 1..Len(cuts) : cuts[b] >= BlockBytes
      BY <1>0, <2>1 DEF CutsInv
    <2>5. pc = "encode" => w_bytes >= BlockBytes
      BY <1>0 DEF WriterInv
    <2>6. CutsInv'
      <3> SUFFICES ASSUME NEW b \in 1..Len(cuts')
                   PROVE  \/ cuts'[b] >= BlockBytes
                          \/ b = Len(cuts') /\ pc' \in {"end", "raised"}
        BY DEF CutsInv
      <3>1. b \in 1..Len(cuts) \/ b = Len(cuts) + 1
        BY <2>3
      <3>. QED
        BY <2>1, <2>3, <2>4, <2>5, <3>1
    <2>. QED
      BY <2>2, <2>6
  <1>. QED
    BY <1>1, <1>2, <1>3, <1>4 DEF Next, Terminated

\* Every scanned row is in the writer or in a block.
LEMMA RowsStep == SInv /\ [Next]_vars => RowsKept'
  <1> SUFFICES ASSUME SInv, [Next]_vars PROVE RowsKept'
    OBVIOUS
  <1>0. TypeOK /\ RowsKept
    BY DEF SInv
  <1>1. CASE ScanRow
    <2>1. packed \in Seq(Nat) /\ w_rows \in Seq(Nat) /\ rows \in Nat
      BY <1>0 DEF TypeOK
    <2>2. packed' = packed /\ w_rows' = Append(w_rows, rows + 1) /\ rows' = rows + 1
      BY <1>1 DEF ScanRow
    <2>3. packed \o Append(w_rows, rows + 1) = Append(packed \o w_rows, rows + 1)
      BY <2>1, JoinedEnd
    <2>. QED
      BY <1>0, <2>1, <2>2, <2>3, NextRow DEF RowsKept
  <1>2. CASE ScanEnds \/ Raises \/ EncodePiece \/ UNCHANGED vars
    BY <1>0, <1>2 DEF ScanEnds, Raises, EncodePiece, RowsKept, writer, vars
  <1>3. CASE BlockSent
    <2>1. packed \o w_rows \in Seq(Nat)
      BY <1>0, ConcatProperties DEF TypeOK
    <2>2. packed' = packed \o w_rows /\ w_rows' = <<>> /\ rows' = rows
      BY <1>3 DEF BlockSent, WriterReset
    <2>. QED
      BY <1>0, <2>1, <2>2, ConcatEmptySeq DEF RowsKept
  <1>. QED
    BY <1>1, <1>2, <1>3 DEF Next, Terminated

\* The sink keeps the encoder's order and its own bound.
LEMMA StreamStep == SInv /\ [Next]_vars => SinkInv' /\ StreamInOrder'
  <1> SUFFICES ASSUME SInv, [Next]_vars PROVE SinkInv' /\ StreamInOrder'
    OBVIOUS
  <1>0. TypeOK /\ SinkInv /\ StreamInOrder
    BY DEF SInv
  <1>1. CASE ScanRow
    BY <1>0, <1>1 DEF ScanRow, SinkInv, SinkFits, StreamInOrder, Written, InOrder, stream
  <1>2. CASE ScanEnds \/ Raises \/ UNCHANGED vars
    BY <1>0, <1>2 DEF ScanEnds, Raises, SinkInv, SinkFits, StreamInOrder, Written, InOrder,
       writer, stream, vars
  <1>3. CASE EncodePiece
    <2>1. /\ cuts' = cuts /\ piece' = piece + 1 /\ pc' = pc /\ pc \in {"encode", "last"}
          /\ piece \in 0..Pieces - 1 /\ Len(cuts) \in Nat
      BY <1>0, <1>3, LenProperties DEF EncodePiece, Encoding, TypeOK, writer
    <2>2. /\ sink_len' <= SinkBytes /\ Len(sink') <= Len(sink) + 1
          /\ wire' \o sink' = Append(wire \o sink, Current)
      BY <1>0, <1>3, SinkWrite
    <2>5. Len(sink') <= piece'
      <3>1. Len(sink) \in Nat /\ Len(sink') \in Nat /\ piece \in Nat
        BY <1>0, <1>3, TypeStep, LenProperties DEF TypeOK
      <3>2. Len(sink) <= piece
        BY <1>0 DEF SinkInv
      <3>. QED
        BY <2>1, <2>2, <3>1, <3>2
    <2>3. Append(InOrder(Written), Current) = InOrder(Pieces * Len(cuts) + piece + 1)
      BY <2>1, NextPiece DEF Written, Current, Block
    <2>4. Written' = Pieces * Len(cuts) + piece + 1
      BY <2>1 DEF Written
    <2>. QED
      BY <1>0, <2>1, <2>2, <2>3, <2>4, <2>5 DEF SinkInv, SinkFits, StreamInOrder, InOrder
  <1>4. CASE BlockSent
    <2>1. sink' = <<>> /\ sink_len' = 0 /\ wire' \o sink' = wire \o sink
      BY <1>0, <1>4, SinkFlush
    <2>2. piece = Pieces /\ piece' = 0 /\ Len(cuts') = Len(cuts) + 1 /\ Len(cuts) \in Nat
      BY <1>0, <1>4, AppendProperties, LenProperties DEF BlockSent, TypeOK
    <2>3. Written' = Written
      BY <2>2 DEF Written
    <2>. QED
      BY <1>0, <2>1, <2>2, <2>3 DEF SinkInv, SinkFits, StreamInOrder, InOrder
  <1>. QED
    BY <1>1, <1>2, <1>3, <1>4 DEF Next, Terminated

----------------------------------------------------------------------------
(* The theorems. *)

\* The invariant holds in every reachable state.
THEOREM Invariance == Spec => []SInv
  <1>1. Init => SInv
    <2> SUFFICES ASSUME Init PROVE SInv
      OBVIOUS
    <2>1. TypeOK
      BY EmptySeq DEF Init, TypeOK
    <2>2. WriterInv /\ CutsInv /\ SinkInv
      BY EmptySeq DEF Init, WriterInv, CutsInv, SinkInv, SinkFits
    <2>3. RowsKept
      <3>1. packed \o w_rows = <<>> /\ rows = 0
        BY EmptySeq, ConcatEmptySeq DEF Init
      <3>2. [i \in 1..0 |-> i] = <<>>
        BY NextRow, EmptySeq
      <3>. QED
        BY <3>1, <3>2 DEF RowsKept
    <2>4. StreamInOrder
      <3>1. wire \o sink = <<>> /\ Written = 0
        BY EmptySeq, ConcatEmptySeq DEF Init, Written
      <3>2. InOrder(0) = <<>>
        BY InOrderSeq, EmptySeq
      <3>. QED
        BY <3>1, <3>2 DEF StreamInOrder
    <2>. QED
      BY <2>1, <2>2, <2>3, <2>4 DEF SInv
  <1>2. SInv /\ [Next]_vars => SInv'
    BY TypeStep, WriterStep, RowsStep, StreamStep DEF SInv
  <1>. QED
    BY <1>1, <1>2, PTL DEF Spec

\* Every variable keeps its type.
THEOREM TypeCorrect == Spec => []TypeOK
  <1>1. SInv => TypeOK
    BY DEF SInv
  <1>. QED
    BY <1>1, Invariance, PTL

\* chdb_helper_write is given the encoder's pieces in the encoder's order,
\* whether sink_write buffers them or not.
THEOREM StreamKept == Spec => []StreamInOrder
  <1>1. SInv => StreamInOrder
    BY DEF SInv
  <1>. QED
    BY <1>1, Invariance, PTL

\* sink_write never copies past the end of nativeSink.buf.
THEOREM SinkBound == Spec => []SinkFits
  <1>1. SInv => SinkFits
    BY DEF SInv, SinkInv
  <1>. QED
    BY <1>1, Invariance, PTL

\* chdb_copy_send loses no row between the scan and the blocks.
THEOREM NoRowLost == Spec => []RowsKept
  <1>1. SInv => RowsKept
    BY DEF SInv
  <1>. QED
    BY <1>1, Invariance, PTL

\* A copy that returns has handed over every row and every piece.
THEOREM SentWhole == Spec => []AllSent
  <1>1. SInv => AllSent
    <2> SUFFICES ASSUME SInv, pc = "end"
                 PROVE  /\ rows = total /\ Len(packed) = total
                        /\ sink = <<>> /\ Len(wire) = Pieces * Len(cuts)
      BY DEF AllSent
    <2>1. rows = total /\ w_rows = <<>> /\ sink = <<>> /\ piece = 0
      BY DEF SInv, WriterInv, SinkInv
    <2>2. /\ packed \in Seq(Nat) /\ wire \in Seq(Marks) /\ rows \in Nat
          /\ Pieces * Len(cuts) \in Nat /\ Written = Pieces * Len(cuts)
      BY <2>1, LenProperties DEF SInv, TypeOK, Marks, Written
    <2>3. packed = [i \in 1..rows |-> i] /\ wire = InOrder(Pieces * Len(cuts))
      BY <2>1, <2>2, ConcatEmptySeq DEF SInv, RowsKept, StreamInOrder
    <2>. QED
      BY <2>1, <2>2, <2>3, NextRow, InOrderSeq
  <1>. QED
    BY <1>1, Invariance, PTL

\* Blocks are cut by size, and only the one after the scan may be short.
THEOREM CutBySize == Spec => []BlocksCut
  <1>1. SInv => BlocksCut
    BY DEF SInv, WriterInv, CutsInv, BlocksCut
  <1>. QED
    BY <1>1, Invariance, PTL


----------------------------------------------------------------------------
(* COPY TO implements Transfer. *)

\* The blocks built so far are on the wire to the last piece.
LEMMA BlocksOnWire == SInv => arrivedOf = packed
  <1> SUFFICES ASSUME SInv PROVE Len(wire) >= Pieces * Len(cuts)
    BY DEF arrivedOf
  <1> DEFINE n == Pieces * Len(cuts)
  <1>1. wire \in Seq(Marks) /\ sink \in Seq(Marks) /\ piece \in Nat /\ Len(sink) <= piece
    BY DEF SInv, TypeOK, SinkInv, Marks
  <1>5. n \in Nat
    <2>1. Len(cuts) \in Nat /\ Pieces \in Nat
      BY SizesAssumption, LenProperties DEF SInv, TypeOK
    <2>2. \A a, b \in Nat : a * b \in Nat
      OBVIOUS
    <2>. QED
      BY <2>1, <2>2, Zenon
  <1>. HIDE DEF n
  <1>2. Len(wire \o sink) = Len(wire) + Len(sink) /\ Len(wire) \in Nat /\ Len(sink) \in Nat
    BY <1>1, ConcatProperties, LenProperties
  <1>3. wire \o sink = InOrder(n + piece)
    BY DEF SInv, StreamInOrder, Written, n
  <1>4. Len(wire \o sink) = n + piece
    BY <1>1, <1>3, <1>5, InOrderSeq
  <1>. QED
    BY <1>1, <1>2, <1>4, <1>5 DEF n

\* The rows in the writer are the ones behind those of the blocks.
LEMMA WriterRows ==
  ASSUME SInv
  PROVE  /\ packed \in Seq(Nat) /\ w_rows \in Seq(Nat)
         /\ rows \in Nat /\ rows <= total /\ total \in Nat
         /\ Len(packed) \in Nat /\ Len(w_rows) \in Nat
         /\ rows = Len(packed) + Len(w_rows)
         /\ \A i \in 1..Len(w_rows) : w_rows[i] = Len(packed) + i
  <1>1. packed \in Seq(Nat) /\ w_rows \in Seq(Nat) /\ rows \in Nat /\ rows <= total /\ total \in Nat
    BY DEF SInv, TypeOK
  <1>2. packed \o w_rows = [i \in 1..rows |-> i]
    BY DEF SInv, RowsKept
  <1>3. Len(packed) \in Nat /\ Len(w_rows) \in Nat /\ Len(packed \o w_rows) = Len(packed) + Len(w_rows)
    BY <1>1, ConcatProperties, LenProperties
  <1>4. rows = Len(packed) + Len(w_rows)
    BY <1>1, <1>2, <1>3, NextRow
  <1>5. ASSUME NEW i \in 1..Len(w_rows) PROVE w_rows[i] = Len(packed) + i
    <2>1. Len(packed) + i \in 1..rows /\ Len(packed) + i > Len(packed)
      BY <1>3, <1>4
    <2>2. (packed \o w_rows)[Len(packed) + i] = w_rows[i]
      BY <1>1, <1>3, <2>1, ConcatProperties
    <2>3. [j \in 1..rows |-> j][Len(packed) + i] = Len(packed) + i
      BY <2>1
    <2>. QED
      BY <1>2, <2>2, <2>3
  <1>. QED
    BY <1>1, <1>3, <1>4, <1>5

\* All rows behind row m up to row n are a selection of them.
LEMMA AllSelected ==
  ASSUME NEW m \in Nat, NEW n \in Nat, m <= n, NEW s \in Seq(Nat), Len(s) = n - m,
         \A i \in 1..Len(s) : s[i] = m + i
  PROVE  s \in Abstract!Selections(m, n)
  <1>1. n - m \in 0..n - m /\ DOMAIN s = 1..n - m
    BY LenProperties
  <1>2. \A i \in 1..n - m : s[i] = m + i /\ m + i \in m + 1..n
    OBVIOUS
  <1>3. s \in [1..n - m -> m + 1..n]
    <2>1. s = [i \in 1..n - m |-> s[i]]
      BY <1>1
    <2>. QED
      BY <1>2, <2>1
  <1>4. \A i, j \in DOMAIN s : i < j => s[i] < s[j]
    BY <1>1, <1>2
  <1>. QED
    BY <1>1, <1>3, <1>4 DEF Abstract!Selections

\* A step of chdb_copy_send sends the rows of one block, or none.
LEMMA StepTransfers ==
  ASSUME SInv, arrivedOf = packed, (arrivedOf = packed)', [Next]_vars
  PROVE  Abstract!Next \/ UNCHANGED Abstract!vars
  <1>0. /\ packed \in Seq(Nat) /\ rows \in Nat /\ rows <= total /\ total \in Nat
        /\ Len(packed) \in Nat /\ Len(w_rows) \in Nat /\ rows = Len(packed) + Len(w_rows)
        /\ arrivedOf = packed /\ arrivedOf' = packed'
    BY WriterRows
  <1>1. CASE ScanRow \/ EncodePiece \/ UNCHANGED vars
    <2>1. packed' = packed /\ total' = total /\ phaseOf' = phaseOf
      <3>1. CASE ScanRow
        BY <3>1 DEF ScanRow, phaseOf
      <3>2. CASE EncodePiece
        BY <3>2 DEF EncodePiece, writer, phaseOf
      <3>3. CASE UNCHANGED vars
        BY <3>3 DEF vars, phaseOf
      <3>. QED
        BY <1>1, <3>1, <3>2, <3>3
    <2>. QED
      BY <1>0, <2>1 DEF Abstract!vars
  <1>2. CASE Raises
    <2>1. packed' = packed /\ total' = total /\ phaseOf = "running" /\ phaseOf' = "raised"
      BY <1>2 DEF Raises, writer, phaseOf
    <2>. QED
      BY <1>0, <2>1 DEF Abstract!Next, Abstract!Raise
  <1>3. CASE ScanEnds
    <2>1. packed' = packed /\ total' = total /\ rows = total /\ pc = "scan"
          /\ pc' = IF w_rows # <<>> THEN "last" ELSE "end"
      BY <1>3 DEF ScanEnds, writer
    <2>2. CASE w_rows # <<>>
      BY <1>0, <2>1, <2>2 DEF Abstract!vars, phaseOf
    <2>3. CASE w_rows = <<>>
      <3>1. phaseOf = "running" /\ phaseOf' = "returned" /\ Len(packed) = total
        BY <1>0, <2>1, <2>3, EmptySeq DEF phaseOf
      <3>2. <<>> \in Abstract!Selections(total, total) /\ Len(<<>>) = total - total
        <4>1. /\ <<>> \in Seq(Nat) /\ Len(<<>>) = total - total /\ total <= total
              /\ \A i \in 1..Len(<<>>) : <<>>[i] = total + i
          BY <1>0, EmptySeq
        <4>. QED
          BY <1>0, <4>1, AllSelected, Zenon
      <3>3. packed \o <<>> = packed
        BY <1>0, ConcatEmptySeq
      <3>. QED
        BY <1>0, <2>1, <3>1, <3>2, <3>3 DEF Abstract!Next, Abstract!Return, Abstract!Deal
    <2>. QED
      BY <2>2, <2>3
  <1>4. CASE BlockSent
    <2>1. /\ packed' = packed \o w_rows /\ total' = total /\ pc \in {"encode", "last"}
          /\ pc' = IF pc = "encode" THEN "scan" ELSE "end"
      BY <1>4 DEF BlockSent, Encoding
    <2>2. w_rows \in Seq(Nat) /\ Len(packed') = rows
      BY <1>0, <2>1, WriterRows, ConcatProperties
    <2>3. w_rows \in Abstract!Selections(Len(packed), rows) /\ Len(w_rows) = rows - Len(packed)
      <3>1. Len(w_rows) = rows - Len(packed) /\ Len(packed) <= rows
        BY <1>0
      <3>2. \A i \in 1..Len(w_rows) : w_rows[i] = Len(packed) + i
        BY WriterRows
      <3>. QED
        BY <1>0, <2>2, <3>1, <3>2, AllSelected, Zenon
    <2>4. Abstract!Deal(rows)
      BY <1>0, <2>1, <2>2, <2>3 DEF Abstract!Deal
    <2>5. rows \in Len(packed)..total
      BY <1>0
    <2>6. CASE pc = "encode"
      <3>1. phaseOf = "running" /\ phaseOf' = "running"
        BY <2>1, <2>6 DEF phaseOf
      <3>2. CASE Len(w_rows) # 0
        BY <1>0, <2>4, <3>1, <3>2 DEF Abstract!Next, Abstract!Move
      <3>3. CASE Len(w_rows) = 0
        <4>1. packed' = packed
          BY <1>0, <2>1, <2>2, <3>3, EmptySeq, ConcatEmptySeq
        <4>. QED
          BY <1>0, <2>1, <3>1, <4>1 DEF Abstract!vars
      <3>. QED
        BY <3>2, <3>3
    <2>7. CASE pc = "last"
      <3>1. phaseOf = "running" /\ phaseOf' = "returned" /\ rows = total
        BY <2>1, <2>7 DEF phaseOf, SInv, WriterInv
      <3>. QED
        BY <1>0, <2>4, <2>5, <3>1 DEF Abstract!Next, Abstract!Return
    <2>. QED
      BY <2>1, <2>6, <2>7
  <1>. QED
    BY <1>1, <1>2, <1>3, <1>4 DEF Next, Terminated

\* chdb_copy_send, with its writer, its blocks and its sink, is a copy of rows that
\* skips none and sends none after an error, for every relation and encoder.
THEOREM Implements == Spec => Transfers
  <1>1. Init => Abstract!Init
    <2> SUFFICES ASSUME Init PROVE Abstract!Init
      OBVIOUS
    <2>1. arrivedOf = <<>> /\ Len(arrivedOf) = 0 /\ phaseOf = "running" /\ total \in Nat
      BY EmptySeq DEF Init, arrivedOf, phaseOf
    <2>. QED
      BY <2>1 DEF Abstract!Init
  <1>2. SInv => arrivedOf = packed
    BY BlocksOnWire
  <1>3. SInv /\ arrivedOf = packed /\ (arrivedOf = packed)' /\ [Next]_vars
          => [Abstract!Next]_(Abstract!vars)
    BY StepTransfers
  <1>. QED
    BY <1>1, <1>2, <1>3, Invariance, PTL DEF Spec, Transfers, Abstract!Spec
=============================================================================
