------------------------------ MODULE SendRows ------------------------------
(***************************************************************************)
(* COPY TO in the backend: chdb_copy_send of src/native.c scans a relation,*)
(* collects rows in a writer, cuts a Native block when the writer is large *)
(* enough, and sends each block through nativeSink, a buffer in front of   *)
(* chdb_helper_write.                                                      *)
(*                                                                         *)
(* A row is its number in scan order.  The encoder's output for a block is *)
(* a run of pieces <<block, piece>> of arbitrary length, one sink_write    *)
(* each; chdb_helper_write delivers a run of pieces or raises.             *)
(***************************************************************************)
EXTENDS Naturals, Sequences

CONSTANTS
    MaxRows,     \* bound on the rows of the relation
    RowBytes,    \* what a row may add to pgch_writer_bytes
    BlockBytes,  \* CHDB_NATIVE_BLOCK_BYTES
    Pieces,      \* writes the encoder makes for one block
    PieceBytes,  \* the lengths of those writes
    SinkBytes,   \* CHDB_NATIVE_SINK_BYTES
    SinkDirect   \* CHDB_NATIVE_SINK_DIRECT

ASSUME SizesAssumption ==
    /\ MaxRows \in Nat /\ RowBytes \subseteq Nat
    /\ BlockBytes \in Nat \ {0} /\ Pieces \in Nat \ {0}
    /\ PieceBytes \subseteq Nat
ASSUME SinkAssumption ==
    SinkBytes \in Nat /\ SinkDirect \in Nat \ {0} /\ SinkDirect <= SinkBytes

VARIABLES
    total,           \* rows the scan will return
    pc,              \* scan, encode, last (the block after the scan), end, raised
    rows,            \* rows scanned, the count chdb_copy_send returns
    w_rows, w_bytes, \* the writer: rows collected, their encoded size
    packed,          \* rows of the blocks built so far, in block order
    cuts,            \* for each block built, its size in bytes
    piece,           \* pieces of the current block the encoder has written
    sink, sink_len,  \* nativeSink: buffered pieces, and their bytes
    wire             \* pieces handed to chdb_helper_write, in order

vars == <<total, pc, rows, w_rows, w_bytes, packed, cuts, piece, sink, sink_len, wire>>
writer == <<w_rows, w_bytes, packed, cuts>>
stream == <<sink, sink_len, wire>>

----------------------------------------------------------------------------
(* The scan loop. *)

\* Variant: one row late.
CutWhenFull(bytes) == bytes > BlockBytes
\* The writer has enough for a block.
Cut(bytes) == bytes >= BlockBytes

\* One row: append_slot, rows++, and a block once the writer has enough.
ScanRow ==
    /\ pc = "scan" /\ rows < total
    /\ rows' = rows + 1
    /\ w_rows' = Append(w_rows, rows + 1)
    /\ \E n \in RowBytes : w_bytes' = w_bytes + n
    /\ pc' = IF Cut(w_bytes') THEN "encode" ELSE "scan"
    /\ UNCHANGED <<total, packed, cuts, piece, stream>>

\* Variant: rows short of a cut are dropped.
LastBlockForgotten == pc = "scan" /\ rows = total /\ pc' = "end"
                         /\ UNCHANGED <<total, rows, writer, piece, stream>>
\* The scan ends: rows the last cut left behind make one more block.
ScanEnds ==
    /\ pc = "scan" /\ rows = total
    /\ pc' = IF w_rows # <<>> THEN "last" ELSE "end"
    /\ UNCHANGED <<total, rows, writer, piece, stream>>

----------------------------------------------------------------------------
(* send_block over nativeSink. *)

Encoding == pc \in {"encode", "last"}
Block == Len(cuts) + 1
Current == <<Block, piece + 1>>

\* sink_flush: one chdb_helper_write of everything in the buffer.
Flushed == wire \o sink

\* Variant: a large piece overtakes the buffer.
SinkDirectUnflushed(n) ==
    /\ n >= SinkDirect
    /\ wire' = Append(wire, Current)
    /\ UNCHANGED <<sink, sink_len>>
\* sink_write of a piece of n bytes, large enough to go out directly: after
\* what is buffered.
SinkWriteDirect(n) ==
    /\ n >= SinkDirect
    /\ wire' = Append(Flushed, Current)
    /\ sink' = <<>> /\ sink_len' = 0

\* Variant: no check that the piece fits.
SinkBufferUnchecked(n) ==
    /\ n < SinkDirect
    /\ wire' = wire
    /\ sink' = Append(sink, Current) /\ sink_len' = sink_len + n
\* sink_write of a small piece: flush when it would not fit, then buffer it.
SinkWriteBuffered(n) ==
    /\ n < SinkDirect
    /\ IF sink_len + n > SinkBytes
       THEN wire' = Flushed /\ sink' = <<Current>> /\ sink_len' = n
       ELSE wire' = wire /\ sink' = Append(sink, Current) /\ sink_len' = sink_len + n

EncodePiece ==
    /\ Encoding /\ piece < Pieces
    /\ \E n \in PieceBytes : SinkWriteDirect(n) \/ SinkWriteBuffered(n)
    /\ piece' = piece + 1
    /\ UNCHANGED <<total, pc, rows, writer>>

\* Variant: the writer is not reset.
WriterKept == UNCHANGED <<w_rows, w_bytes>>
\* pgch_writer_reset.
WriterReset == w_rows' = <<>> /\ w_bytes' = 0

\* chc_block_write is done: pgch_writer_reset, sink_flush, back to the caller.
BlockSent ==
    /\ Encoding /\ piece = Pieces
    /\ packed' = packed \o w_rows
    /\ cuts' = Append(cuts, w_bytes)
    /\ WriterReset
    /\ wire' = Flushed /\ sink' = <<>> /\ sink_len' = 0
    /\ piece' = 0
    /\ pc' = IF pc = "encode" THEN "scan" ELSE "end"
    /\ UNCHANGED <<total, rows>>

\* writer_for, a conversion, an interrupt, or a write the helper does not take.
Raises ==
    /\ pc \notin {"end", "raised"}
    /\ pc' = "raised"
    /\ UNCHANGED <<total, rows, writer, piece, stream>>

----------------------------------------------------------------------------

Init ==
    /\ total \in 0..MaxRows
    /\ pc = "scan" /\ rows = 0
    /\ w_rows = <<>> /\ w_bytes = 0 /\ packed = <<>> /\ cuts = <<>>
    /\ piece = 0 /\ sink = <<>> /\ sink_len = 0 /\ wire = <<>>

Terminated == pc \in {"end", "raised"} /\ UNCHANGED vars

Next == ScanRow \/ ScanEnds \/ EncodePiece \/ BlockSent \/ Raises \/ Terminated

Spec == Init /\ [][Next]_vars

----------------------------------------------------------------------------
(* Properties. *)

\* The pieces written so far, block by block.
Written == Pieces * Len(cuts) + piece
InOrder(n) == [i \in 1..n |-> <<((i - 1) \div Pieces) + 1, ((i - 1) % Pieces) + 1>>]

\* The type invariant.
TypeOK ==
    /\ total \in 0..MaxRows /\ rows \in 0..total
    /\ pc \in {"scan", "encode", "last", "end", "raised"}
    /\ w_rows \in Seq(Nat) /\ w_bytes \in Nat /\ packed \in Seq(Nat)
    /\ cuts \in Seq(Nat)
    /\ piece \in 0..Pieces
    /\ sink \in Seq(Nat \X Nat) /\ wire \in Seq(Nat \X Nat) /\ sink_len \in Nat

\* The helper receives the encoder's bytes in the order it wrote them: what is
\* on the wire followed by what the sink holds is the stream so far.
StreamInOrder == wire \o sink = InOrder(Written)

\* memcpy stays inside nativeSink.buf.
SinkFits == sink_len <= SinkBytes

\* Every scanned row is in exactly one place, built blocks before the writer.
RowsKept == packed \o w_rows = [i \in 1..rows |-> i]

\* A copy that returns has sent every row of the scan, once, in whole blocks.
AllSent ==
    pc = "end" =>
        /\ rows = total /\ Len(packed) = total
        /\ sink = <<>> /\ Len(wire) = Pieces * Len(cuts)

\* Blocks are cut by size: only the last may be short, and the writer never
\* runs past a cut.
BlocksCut ==
    /\ \A b \in 1..Len(cuts) : cuts[b] >= BlockBytes \/ (b = Len(cuts) /\ pc \in {"end", "raised"})
    /\ pc = "scan" => w_bytes < BlockBytes

\* The refinement mapping.  A block has arrived once the helper has been given its
\* last piece.
arrivedOf == IF Len(wire) >= Pieces * Len(cuts) THEN packed ELSE <<>>
phaseOf == CASE pc = "end" -> "returned" [] pc = "raised" -> "raised" [] OTHER -> "running"

Abstract == INSTANCE Transfer WITH
    every <- TRUE, whole <- TRUE, dealt <- Len(arrivedOf), arrived <- arrivedOf,
    phase <- phaseOf

\* COPY TO with its writer and its sink is a copy of rows that skips none: blocks
\* reach the helper whole, in the order of the scan, and after an error none does.
Transfers == Abstract!Spec
=============================================================================
