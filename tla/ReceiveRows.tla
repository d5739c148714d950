---------------------------- MODULE ReceiveRows ----------------------------
(***************************************************************************)
(* What the backend does with the rows of a helper, in src/native.c.       *)
(* COPY FROM (chdb_copy_receive) takes rows from the block reader and      *)
(* stores them, either through the buffer of nativeInsert                  *)
(* (table_multi_insert) or one by one, with the defaults, triggers,        *)
(* constraints, partition routing and foreign-table cases of copyfrom.c;   *)
(* chdb_query (chdb_select_receive) puts them in a tuplestore, and         *)
(* DESCRIBE (chdb_native_describe) makes a list of columns of them.        *)
(*                                                                         *)
(* A row is its number in the stream.  The reader's decoding, a trigger's  *)
(* verdict, a constraint and the partition of a row are choices of the     *)
(* environment.                                                            *)
(***************************************************************************)
EXTENDS Naturals, Sequences

CONSTANTS
    Targets,    \* kinds of relation to copy into, "query" and "describe"
    MaxRows,    \* bound on the rows of the stream
    RowBytes,   \* heap_compute_data_size of a row
    MaxTuples,  \* CHDB_MAX_BUFFERED_TUPLES
    MaxBytes    \* CHDB_MAX_BUFFERED_BYTES

AllTargets == {"plain", "before", "instead", "foreign", "routed", "query", "describe"}

ASSUME TargetsAssumption == Targets \subseteq AllTargets
ASSUME SizeAssumption ==
    /\ MaxRows \in Nat /\ RowBytes \subseteq Nat
    /\ MaxTuples \in Nat \ {0} /\ MaxBytes \in Nat \ {0}

\* Where a row can go: the relation itself, or, for a partitioned one, a
\* partition without and one with a BEFORE ROW trigger, and a foreign one.
None == "none"

VARIABLES
    target, total,  \* the relation, and the rows chDB will stream
    pc,             \* call, open, loop, end, done, raised
    pos,            \* rows the reader has returned
    failed,         \* reader.error is set
    buf, bytes,     \* nativeInsert: the buffered rows and their size
    routed,         \* the partition of the last row, NULL at first
    before_row,     \* the trigger flag that goes with it
    table,          \* rows stored, as <<row, relation>>, in order
    todo,           \* rows stored that after_insert has not got to yet
    after,          \* rows with their index entries and queued AFTER ROW triggers
    passed,         \* rows a BEFORE ROW trigger has seen
    instead,        \* rows an INSTEAD OF trigger has taken
    rows,           \* the count chdb_copy_receive returns
    seen            \* rows the AFTER triggers see when they fire

vars == <<target, total, pc, pos, failed, buf, bytes, routed, before_row, table,
          todo, after, passed, instead, rows, seen>>
buffer == <<buf, bytes>>
stored == <<table, todo, after>>
routing == <<routed, before_row>>
fired == <<passed, instead, rows>>

HasBefore(r) == r = "triggered" \/ (r = "root" /\ target = "before")
InsteadRow == target = "instead"
ReadsOnly == target \in {"query", "describe"}
RelationsOf == IF target = "routed" THEN {"bare", "triggered", "remote"} ELSE {"root"}
\* ri_FdwRoutine
Foreign(r) == r = "remote" \/ (r = "root" /\ target = "foreign")

\* Variant: triggers do not count.
BufferedAlways == ~ReadsOnly /\ target \notin {"routed", "foreign"}
\* ins.buffered
Buffered == ~ReadsOnly /\ target \notin {"routed", "foreign", "before", "instead"}

----------------------------------------------------------------------------
(* Before the loop. *)

Quiet == UNCHANGED <<target, total, pos, failed, buffer, routing, stored, fired, seen>>

\* chdb_query: the caller takes no set, or names no columns.
CallRefused == pc = "call" /\ pc' = "raised" /\ Quiet
CallAccepted == pc = "call" /\ pc' = "open" /\ Quiet

\* Nothing streamed at all: no columns, no rows, no triggers.
NothingStreamed ==
    /\ pc = "open" /\ total = 0 /\ target # "describe"
    /\ pc' = "done"
    /\ Quiet

\* The reader failed, or chDB returned another number of columns.
OpenRaises == pc = "open" /\ pc' = "raised" /\ Quiet

BeginQuery == pc = "open" /\ target = "query" /\ pc' = "loop" /\ Quiet
BeginDescribe == pc = "open" /\ target = "describe" /\ pc' = "loop" /\ Quiet

BeginCopy ==
    /\ pc = "open" /\ ~ReadsOnly
    /\ pc' = "loop"
    /\ before_row' = HasBefore("root")
    /\ UNCHANGED <<target, total, pos, failed, buffer, routed, stored, fired, seen>>

----------------------------------------------------------------------------
(* One turn of the loop. *)

Row == pos + 1
NextRow == pc = "loop" /\ todo = <<>> /\ pos < total /\ ~failed /\ pos' = pos + 1

\* pgch_reader_fill_map and fill_defaults make a row of it.
CopyRow == NextRow /\ ~ReadsOnly

\* Variant: the flag stays that of the first partition.
RouteKeepsFlag(r) ==
    IF target = "routed"
    THEN routed' = r /\ before_row' = (IF routed = None THEN HasBefore(r) ELSE before_row)
    ELSE UNCHANGED routing
\* ExecFindPartition: the trigger flag follows the partition.
Route(r) ==
    IF target = "routed" /\ r # routed
    THEN routed' = r /\ before_row' = HasBefore(r)
    ELSE UNCHANGED routing

\* ExecBRInsertTriggers, when the flag asks for it.
BeforeTrigger == passed' = IF before_row' THEN passed \union {Row} ELSE passed

\* The trigger returns no row.
RowSuppressed ==
    /\ CopyRow
    /\ \E r \in RelationsOf : Route(r)
    /\ before_row'
    /\ BeforeTrigger
    /\ UNCHANGED <<target, total, pc, failed, buffer, stored, instead, rows, seen>>

RowInstead ==
    /\ CopyRow /\ InsteadRow
    /\ instead' = Append(instead, Row)
    /\ rows' = rows + 1
    /\ UNCHANGED <<target, total, pc, failed, buffer, routing, stored, passed, seen>>

\* Variant: nused is not reset.
FlushKeepsBuffer(q) ==
    /\ table' = table \o q
    /\ todo' = q
    /\ buf' = q /\ bytes' = 0
    /\ UNCHANGED after
\* Variant: the loop over the slots ends at nused - 1.
FlushSkipsLast(q) ==
    /\ table' = table \o q
    /\ todo' = SubSeq(q, 1, Len(q) - 1)
    /\ buf' = <<>> /\ bytes' = 0
    /\ UNCHANGED after
\* flush_buffer up to its loop: table_multi_insert stores the rows q of the
\* buffer, and the loop has them all before it.  (nused is reset behind the loop,
\* where nothing has looked at it in between.)
Flush(q) ==
    /\ table' = table \o q
    /\ todo' = q
    /\ buf' = <<>> /\ bytes' = 0
    /\ UNCHANGED after

\* after_insert of the next row: its index entries and AFTER ROW triggers.  A
\* unique index may raise here (RowRaises), with the rows behind it stored already.
AfterInsert ==
    /\ pc \in {"loop", "end"} /\ todo # <<>>
    /\ after' = Append(after, Head(todo))
    /\ todo' = Tail(todo)
    /\ UNCHANGED <<target, total, pc, pos, failed, buffer, routing, table, fired, seen>>

\* Variant: one row late.
FullAbove(q, n) == Len(q) > MaxTuples \/ n >= MaxBytes
\* The buffer is written out once it has this many rows or bytes.
Full(q, n) == Len(q) >= MaxTuples \/ n >= MaxBytes

\* buffer_store: the row joins the buffer, which is written out once full.
RowBuffered ==
    /\ CopyRow /\ Buffered
    /\ UNCHANGED routing /\ BeforeTrigger
    /\ \E n \in RowBytes :
        LET q == Append(buf, <<Row, "root">>)
        IN  IF Full(q, bytes + n)
            THEN Flush(q)
            ELSE buf' = q /\ bytes' = bytes + n /\ UNCHANGED stored
    /\ rows' = rows + 1
    /\ UNCHANGED <<target, total, pc, failed, instead, seen>>

\* insert_row into the relation, a partition or a foreign table, up to its
\* after_insert or ExecARInsertTriggers.
RowInserted ==
    /\ CopyRow /\ ~Buffered /\ ~InsteadRow
    /\ \E r \in RelationsOf :
        /\ Route(r)
        /\ BeforeTrigger
        /\ table' = Append(table, <<Row, r>>)
        /\ todo' = <<<<Row, r>>>>
    /\ rows' = rows + 1
    /\ UNCHANGED <<target, total, pc, failed, buffer, after, instead, seen>>

\* ExecForeignInsert stores nothing: no row to count.
RowForeignNothing ==
    /\ CopyRow
    /\ \E r \in RelationsOf : Foreign(r) /\ Route(r)
    /\ UNCHANGED <<target, total, pc, failed, buffer, stored, fired, seen>>

\* One more row of the result.
RowRead ==
    /\ NextRow
    /\ table' = Append(table, <<Row, "root">>)
    /\ rows' = rows + 1
    /\ UNCHANGED <<target, total, pc, failed, buffer, routing, todo, after, passed,
                   instead, seen>>
\* tuplestore_putvalues
RowReturned == target = "query" /\ RowRead
ColumnDescribed == target = "describe" /\ RowRead

\* A conversion, a constraint, a missing partition, a trigger, an interrupt, a
\* unique index, a described column without a name or a type; at the end, a trigger.
RowRaises == pc \in {"loop", "end"} /\ pc' = "raised" /\ Quiet

----------------------------------------------------------------------------
(* After the loop. *)

\* source_next: a block that cannot be read ends the rows, and the error stays.
ReaderFails ==
    /\ pc = "loop" /\ todo = <<>> /\ pos < total /\ ~failed
    /\ failed' = TRUE
    /\ UNCHANGED <<target, total, pc, pos, buffer, routing, stored, fired, seen>>

\* "the loop ends on a reader error the same way it ends on no rows"
LoopOver == pc = "loop" /\ todo = <<>> /\ (failed \/ pos = total)

\* Variant: no check after the loop.
ErrorIgnored == FALSE
\* reader.error, looked at after the loop by all but chdb_select_receive.
ErrorReported == failed /\ target # "query"

EndRaises == LoopOver /\ ErrorReported /\ pc' = "raised" /\ Quiet

EndRead == LoopOver /\ ~ErrorReported /\ pc' = "done" /\ Quiet
EndQuery == target = "query" /\ EndRead
EndDescribe == target = "describe" /\ EndRead

EndCopy ==
    /\ LoopOver /\ ~ErrorReported /\ ~ReadsOnly
    /\ Flush(buf)
    /\ pc' = "end"
    /\ UNCHANGED <<target, total, pos, failed, routing, fired, seen>>

\* ExecASInsertTriggers, and AfterTriggerEndQuery, which fires what is queued.
AfterTriggers ==
    /\ pc = "end" /\ todo = <<>>
    /\ pc' = "done" /\ seen' = Len(table)
    /\ UNCHANGED <<target, total, pos, failed, buffer, routing, stored, fired>>

----------------------------------------------------------------------------

Init ==
    /\ target \in Targets /\ total \in 0..MaxRows
    /\ pc = (IF target = "query" THEN "call" ELSE "open")
    /\ pos = 0 /\ failed = FALSE
    /\ buf = <<>> /\ bytes = 0
    /\ routed = None /\ before_row = FALSE
    /\ table = <<>> /\ todo = <<>> /\ after = <<>> /\ passed = {} /\ instead = <<>>
    /\ rows = 0 /\ seen = 0

Terminated == pc \in {"done", "raised"} /\ UNCHANGED vars

Next ==
    \/ CallRefused \/ CallAccepted
    \/ NothingStreamed \/ OpenRaises \/ BeginQuery \/ BeginDescribe \/ BeginCopy
    \/ RowSuppressed \/ RowInstead \/ RowBuffered \/ RowInserted \/ AfterInsert
    \/ RowForeignNothing \/ RowReturned \/ ColumnDescribed \/ RowRaises
    \/ ReaderFails \/ EndRaises \/ EndQuery \/ EndDescribe \/ EndCopy \/ AfterTriggers
    \/ Terminated

Spec == Init /\ [][Next]_vars

----------------------------------------------------------------------------
(* Properties. *)

\* A copy or a DESCRIBE that returns has been through the whole stream, has
\* written out its buffer, counts the rows stored or taken by a trigger, and its
\* AFTER triggers have seen all of them.  chdb_query does not promise the first.
DoneIsWhole ==
    pc = "done" =>
        /\ target # "query" => pos = total
        /\ buf = <<>> /\ rows = Len(table) + Len(instead)
        /\ ReadsOnly \/ seen = Len(table)

\* Rows reach the table in stream order and none twice, whichever way they are
\* stored and wherever the buffer was written out.
Pending == table \o buf
RowsInOrder == \A i, j \in 1..Len(Pending) : i < j => Pending[i][1] < Pending[j][1]

\* A row is taken from the stream, and the copy returns, only when every row
\* stored before has its index entries and its AFTER ROW triggers, each once and
\* in order: not one is left behind by a flush, and none by a flush that raises.
AfterFollows == [][~ReadsOnly /\ (pos' # pos \/ pc' = "done") => after = table]_vars

\* ins->slots is indexed below CHDB_MAX_BUFFERED_TUPLES by the next buffer_slot,
\* and the buffer holds less than CHDB_MAX_BUFFERED_BYTES between rows.
BufferFits == Len(buf) < MaxTuples /\ bytes < MaxBytes

\* "rows they see cannot sit in a buffer": a BEFORE or INSTEAD OF trigger that
\* queries the table sees every row before its own.
TriggerSeesAll == \/ passed = {} /\ instead = <<>>
                  \/ buf = <<>>

\* A stored row went through the BEFORE ROW trigger of its own relation, and
\* through none when that relation has none.
TriggerOfOwnRelation ==
    \A i \in 1..Len(Pending) :
        LET e == Pending[i] IN e[1] \in passed <=> HasBefore(e[2])

\* The refinement mapping.  Rows have arrived in the table, at the trigger of a
\* view, in the result or in the list of columns; those in the buffer have not.
everyOf == target \in {"plain", "instead", "query", "describe"}
wholeOf == target # "query"
dealtOf == pos - Len(buf)
Numbers(q) == [i \in 1..Len(q) |-> q[i][1]]
arrivedOf == IF InsteadRow THEN instead ELSE Numbers(table)
phaseOf == CASE pc = "done" -> "returned" [] pc = "raised" -> "raised" [] OTHER -> "running"

Abstract == INSTANCE Transfer WITH
    every <- everyOf, whole <- wholeOf, dealt <- dealtOf, arrived <- arrivedOf,
    phase <- phaseOf

\* Buffered or not, COPY FROM, chdb_query and DESCRIBE are copies of rows: no row
\* is passed over unless a trigger or a foreign table takes it away, no flush
\* brings one twice or late, and after an error nothing more is stored.
Transfers == Abstract!Spec
=============================================================================
