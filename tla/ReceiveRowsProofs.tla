------------------------- MODULE ReceiveRowsProofs -------------------------
(***************************************************************************)
(* Proofs of the safety properties of ReceiveRows, for every number of     *)
(* rows, every row size and every limit of the buffer.                     *)
(***************************************************************************)
EXTENDS ReceiveRows, SequenceTheorems, TLAPS

USE TargetsAssumption, SizeAssumption

Relations == {"root", "bare", "triggered", "remote"}
Entries == Nat \X Relations

\* The type invariant.
TypeOK ==
    /\ target \in AllTargets /\ total \in Nat
    /\ pc \in {"call", "open", "loop", "end", "done", "raised"}
    /\ pos \in 0..total /\ failed \in BOOLEAN
    /\ buf \in Seq(Entries) /\ bytes \in Nat
    /\ routed \in Relations \union {None} /\ before_row \in BOOLEAN
    /\ table \in Seq(Entries) /\ todo \in Seq(Entries) /\ after \in Seq(Entries)
    /\ passed \subseteq 1..pos /\ instead \in Seq(Nat)
    /\ rows \in Nat /\ seen \in Nat

\* Rows wait only in the buffer of a plain table, and only inside the loop.
BufferInv ==
    /\ BufferFits
    /\ buf # <<>> => Buffered /\ pc \in {"loop", "raised"}

\* Where the rows are, and at which point.
PlaceInv ==
    /\ todo # <<>> => pc \in {"loop", "end", "raised"}
    /\ rows = Len(table) + Len(buf) + Len(instead)
    /\ pc \in {"call", "open"} => pos = 0 /\ table = <<>> /\ seen = 0
    /\ pc = "end" => ~ReadsOnly
    /\ pc \in {"end", "done"} /\ target # "query" => pos = total
    /\ pc = "done" /\ ~ReadsOnly => seen = Len(table)

\* The rows whose index entries and AFTER ROW triggers are to come are the last
\* ones stored.
AfterInv == ReadsOnly \/ table = after \o todo

\* Which triggers a target has, and that the flag is that of the last partition.
TriggerInv ==
    /\ target # "instead" => instead = <<>>
    /\ target \notin {"before", "routed"} => ~before_row /\ passed = {}
    /\ target = "before" /\ pc = "loop" => before_row
    /\ pc \in {"call", "open"} => routed = None
    /\ target = "routed" /\ pc = "loop" => (before_row <=> routed = "triggered")

\* The rows stored and buffered, in order, with the triggers each has met.
OrderInv ==
    /\ RowsInOrder /\ TriggerOfOwnRelation
    /\ \A i \in 1..Len(Pending) : Pending[i][1] <= pos

RInv == TypeOK /\ BufferInv /\ PlaceInv /\ AfterInv /\ TriggerInv /\ OrderInv

----------------------------------------------------------------------------
(* Facts about the operators. *)

\* What flush_buffer leaves of the rows, in the table.
LEMMA FlushedRows ==
  ASSUME NEW q \in Seq(Entries), table \in Seq(Entries), after \in Seq(Entries), Flush(q)
  PROVE  /\ table' \in Seq(Entries) /\ todo' \in Seq(Entries) /\ after' \in Seq(Entries)
         /\ Len(table') = Len(table) + Len(q)
         /\ buf' = <<>> /\ buf' \in Seq(Entries) /\ Len(buf') = 0 /\ bytes' = 0
  BY ConcatProperties, EmptySeq DEF Flush

\* A row that joins the buffer is an entry, and the buffer grows by one.
LEMMA Joined ==
  ASSUME NEW q \in Seq(Entries), NEW n \in Nat, NEW r \in Relations
  PROVE  /\ Append(q, <<n, r>>) \in Seq(Entries)
         /\ Len(Append(q, <<n, r>>)) = Len(q) + 1
         /\ Len(q) \in Nat
  <1>1. <<n, r>> \in Entries
    BY DEF Entries
  <1>. QED
    BY <1>1, AppendProperties, LenProperties

\* The flag and the set of rows that met a BEFORE ROW trigger keep their types.
LEMMA RouteType ==
  ASSUME TypeOK, NEW r \in RelationsOf, Route(r)
  PROVE  routed' \in Relations \union {None} /\ before_row' \in BOOLEAN
  <1>1. HasBefore(r) \in BOOLEAN /\ r \in Relations
    BY DEF HasBefore, RelationsOf, Relations
  <1>2. CASE target = "routed" /\ r # routed
    BY <1>1, <1>2 DEF Route
  <1>3. CASE ~(target = "routed" /\ r # routed)
    BY <1>3 DEF Route, routing, TypeOK
  <1>. QED
    BY <1>2, <1>3

LEMMA TriggerType ==
  ASSUME TypeOK, NextRow
  PROVE  /\ pos' \in 0..total /\ Row \in 1..pos' /\ Row \in Nat
         /\ passed \subseteq 1..pos'
         /\ BeforeTrigger => passed' \subseteq 1..pos'
  <1>1. pos' \in 0..total /\ Row \in 1..pos' /\ Row \in Nat /\ 1..pos \subseteq 1..pos'
    BY DEF TypeOK, NextRow, Row
  <1>. QED
    BY <1>1, Zenon DEF TypeOK, BeforeTrigger

----------------------------------------------------------------------------
(* Preservation, part by part. *)

\* No step changes the type of a variable, and the reader stays in the stream.
LEMMA TypeStep == TypeOK /\ [Next]_vars => TypeOK'
  <1> SUFFICES ASSUME TypeOK, [Next]_vars PROVE TypeOK'
    OBVIOUS
  <1> USE DEF TypeOK, AllTargets, Relations, Entries, None, buffer, stored, routing,
          fired
  <1>1. CASE CallRefused
    BY <1>1 DEF CallRefused, Quiet
  <1>2. CASE CallAccepted
    BY <1>2 DEF CallAccepted, Quiet
  <1>3. CASE NothingStreamed
    BY <1>3 DEF NothingStreamed, Quiet
  <1>4. CASE OpenRaises
    BY <1>4 DEF OpenRaises, Quiet
  <1>5. CASE BeginQuery
    BY <1>5 DEF BeginQuery, Quiet
  <1>6. CASE BeginDescribe
    BY <1>6 DEF BeginDescribe, Quiet
  <1>7. CASE BeginCopy
    <2>1. HasBefore("root") \in BOOLEAN
      BY DEF HasBefore
    <2>. QED
      BY <1>7, <2>1 DEF BeginCopy
  <1>8. CASE RowSuppressed
    <2> HIDE DEF TypeOK
    <2>1. PICK r \in RelationsOf : Route(r)
      BY <1>8 DEF RowSuppressed
    <2>2. NextRow /\ BeforeTrigger
      BY <1>8 DEF RowSuppressed, CopyRow
    <2>3. routed' \in Relations \union {None} /\ before_row' \in BOOLEAN
      BY <2>1, RouteType
    <2>4. pos' \in 0..total /\ passed' \subseteq 1..pos'
      BY <2>2, TriggerType
    <2>. QED
      BY <1>8, <2>2, <2>3, <2>4, LenProperties DEF RowSuppressed, TypeOK
  <1>9. CASE RowInstead
    BY <1>9 DEF RowInstead, CopyRow, NextRow, InsteadRow, Row
  <1>10. CASE RowBuffered
    <2> HIDE DEF TypeOK, Entries, Relations
    <2>1. NextRow /\ BeforeTrigger
      BY <1>10 DEF RowBuffered, CopyRow
    <2>2. pos' \in 0..total /\ passed' \subseteq 1..pos' /\ Row \in Nat
      BY <2>1, TriggerType
    <2> DEFINE q == Append(buf, <<Row, "root">>)
    <2>3. q \in Seq(Entries) /\ Len(buf) \in Nat
      BY <2>2, Joined DEF TypeOK, Relations
    <2>4. PICK n \in RowBytes :
            IF Full(q, bytes + n)
            THEN Flush(q) ELSE buf' = q /\ bytes' = bytes + n /\ UNCHANGED stored
      BY <1>10 DEF RowBuffered
    <2> HIDE DEF q
    <2>5. /\ buf' \in Seq(Entries) /\ bytes' \in Nat
          /\ table' \in Seq(Entries) /\ todo' \in Seq(Entries) /\ after' \in Seq(Entries)
      <3>1. CASE Full(q, bytes + n)
        BY <2>3, <2>4, <3>1, FlushedRows DEF TypeOK
      <3>2. CASE ~Full(q, bytes + n)
        BY <2>3, <2>4, <3>2 DEF TypeOK
      <3>. QED
        BY <3>1, <3>2
    <2>. QED
      BY <1>10, <2>1, <2>2, <2>3, <2>5 DEF RowBuffered, TypeOK
  <1>11. CASE RowInserted
    <2> HIDE DEF TypeOK, Entries, Relations
    <2>1. NextRow
      BY <1>11 DEF RowInserted, CopyRow
    <2>2. PICK r \in RelationsOf :
            /\ Route(r) /\ BeforeTrigger
            /\ table' = Append(table, <<Row, r>>) /\ todo' = <<<<Row, r>>>>
      BY <1>11 DEF RowInserted
    <2>3. pos' \in 0..total /\ passed' \subseteq 1..pos' /\ Row \in Nat
      BY <2>1, <2>2, TriggerType
    <2>4. r \in Relations
      BY DEF RelationsOf, Relations
    <2>5. table' \in Seq(Entries) /\ todo' \in Seq(Entries)
      <3>1. <<Row, r>> \in Entries
        BY <2>3, <2>4 DEF Entries
      <3>2. <<<<Row, r>>>> \in Seq(Entries)
        BY <3>1
      <3>. QED
        BY <2>2, <2>3, <2>4, <3>2, Joined DEF TypeOK
    <2>6. routed' \in Relations \union {None} /\ before_row' \in BOOLEAN
      BY <2>2, RouteType
    <2>. QED
      BY <1>11, <2>1, <2>3, <2>5, <2>6, LenProperties DEF RowInserted, TypeOK
  <1>12. CASE RowForeignNothing
    BY <1>12 DEF RowForeignNothing, CopyRow, NextRow,
       RelationsOf, Foreign, Route, HasBefore
  <1>13. CASE RowReturned
    BY <1>13 DEF RowReturned, RowRead, NextRow, Row
  <1>14. CASE ColumnDescribed
    BY <1>14 DEF ColumnDescribed, RowRead, NextRow, Row
  <1>15. CASE RowRaises
    BY <1>15 DEF RowRaises, Quiet
  <1>16. CASE ReaderFails
    BY <1>16 DEF ReaderFails
  <1>17. CASE EndRaises
    BY <1>17 DEF EndRaises, Quiet
  <1>18. CASE EndQuery
    BY <1>18 DEF EndQuery, EndRead, LoopOver, ErrorReported, Quiet
  <1>19. CASE EndDescribe
    BY <1>19 DEF EndDescribe, EndRead, LoopOver, ErrorReported, Quiet
  <1>20. CASE EndCopy
    BY <1>20 DEF EndCopy, LoopOver, ErrorReported, Flush
  <1>21. CASE AfterTriggers
    BY <1>21 DEF AfterTriggers
  <1>22. CASE AfterInsert
    BY <1>22 DEF AfterInsert
  <1>23. CASE UNCHANGED vars
    BY <1>23 DEF vars
  <1>. QED
    BY <1>1, <1>2, <1>3, <1>4, <1>5, <1>6, <1>7, <1>8, <1>9, <1>10, <1>11,
       <1>12, <1>13, <1>14, <1>15, <1>16, <1>17, <1>18, <1>19, <1>20,
       <1>21, <1>22, <1>23 DEF Next, Terminated

\* The buffer is written out before it is full, and only rows of a plain table
\* wait in it.
LEMMA BufferStep == TypeOK /\ BufferInv /\ [Next]_vars => BufferInv'
  <1> SUFFICES ASSUME TypeOK, BufferInv, [Next]_vars PROVE BufferInv'
    OBVIOUS
  <1> USE DEF TypeOK, BufferInv, BufferFits, Buffered, ReadsOnly,
          AllTargets, Entries, buffer, stored, routing, fired
  <1>1. CASE CallRefused
    BY <1>1 DEF CallRefused, Quiet
  <1>2. CASE CallAccepted
    BY <1>2 DEF CallAccepted, Quiet
  <1>3. CASE NothingStreamed
    BY <1>3 DEF NothingStreamed, Quiet
  <1>4. CASE OpenRaises
    BY <1>4 DEF OpenRaises, Quiet
  <1>5. CASE BeginQuery
    BY <1>5 DEF BeginQuery, Quiet
  <1>6. CASE BeginDescribe
    BY <1>6 DEF BeginDescribe, Quiet
  <1>7. CASE BeginCopy
    BY <1>7 DEF BeginCopy
  <1>8. CASE RowSuppressed
    BY <1>8 DEF RowSuppressed, CopyRow, NextRow, RelationsOf,
       Route, BeforeTrigger, Row, HasBefore
  <1>9. CASE RowInstead
    BY <1>9 DEF RowInstead, CopyRow, NextRow, InsteadRow, Row
  <1>10. CASE RowBuffered
    BY <1>10 DEF RowBuffered, CopyRow, NextRow, Buffered,
       BeforeTrigger, Row, Flush, Full
  <1>11. CASE RowInserted
    BY <1>11 DEF RowInserted, CopyRow, NextRow, Buffered,
       InsteadRow, RelationsOf, Route, BeforeTrigger, Row, HasBefore
  <1>12. CASE RowForeignNothing
    BY <1>12 DEF RowForeignNothing, CopyRow, NextRow,
       RelationsOf, Foreign, Route, HasBefore
  <1>13. CASE RowReturned
    BY <1>13 DEF RowReturned, RowRead, NextRow, Row
  <1>14. CASE ColumnDescribed
    BY <1>14 DEF ColumnDescribed, RowRead, NextRow, Row
  <1>15. CASE RowRaises
    BY <1>15 DEF RowRaises, Quiet
  <1>16. CASE ReaderFails
    BY <1>16 DEF ReaderFails
  <1>17. CASE EndRaises
    BY <1>17 DEF EndRaises, Quiet
  <1>18. CASE EndQuery
    BY <1>18 DEF EndQuery, EndRead, LoopOver, ErrorReported, Quiet
  <1>19. CASE EndDescribe
    BY <1>19 DEF EndDescribe, EndRead, LoopOver, ErrorReported, Quiet
  <1>20. CASE EndCopy
    BY <1>20 DEF EndCopy, LoopOver, ErrorReported, Flush
  <1>21. CASE AfterTriggers
    BY <1>21 DEF AfterTriggers
  <1>22. CASE AfterInsert
    BY <1>22 DEF AfterInsert
  <1>23. CASE UNCHANGED vars
    BY <1>23 DEF vars
  <1>. QED
    BY <1>1, <1>2, <1>3, <1>4, <1>5, <1>6, <1>7, <1>8, <1>9, <1>10, <1>11,
       <1>12, <1>13, <1>14, <1>15, <1>16, <1>17, <1>18, <1>19, <1>20,
       <1>21, <1>22, <1>23 DEF Next, Terminated

\* Rows move from the stream to the buffer to the table, and are counted.
LEMMA PlaceStep == TypeOK /\ BufferInv /\ PlaceInv /\ [Next]_vars => PlaceInv'
  <1> SUFFICES ASSUME TypeOK, BufferInv, PlaceInv, [Next]_vars PROVE PlaceInv'
    OBVIOUS
  <1> USE DEF TypeOK, BufferInv, PlaceInv, Buffered, ReadsOnly,
          AllTargets, Entries, buffer, stored, routing, fired
  <1>1. CASE CallRefused
    BY <1>1 DEF CallRefused, Quiet
  <1>2. CASE CallAccepted
    BY <1>2 DEF CallAccepted, Quiet
  <1>3. CASE NothingStreamed
    BY <1>3 DEF NothingStreamed, Quiet
  <1>4. CASE OpenRaises
    BY <1>4 DEF OpenRaises, Quiet
  <1>5. CASE BeginQuery
    BY <1>5 DEF BeginQuery, Quiet
  <1>6. CASE BeginDescribe
    BY <1>6 DEF BeginDescribe, Quiet
  <1>7. CASE BeginCopy
    BY <1>7 DEF BeginCopy
  <1>8. CASE RowSuppressed
    BY <1>8 DEF RowSuppressed, CopyRow, NextRow, RelationsOf,
       Route, BeforeTrigger, Row, HasBefore
  <1>9. CASE RowInstead
    BY <1>9 DEF RowInstead, CopyRow, NextRow, InsteadRow, Row
  <1>10. CASE RowBuffered
    <2> HIDE DEF TypeOK, BufferInv, PlaceInv, Buffered, ReadsOnly, Entries
    <2> DEFINE q == Append(buf, <<Row, "root">>)
    <2>1. /\ target' = target /\ pc' = pc /\ instead' = instead /\ rows' = rows + 1
          /\ pc = "loop" /\ ~ReadsOnly
      BY <1>10 DEF RowBuffered, CopyRow, NextRow
    <2>2. PICK n \in RowBytes :
            IF Full(q, bytes + n)
            THEN Flush(q) ELSE buf' = q /\ bytes' = bytes + n /\ UNCHANGED stored
      BY <1>10 DEF RowBuffered
    <2>3. q \in Seq(Entries) /\ Len(q) = Len(buf) + 1 /\ Len(buf) \in Nat
      <3>1. Row \in Nat /\ "root" \in Relations /\ buf \in Seq(Entries)
        BY DEF TypeOK, Row, Relations
      <3>. QED
        BY <3>1, Joined
    <2>4. after \in Seq(Entries) /\ table \in Seq(Entries) /\ Len(table) \in Nat /\ Len(instead) \in Nat
      BY <2>1, LenProperties DEF PlaceInv, TypeOK
    <2> HIDE DEF q
    <2>5. Len(table') + Len(buf') = Len(table) + Len(buf) + 1
      <3>1. CASE Full(q, bytes + n)
        <4>1. Flush(q) /\ after \in Seq(Entries)
          BY <2>2, <2>4, <3>1
        <4>2. Len(table') = Len(table) + Len(q) /\ Len(buf') = 0
          BY <2>3, <2>4, <4>1, FlushedRows
        <4>. QED
          BY <2>3, <2>4, <4>2
      <3>2. CASE ~Full(q, bytes + n)
        BY <2>2, <2>3, <2>4, <3>2 DEF stored
      <3>. QED
        BY <3>1, <3>2
    <2>6. Len(table') \in Nat /\ Len(buf') \in Nat
      BY <1>10, TypeStep, LenProperties DEF TypeOK
    <2>7. rows = Len(table) + Len(buf) + Len(instead)
      BY DEF PlaceInv
    <2>8. rows' = Len(table') + Len(buf') + Len(instead')
      <3>1. rows' = rows + 1 /\ Len(instead') = Len(instead)
        BY <2>1
      <3>2. Len(table) \in Nat /\ Len(buf) \in Nat /\ Len(instead) \in Nat
        BY <2>3, <2>4
      <3>3. Len(table') + Len(buf') = Len(table) + Len(buf) + 1
        BY <2>5
      <3>. QED
        BY <2>6, <2>7, <3>1, <3>2, <3>3
    <2>. QED
      BY <2>1, <2>5, <2>8 DEF PlaceInv, ReadsOnly
  <1>11. CASE RowInserted
    <2> HIDE DEF TypeOK, BufferInv, PlaceInv, Buffered, ReadsOnly, Entries
    <2>1. /\ target' = target /\ pc' = pc /\ instead' = instead /\ rows' = rows + 1
          /\ buf' = buf /\ pc = "loop" /\ ~ReadsOnly /\ Row \in Nat
      BY <1>11 DEF RowInserted, CopyRow, NextRow, buffer, TypeOK, Row
    <2>2. PICK r \in Relations : table' = Append(table, <<Row, r>>)
      BY <1>11 DEF RowInserted, RelationsOf, Relations
    <2>3. table \in Seq(Entries)
      BY DEF TypeOK
    <2>4. Len(table') = Len(table) + 1 /\ Len(table) \in Nat
      BY <2>1, <2>2, <2>3, Joined
    <2>5. Len(buf) \in Nat /\ Len(instead) \in Nat
      BY LenProperties DEF TypeOK
    <2>. QED
      BY <2>1, <2>4, <2>5 DEF PlaceInv, ReadsOnly
  <1>12. CASE RowForeignNothing
    BY <1>12 DEF RowForeignNothing, CopyRow, NextRow,
       RelationsOf, Foreign, Route, HasBefore
  <1>13. CASE RowReturned
    BY <1>13 DEF RowReturned, RowRead, NextRow, Row
  <1>14. CASE ColumnDescribed
    BY <1>14 DEF ColumnDescribed, RowRead, NextRow, Row
  <1>15. CASE RowRaises
    BY <1>15 DEF RowRaises, Quiet
  <1>16. CASE ReaderFails
    BY <1>16 DEF ReaderFails
  <1>17. CASE EndRaises
    BY <1>17 DEF EndRaises, Quiet
  <1>18. CASE EndQuery
    BY <1>18 DEF EndQuery, EndRead, LoopOver, ErrorReported, Quiet
  <1>19. CASE EndDescribe
    BY <1>19 DEF EndDescribe, EndRead, LoopOver, ErrorReported, Quiet
  <1>20. CASE EndCopy
    <2> HIDE DEF TypeOK, BufferInv, PlaceInv, Entries
    <2>1. /\ target' = target /\ pc' = "end" /\ instead' = instead /\ rows' = rows
          /\ ~ReadsOnly /\ pos' = pos /\ total' = total /\ pos = total
      BY <1>20 DEF EndCopy, LoopOver, ErrorReported, fired, ReadsOnly, TypeOK
    <2>2. after \in Seq(Entries) /\ table \in Seq(Entries) /\ buf \in Seq(Entries)
      BY DEF TypeOK
    <2>3. Len(table') = Len(table) + Len(buf) /\ buf' = <<>>
      BY <1>20, <2>2, FlushedRows DEF EndCopy
    <2>4. Len(table) \in Nat /\ Len(buf) \in Nat /\ Len(buf') = 0 /\ Len(instead) \in Nat
      BY <2>3, LenProperties, EmptySeq DEF TypeOK
    <2>. QED
      BY <2>1, <2>3, <2>4 DEF PlaceInv, ReadsOnly
  <1>21. CASE AfterTriggers
    BY <1>21 DEF AfterTriggers
  <1>22. CASE AfterInsert
    BY <1>22 DEF AfterInsert
  <1>23. CASE UNCHANGED vars
    BY <1>23 DEF vars
  <1>. QED
    BY <1>1, <1>2, <1>3, <1>4, <1>5, <1>6, <1>7, <1>8, <1>9, <1>10, <1>11,
       <1>12, <1>13, <1>14, <1>15, <1>16, <1>17, <1>18, <1>19, <1>20,
       <1>21, <1>22, <1>23 DEF Next, Terminated

\* The trigger flag follows the partition.
LEMMA TriggerStep == TypeOK /\ TriggerInv /\ [Next]_vars => TriggerInv'
  <1> SUFFICES ASSUME TypeOK, TriggerInv, [Next]_vars PROVE TriggerInv'
    OBVIOUS
  <1> USE DEF TypeOK, TriggerInv, ReadsOnly, AllTargets, Relations, None, HasBefore,
          buffer, stored, routing, fired
  <1>1. CASE CallRefused
    BY <1>1 DEF CallRefused, Quiet
  <1>2. CASE CallAccepted
    BY <1>2 DEF CallAccepted, Quiet
  <1>3. CASE NothingStreamed
    BY <1>3 DEF NothingStreamed, Quiet
  <1>4. CASE OpenRaises
    BY <1>4 DEF OpenRaises, Quiet
  <1>5. CASE BeginQuery
    BY <1>5 DEF BeginQuery, Quiet
  <1>6. CASE BeginDescribe
    BY <1>6 DEF BeginDescribe, Quiet
  <1>7. CASE BeginCopy
    BY <1>7 DEF BeginCopy
  <1>8. CASE RowSuppressed
    BY <1>8 DEF RowSuppressed, CopyRow, NextRow, RelationsOf,
       Route, BeforeTrigger, Row, HasBefore
  <1>9. CASE RowInstead
    BY <1>9 DEF RowInstead, CopyRow, NextRow, InsteadRow, Row
  <1>10. CASE RowBuffered
    BY <1>10 DEF RowBuffered, CopyRow, NextRow, Buffered,
       BeforeTrigger, Row, Flush, Full
  <1>11. CASE RowInserted
    <2>1. PICK r \in RelationsOf : Route(r) /\ BeforeTrigger
      BY <1>11 DEF RowInserted
    <2>2. target' = target /\ pc' = pc /\ pc = "loop" /\ instead' = instead
      BY <1>11 DEF RowInserted, CopyRow, NextRow
    <2>. QED
      BY <2>1, <2>2 DEF Route, RelationsOf, BeforeTrigger
  <1>12. CASE RowForeignNothing
    BY <1>12 DEF RowForeignNothing, CopyRow, NextRow,
       RelationsOf, Foreign, Route, HasBefore
  <1>13. CASE RowReturned
    BY <1>13 DEF RowReturned, RowRead, NextRow, Row
  <1>14. CASE ColumnDescribed
    BY <1>14 DEF ColumnDescribed, RowRead, NextRow, Row
  <1>15. CASE RowRaises
    BY <1>15 DEF RowRaises, Quiet
  <1>16. CASE ReaderFails
    BY <1>16 DEF ReaderFails
  <1>17. CASE EndRaises
    BY <1>17 DEF EndRaises, Quiet
  <1>18. CASE EndQuery
    BY <1>18 DEF EndQuery, EndRead, LoopOver, ErrorReported, Quiet
  <1>19. CASE EndDescribe
    BY <1>19 DEF EndDescribe, EndRead, LoopOver, ErrorReported, Quiet
  <1>20. CASE EndCopy
    BY <1>20 DEF EndCopy, LoopOver, ErrorReported, Flush
  <1>21. CASE AfterTriggers
    BY <1>21 DEF AfterTriggers
  <1>22. CASE AfterInsert
    BY <1>22 DEF AfterInsert
  <1>23. CASE UNCHANGED vars
    BY <1>23 DEF vars
  <1>. QED
    BY <1>1, <1>2, <1>3, <1>4, <1>5, <1>6, <1>7, <1>8, <1>9, <1>10, <1>11,
       <1>12, <1>13, <1>14, <1>15, <1>16, <1>17, <1>18, <1>19, <1>20,
       <1>21, <1>22, <1>23 DEF Next, Terminated

----------------------------------------------------------------------------
(* The order of the rows. *)

\* A step that stores nothing keeps the order, whichever row meets a trigger.
LEMMA SameRows ==
  ASSUME OrderInv, TypeOK, Pending' = Pending, target' = target,
         \/ pos' = pos /\ passed' = passed
         \/ pos' = pos + 1 /\ passed' \in {passed, passed \union {pos + 1}}
  PROVE  OrderInv'
  <1>1. Pending \in Seq(Entries) /\ pos \in Nat
    BY ConcatProperties DEF Pending, TypeOK
  <1>2. \A i \in 1..Len(Pending) : Pending[i] \in Nat \X Relations
    BY <1>1, LenProperties DEF Entries
  <1>3. \A i \in 1..Len(Pending) :
            Pending[i][1] \in Nat /\ Pending[i][1] <= pos /\ Pending[i][1] <= pos'
    BY <1>1, <1>2 DEF OrderInv
  <1>4. \A i \in 1..Len(Pending) : Pending[i][1] \in passed' <=> Pending[i][1] \in passed
    BY <1>1, <1>3
  <1>5. \A i \in 1..Len(Pending) :
            Pending[i][1] \in passed' <=> HasBefore(Pending[i][2])
    BY <1>4 DEF OrderInv, TriggerOfOwnRelation
  <1>. QED
    BY <1>3, <1>5 DEF OrderInv, RowsInOrder, TriggerOfOwnRelation, HasBefore

\* A row that joins the others comes after them, and its trigger is its own.
LEMMA OneMore ==
  ASSUME OrderInv, TypeOK, NEW r \in Relations,
         Pending' = Append(Pending, <<Row, r>>), target' = target, pos' = pos + 1,
         passed' \in {passed, passed \union {Row}}, Row \in passed' <=> HasBefore(r)
  PROVE  OrderInv'
  <1> DEFINE n == Len(Pending)
  <1>1. Pending \in Seq(Entries) /\ pos \in Nat /\ Row = pos + 1 /\ <<Row, r>> \in Entries
    <2>1. Pending \in Seq(Entries)
      BY ConcatProperties DEF Pending, TypeOK
    <2>2. pos \in Nat /\ Row = pos + 1 /\ Row \in Nat
      BY DEF TypeOK, Row
    <2>. QED
      BY <2>1, <2>2 DEF Entries
  <1>2. /\ n \in Nat /\ Len(Pending') = n + 1
        /\ \A i \in 1..n : Pending'[i] = Pending[i]
        /\ Pending'[n + 1] = <<Row, r>>
    BY <1>1, AppendProperties, LenProperties
  <1>3. \A i \in 1..n : Pending[i][1] \in Nat /\ Pending[i][1] <= pos
    <2>1. \A i \in 1..n : Pending[i] \in Nat \X Relations
      BY <1>1, LenProperties DEF Entries
    <2>. QED
      BY <2>1 DEF OrderInv
  <1>4. \A i \in 1..n : Pending[i][1] \in passed' <=> HasBefore(Pending[i][2])
    <2>1. \A i \in 1..n : Pending[i][1] \in passed' <=> Pending[i][1] \in passed
      BY <1>1, <1>3
    <2>. QED
      BY <2>1 DEF OrderInv, TriggerOfOwnRelation
  <1> HIDE DEF n
  <1>5. \A i, j \in 1..n + 1 : i < j => Pending'[i][1] < Pending'[j][1]
    <2> SUFFICES ASSUME NEW i \in 1..n + 1, NEW j \in 1..n + 1, i < j
                 PROVE  Pending'[i][1] < Pending'[j][1]
      OBVIOUS
    <2>1. i \in 1..n /\ (j \in 1..n \/ j = n + 1)
      BY <1>2
    <2>2. CASE j \in 1..n
      BY <1>2, <2>1, <2>2 DEF OrderInv, RowsInOrder, n
    <2>3. CASE j = n + 1
      BY <1>1, <1>2, <1>3, <2>1, <2>3
    <2>. QED
      BY <2>1, <2>2, <2>3
  <1>6. \A i \in 1..n + 1 :
            /\ Pending'[i][1] <= pos'
            /\ Pending'[i][1] \in passed' <=> HasBefore(Pending'[i][2])
    <2> SUFFICES ASSUME NEW i \in 1..n + 1
                 PROVE  /\ Pending'[i][1] <= pos'
                        /\ Pending'[i][1] \in passed' <=> HasBefore(Pending'[i][2])
      OBVIOUS
    <2>1. i \in 1..n \/ i = n + 1
      BY <1>2
    <2>2. CASE i \in 1..n
      BY <1>1, <1>2, <1>3, <1>4, <2>2
    <2>3. CASE i = n + 1
      BY <1>1, <1>2, <2>3
    <2>. QED
      BY <2>1, <2>2, <2>3
  <1>. QED
    BY <1>2, <1>5, <1>6 DEF OrderInv, RowsInOrder, TriggerOfOwnRelation, HasBefore

\* Writing out the buffer moves rows without changing their order.
LEMMA FlushOrder ==
  ASSUME table \in Seq(Entries), NEW q \in Seq(Entries), Flush(q)
  PROVE  Pending' = table \o q
  <1>1. table \o q \in Seq(Entries) /\ Pending' = (table \o q) \o <<>>
    BY ConcatProperties DEF Pending, Flush
  <1>. QED
    BY <1>1, ConcatEmptySeq

LEMMA JoinOrder ==
  ASSUME NEW s \in Seq(Entries), NEW q \in Seq(Entries), NEW e \in Entries
  PROVE  s \o Append(q, e) = Append(s \o q, e)
  <1>1. s \o q \in Seq(Entries) /\ <<e>> \in Seq(Entries)
    BY ConcatProperties
  <1>2. Append(q, e) = q \o <<e>> /\ Append(s \o q, e) = (s \o q) \o <<e>>
    BY <1>1, AppendIsConcat
  <1>3. (s \o q) \o <<e>> = s \o (q \o <<e>>)
    BY <1>1, ConcatAssociative
  <1>. QED
    BY <1>2, <1>3

\* A row comes after the rows before it and meets the trigger of its relation.
LEMMA OrderStep ==
  TypeOK /\ BufferInv /\ TriggerInv /\ OrderInv /\ [Next]_vars => OrderInv'
  <1> SUFFICES ASSUME TypeOK, BufferInv, TriggerInv, OrderInv, [Next]_vars
               PROVE  OrderInv'
    OBVIOUS
  <1> USE DEF buffer, stored, routing, fired
  <1>1. CASE /\ UNCHANGED <<buf, table, target>>
             /\ \/ pos' = pos /\ passed' = passed
                \/ pos' = pos + 1 /\ passed' \in {passed, passed \union {pos + 1}}
    <2>1. Pending' = Pending
      BY <1>1 DEF Pending
    <2>. QED
      BY <1>1, <2>1, SameRows
  <1>2. CASE \/ CallRefused \/ CallAccepted \/ NothingStreamed \/ OpenRaises
             \/ BeginQuery \/ BeginDescribe \/ RowRaises \/ EndRaises \/ EndQuery
             \/ EndDescribe
    BY <1>1, <1>2 DEF CallRefused, CallAccepted, NothingStreamed, OpenRaises, BeginQuery,
       BeginDescribe, RowRaises, EndRaises, EndQuery, EndDescribe, EndRead, Quiet
  <1>3. CASE BeginCopy \/ ReaderFails \/ AfterTriggers \/ AfterInsert \/ UNCHANGED vars
    BY <1>1, <1>3 DEF BeginCopy, ReaderFails, AfterTriggers, AfterInsert, vars
  <1>4. CASE RowSuppressed \/ RowInstead \/ RowForeignNothing
    BY <1>1, <1>4 DEF RowSuppressed, RowInstead, RowForeignNothing, CopyRow, NextRow,
       BeforeTrigger, Row
  <1>5. Row \in Nat /\ Row \notin passed /\ table \in Seq(Entries) /\ buf \in Seq(Entries)
    BY DEF TypeOK, Row
  <1>6. CASE RowBuffered
    <2> DEFINE e == <<Row, "root">>
    <2>1. e \in Entries /\ "root" \in Relations
      BY <1>5 DEF Entries, Relations
    <2>2. /\ target = "plain" /\ target' = target /\ pos' = pos + 1
          /\ passed' = passed /\ ~HasBefore("root")
      <3>1. target = "plain"
        BY <1>6 DEF RowBuffered, Buffered, ReadsOnly, TypeOK, AllTargets
      <3>2. ~before_row'
        BY <1>6, <3>1 DEF RowBuffered, TriggerInv
      <3>. QED
        BY <1>6, <3>1, <3>2 DEF RowBuffered, CopyRow, NextRow, BeforeTrigger, HasBefore
    <2>3. PICK n \in RowBytes :
            IF Full(Append(buf, e), bytes + n)
            THEN Flush(Append(buf, e))
            ELSE buf' = Append(buf, e) /\ bytes' = bytes + n /\ UNCHANGED stored
      BY <1>6 DEF RowBuffered
    <2> HIDE DEF e
    <2>4. Append(buf, e) \in Seq(Entries) /\ table \o Append(buf, e) = Append(Pending, e)
      BY <1>5, <2>1, AppendProperties, JoinOrder DEF Pending
    <2>5. Pending' = Append(Pending, e)
      <3>1. CASE Flush(Append(buf, e))
        BY <1>5, <2>4, <3>1, FlushOrder
      <3>2. CASE buf' = Append(buf, e) /\ UNCHANGED stored
        BY <2>4, <3>2 DEF Pending
      <3>. QED
        BY <2>3, <3>1, <3>2
    <2>. QED
      BY <1>5, <2>1, <2>2, <2>5, OneMore DEF e
  <1>7. CASE RowInserted
    <2>1. PICK r \in RelationsOf :
            Route(r) /\ BeforeTrigger /\ table' = Append(table, <<Row, r>>)
      BY <1>7 DEF RowInserted
    <2>2. /\ buf = <<>> /\ buf' = buf /\ target' = target /\ pos' = pos + 1 /\ pc = "loop"
          /\ target \in {"before", "foreign", "routed"}
      BY <1>7 DEF RowInserted, CopyRow, NextRow, BufferInv, Buffered, ReadsOnly, InsteadRow,
         TypeOK, AllTargets
    <2>3. r \in Relations /\ <<Row, r>> \in Entries
      BY <1>5 DEF RelationsOf, Relations, Entries
    <2>4. before_row' <=> HasBefore(r)
      BY <2>1, <2>2 DEF Route, RelationsOf, HasBefore, TriggerInv
    <2>5. passed' \in {passed, passed \union {Row}} /\ (Row \in passed' <=> HasBefore(r))
      BY <1>5, <2>1, <2>4 DEF BeforeTrigger
    <2>6. Pending' = Append(Pending, <<Row, r>>)
      BY <1>5, <2>1, <2>2, <2>3, AppendProperties, ConcatEmptySeq DEF Pending
    <2>. QED
      BY <2>2, <2>3, <2>5, <2>6, OneMore
  <1>8. CASE RowReturned \/ ColumnDescribed
    <2>1. /\ target \in {"query", "describe"} /\ target' = target /\ pos' = pos + 1
          /\ buf' = buf /\ passed' = passed /\ table' = Append(table, <<Row, "root">>)
      BY <1>8 DEF RowReturned, ColumnDescribed, RowRead, NextRow
    <2>2. buf = <<>> /\ ~HasBefore("root")
      BY <2>1 DEF BufferInv, Buffered, ReadsOnly, HasBefore
    <2>3. "root" \in Relations /\ <<Row, "root">> \in Entries
      BY <1>5 DEF Relations, Entries
    <2>4. Pending' = Append(Pending, <<Row, "root">>)
      BY <1>5, <2>1, <2>2, <2>3, AppendProperties, ConcatEmptySeq DEF Pending
    <2>. QED
      BY <1>5, <2>1, <2>2, <2>3, <2>4, OneMore
  <1>9. CASE EndCopy
    <2>1. Pending' = Pending /\ UNCHANGED <<target, pos, passed>>
      BY <1>5, <1>9, FlushOrder DEF EndCopy, Pending
    <2>. QED
      BY <2>1, SameRows
  <1>. QED
    BY <1>2, <1>3, <1>4, <1>6, <1>7, <1>8, <1>9 DEF Next, Terminated

----------------------------------------------------------------------------
(* Index entries and AFTER ROW triggers. *)

\* after_insert takes the first of the rows that are left.
LEMMA OneAfter ==
  ASSUME NEW s \in Seq(Entries), NEW q \in Seq(Entries), q # <<>>
  PROVE  Append(s, Head(q)) \o Tail(q) = s \o q
  <1>1. Head(q) \in Entries /\ Tail(q) \in Seq(Entries) /\ q = <<Head(q)>> \o Tail(q)
    <2>1. /\ Head(q) \in Entries /\ Tail(q) \in Seq(Entries) /\ Head(q) = q[1]
          /\ Tail(q) = SubSeq(q, 2, Len(q)) /\ q = SubSeq(q, 1, Len(q))
      BY HeadTailProperties, TailIsSubSeq, SubSeqFull
    <2>2. 1 \in 1..Len(q) /\ Len(q) \in 1..Len(q) /\ 1 + 1 = 2
      BY EmptySeq, LenProperties
    <2>3. SubSeq(q, 1, Len(q)) = <<q[1]>> \o SubSeq(q, 2, Len(q))
      BY <2>2, SubSeqRecursiveFirst
    <2>. QED
      BY <2>1, <2>3, Zenon
  <1>2. Append(s, Head(q)) = s \o <<Head(q)>> /\ <<Head(q)>> \in Seq(Entries)
    BY <1>1, AppendIsConcat
  <1>3. (s \o <<Head(q)>>) \o Tail(q) = s \o (<<Head(q)>> \o Tail(q))
    BY <1>1, <1>2, ConcatAssociative
  <1>. QED
    BY <1>1, <1>2, <1>3, Zenon

\* A flush owes nothing of an earlier one, and leaves the rows it stores to
\* after_insert, which takes them one by one.
LEMMA AfterStep == TypeOK /\ AfterInv /\ [Next]_vars => AfterInv'
  <1> SUFFICES ASSUME TypeOK, AfterInv, [Next]_vars PROVE AfterInv'
    OBVIOUS
  <1> USE DEF buffer, stored, routing, fired
  <1>1. CASE UNCHANGED <<target, table, todo, after>>
    BY <1>1 DEF AfterInv, ReadsOnly
  <1>2. CASE \/ CallRefused \/ CallAccepted \/ NothingStreamed \/ OpenRaises
             \/ BeginQuery \/ BeginDescribe \/ RowRaises \/ EndRaises \/ EndQuery
             \/ EndDescribe
    BY <1>1, <1>2 DEF CallRefused, CallAccepted, NothingStreamed, OpenRaises, BeginQuery,
       BeginDescribe, RowRaises, EndRaises, EndQuery, EndDescribe, EndRead, Quiet
  <1>3. CASE BeginCopy \/ ReaderFails \/ AfterTriggers \/ UNCHANGED vars
    BY <1>1, <1>3 DEF BeginCopy, ReaderFails, AfterTriggers, vars
  <1>4. CASE RowSuppressed \/ RowInstead \/ RowForeignNothing
    BY <1>1, <1>4 DEF RowSuppressed, RowInstead, RowForeignNothing
  <1>5. CASE RowReturned \/ ColumnDescribed
    BY <1>5 DEF RowReturned, ColumnDescribed, RowRead, AfterInv, ReadsOnly
  <1>6. /\ table \in Seq(Entries) /\ todo \in Seq(Entries) /\ after \in Seq(Entries)
        /\ buf \in Seq(Entries)
    BY DEF TypeOK
  <1>7. ASSUME todo = <<>>, ~ReadsOnly PROVE table = after
    BY <1>6, <1>7, ConcatEmptySeq DEF AfterInv
  <1>8. ASSUME NEW q \in Seq(Entries), todo = <<>>, ~ReadsOnly, Flush(q) PROVE AfterInv'
    <2>1. table' = after \o q /\ todo' = q /\ after' = after
      BY <1>7, <1>8 DEF Flush
    <2>. QED
      BY <2>1 DEF AfterInv
  <1>9. CASE RowBuffered
    <2> DEFINE q == Append(buf, <<Row, "root">>)
    <2>1. todo = <<>> /\ ~ReadsOnly
      BY <1>9 DEF RowBuffered, CopyRow, NextRow
    <2>2. q \in Seq(Entries)
      <3>1. Row \in Nat /\ "root" \in Relations
        BY DEF TypeOK, Row, Relations
      <3>. QED
        BY <1>6, <3>1, Joined
    <2>3. Flush(q) \/ UNCHANGED <<target, table, todo, after>>
      BY <1>9 DEF RowBuffered
    <2> HIDE DEF q
    <2>. QED
      BY <1>1, <1>8, <2>1, <2>2, <2>3
  <1>10. CASE RowInserted
    <2>1. todo = <<>> /\ ~ReadsOnly /\ after' = after
      BY <1>10 DEF RowInserted, CopyRow, NextRow
    <2>2. PICK r \in Relations : table' = Append(table, <<Row, r>>) /\ todo' = <<<<Row, r>>>>
      BY <1>10 DEF RowInserted, RelationsOf, Relations
    <2>3. <<Row, r>> \in Entries
      BY DEF TypeOK, Row, Entries
    <2> DEFINE e == <<Row, r>>
    <2> HIDE DEF e
    <2>4. Append(after, e) = after \o <<e>>
      BY <1>6, <2>3, AppendIsConcat DEF e
    <2>5. table' = after \o <<e>> /\ todo' = <<e>>
      BY <1>7, <2>1, <2>2, <2>4 DEF e
    <2>. QED
      BY <2>1, <2>5 DEF AfterInv
  <1>11. CASE AfterInsert
    <2>1. /\ todo # <<>> /\ after' = Append(after, Head(todo)) /\ todo' = Tail(todo)
          /\ table' = table /\ target' = target
      BY <1>11 DEF AfterInsert
    <2>2. after' \o todo' = after \o todo
      BY <1>6, <2>1, OneAfter
    <2>. QED
      BY <2>1, <2>2 DEF AfterInv, ReadsOnly
  <1>12. CASE EndCopy
    BY <1>6, <1>8, <1>12 DEF EndCopy, LoopOver
  <1>. QED
    BY <1>2, <1>3, <1>4, <1>5, <1>9, <1>10, <1>11, <1>12 DEF Next, Terminated

----------------------------------------------------------------------------
(* The theorems. *)

\* The invariant holds in every reachable state.
THEOREM Invariance == Spec => []RInv
  <1>1. Init => RInv
    <2> SUFFICES ASSUME Init PROVE RInv
      OBVIOUS
    <2> USE DEF Init
    <2>1. TypeOK
      <3>1. /\ buf \in Seq(Entries) /\ table \in Seq(Entries)
            /\ todo \in Seq(Entries) /\ after \in Seq(Entries)
        BY EmptySeq
      <3>2. instead \in Seq(Nat) /\ passed \subseteq 1..pos
        BY EmptySeq
      <3>3. target \in AllTargets /\ total \in Nat /\ pos \in 0..total
        BY DEF AllTargets
      <3>. QED
        BY <3>1, <3>2, <3>3 DEF TypeOK, None
    <2>2. BufferInv /\ PlaceInv /\ TriggerInv
      BY EmptySeq DEF BufferInv, PlaceInv, TriggerInv, BufferFits,
         ReadsOnly
    <2>3. AfterInv
      BY EmptySeq, ConcatEmptySeq DEF AfterInv
    <2>4. OrderInv
      <3>1. Pending = <<>> /\ Len(Pending) = 0
        BY EmptySeq, ConcatEmptySeq DEF Pending
      <3>. QED
        BY <3>1 DEF OrderInv, RowsInOrder, TriggerOfOwnRelation
    <2>. QED
      BY <2>1, <2>2, <2>3, <2>4 DEF RInv
  <1>2. RInv /\ [Next]_vars => RInv'
    BY TypeStep, BufferStep, PlaceStep, AfterStep, TriggerStep, OrderStep DEF RInv
  <1>. QED
    BY <1>1, <1>2, PTL DEF Spec

\* chdb_copy_receive and DESCRIBE return only after the whole stream, with an
\* empty buffer, the right count, and AFTER triggers that have seen every row.
THEOREM CopyWhole == Spec => []DoneIsWhole
  <1>1. RInv => DoneIsWhole
    <2> SUFFICES ASSUME RInv, pc = "done" PROVE DoneIsWhole
      BY DEF DoneIsWhole
    <2>1. buf = <<>> /\ Len(buf) = 0
      BY EmptySeq DEF RInv, BufferInv
    <2>2. Len(table) \in Nat /\ Len(instead) \in Nat
      BY LenProperties DEF RInv, TypeOK
    <2>. QED
      BY <2>1, <2>2 DEF RInv, PlaceInv, DoneIsWhole
  <1>. QED
    BY <1>1, Invariance, PTL

\* buffer_store never takes a slot past the end, and flushes by size.
THEOREM BufferBound == Spec => []BufferFits
  <1>1. RInv => BufferFits
    BY DEF RInv, BufferInv
  <1>. QED
    BY <1>1, Invariance, PTL

\* For every stream and every limit of the buffer, chdb_copy_receive takes no
\* further row and does not return while flush_buffer or insert_row owes a stored
\* row its index entries and AFTER ROW triggers.
THEOREM AfterTriggersQueued == Spec => AfterFollows
  <1>1. RInv /\ [Next]_vars
          => [~ReadsOnly /\ (pos' # pos \/ pc' = "done") => after = table]_vars
    <2> SUFFICES ASSUME RInv, Next, ~ReadsOnly, pos' # pos \/ pc' = "done", vars' # vars
                 PROVE  after = table
      OBVIOUS
    <2>1. todo = <<>>
      <3> USE DEF RInv, PlaceInv, CopyRow, NextRow, Quiet
      <3>1. CASE pos' # pos
        <4>1. NextRow
          BY <3>1 DEF Next, CallRefused, CallAccepted, NothingStreamed, OpenRaises,
             BeginQuery, BeginDescribe, BeginCopy, RowSuppressed, RowInstead, RowBuffered,
             RowInserted, AfterInsert, RowForeignNothing, RowReturned, ColumnDescribed,
             RowRead, RowRaises, ReaderFails, EndRaises, EndQuery, EndDescribe, EndRead,
             EndCopy, AfterTriggers, Terminated, vars
        <4>. QED
          BY <4>1
      <3>2. CASE pos' = pos
        <4>1. NothingStreamed \/ EndQuery \/ EndDescribe \/ AfterTriggers
          <5>1. pc' = "done" /\ ~NextRow
            BY <3>2 DEF TypeOK
          <5>. QED
            BY <5>1 DEF Next, CallRefused, CallAccepted, OpenRaises,
               BeginQuery, BeginDescribe, BeginCopy, RowSuppressed, RowInstead, RowBuffered,
               RowInserted, AfterInsert, RowForeignNothing, RowReturned, ColumnDescribed,
               RowRead, RowRaises, ReaderFails, EndRaises, EndCopy, Terminated, vars,
               TypeOK
        <4>. QED
          BY <4>1 DEF NothingStreamed, EndQuery, EndDescribe, EndRead, LoopOver,
             AfterTriggers
      <3>. QED
        BY <3>1, <3>2
    <2>. QED
      BY <2>1, ConcatEmptySeq DEF RInv, TypeOK, AfterInv
  <1>. QED
    BY <1>1, Invariance, PTL DEF Spec, AfterFollows

\* Rows are stored in stream order, none twice.
THEOREM StreamOrder == Spec => []RowsInOrder
  <1>1. RInv => RowsInOrder
    BY DEF RInv, OrderInv
  <1>. QED
    BY <1>1, Invariance, PTL

\* The cached trigger flag is never that of another partition.
THEOREM OwnTriggers == Spec => []TriggerOfOwnRelation
  <1>1. RInv => TriggerOfOwnRelation
    BY DEF RInv, OrderInv
  <1>. QED
    BY <1>1, Invariance, PTL

\* No row waits in the buffer when a BEFORE or INSTEAD OF trigger runs.
THEOREM TriggersSeeRows == Spec => []TriggerSeesAll
  <1>1. RInv => TriggerSeesAll
    BY DEF RInv, BufferInv, TriggerInv, TriggerSeesAll, Buffered
  <1>. QED
    BY <1>1, Invariance, PTL

----------------------------------------------------------------------------
(* The rows of a helper arrive as Transfer says. *)

\* The buffer holds the rows the reader returned last, all of them.
LastRows(q, n) ==
    /\ Len(q) <= n
    /\ \A i \in 1..Len(q) : q[i][1] = n - Len(q) + i
WaitInv == LastRows(buf, pos)

\* The numbers of stored rows, one for each.
LEMMA NumbersSeq ==
  ASSUME NEW q \in Seq(Entries)
  PROVE  /\ Numbers(q) \in Seq(Nat) /\ Len(Numbers(q)) = Len(q) /\ Len(q) \in Nat
         /\ \A i \in 1..Len(q) : Numbers(q)[i] = q[i][1]
  <1>1. Len(q) \in Nat /\ \A i \in 1..Len(q) : q[i] \in Nat \X Relations
    BY LenProperties DEF Entries
  <1>2. \A i \in 1..Len(q) : q[i][1] \in Nat
    BY <1>1
  <1>3. Numbers(q) \in [1..Len(q) -> Nat]
    BY <1>2 DEF Numbers
  <1>4. Numbers(q) \in Seq(Nat)
    BY <1>1, <1>3, IsASeq
  <1>5. \A i \in 1..Len(q) : Numbers(q)[i] = q[i][1]
    BY DEF Numbers
  <1>6. Len(Numbers(q)) = Len(q)
    BY <1>1, <1>3, <1>4, LenProperties
  <1>. QED
    BY <1>1, <1>4, <1>5, <1>6

\* The numbers of rows written out follow those of the rows before them.
LEMMA NumbersConcat ==
  ASSUME NEW s \in Seq(Entries), NEW q \in Seq(Entries)
  PROVE  Numbers(s \o q) = Numbers(s) \o Numbers(q)
  <1>1. /\ s \o q \in Seq(Entries) /\ Len(s \o q) = Len(s) + Len(q)
        /\ Len(s) \in Nat /\ Len(q) \in Nat
    BY ConcatProperties, LenProperties
  <1>2. /\ Numbers(s \o q) \in Seq(Nat) /\ Len(Numbers(s \o q)) = Len(s) + Len(q)
        /\ \A i \in 1..Len(s) + Len(q) : Numbers(s \o q)[i] = (s \o q)[i][1]
    BY <1>1, NumbersSeq
  <1>3. /\ Numbers(s) \in Seq(Nat) /\ Len(Numbers(s)) = Len(s)
        /\ \A i \in 1..Len(s) : Numbers(s)[i] = s[i][1]
    BY NumbersSeq
  <1>4. /\ Numbers(q) \in Seq(Nat) /\ Len(Numbers(q)) = Len(q)
        /\ \A i \in 1..Len(q) : Numbers(q)[i] = q[i][1]
    BY NumbersSeq
  <1>5. /\ Numbers(s) \o Numbers(q) \in Seq(Nat)
        /\ Len(Numbers(s) \o Numbers(q)) = Len(s) + Len(q)
    <2> DEFINE a == Numbers(s)
               b == Numbers(q)
    <2>1. a \in Seq(Nat) /\ b \in Seq(Nat) /\ Len(a) = Len(s) /\ Len(b) = Len(q)
      BY <1>3, <1>4
    <2> HIDE DEF a, b
    <2>2. a \o b \in Seq(Nat) /\ Len(a \o b) = Len(a) + Len(b)
      BY <2>1, ConcatProperties, Zenon
    <2>. QED
      BY <2>1, <2>2, Zenon DEF a, b
  <1>6. ASSUME NEW i \in 1..Len(s) + Len(q)
        PROVE  Numbers(s \o q)[i] = (Numbers(s) \o Numbers(q))[i]
    <2>1. CASE i <= Len(s)
      <3>1. i \in 1..Len(s)
        BY <1>1, <2>1
      <3>2. (s \o q)[i] = s[i]
        BY <1>1, <2>1, ConcatProperties
      <3>3. (Numbers(s) \o Numbers(q))[i] = Numbers(s)[i]
        BY <1>1, <1>3, <1>4, <2>1, ConcatProperties
      <3>. QED
        BY <1>2, <1>3, <3>1, <3>2, <3>3
    <2>2. CASE i > Len(s)
      <3>1. i - Len(s) \in 1..Len(q)
        BY <1>1, <2>2
      <3>2. (s \o q)[i] = q[i - Len(s)]
        BY <1>1, <2>2, ConcatProperties
      <3>3. (Numbers(s) \o Numbers(q))[i] = Numbers(q)[i - Len(s)]
        BY <1>1, <1>3, <1>4, <2>2, ConcatProperties
      <3>. QED
        BY <1>2, <1>4, <3>1, <3>2, <3>3
    <2>3. i <= Len(s) \/ i > Len(s)
      BY <1>1
    <2>. QED
      BY <2>1, <2>2, <2>3, Zenon
  <1>. QED
    BY <1>1, <1>2, <1>5, <1>6, SeqEqual

\* All rows behind row m up to row n are a selection of them.
LEMMA AllSelected ==
  ASSUME NEW m \in Nat, NEW n \in Nat, m <= n, NEW s \in Seq(Nat), Len(s) = n - m,
         \A i \in 1..Len(s) : s[i] = m + i
  PROVE  s \in Abstract!Selections(m, n)
  <1>1. n - m \in 0..n - m /\ DOMAIN s = 1..n - m
    BY LenProperties
  <1>2. \A i \in 1..n - m : s[i] = m + i /\ m + i \in m + 1..n
    OBVIOUS
  <1>3. s \in [1..n - m -> m + 1..n]
    <2>1. s = [i \in 1..n - m |-> s[i]]
      BY <1>1
    <2>. QED
      BY <1>2, <2>1
  <1>4. \A i, j \in DOMAIN s : i < j => s[i] < s[j]
    BY <1>1, <1>2
  <1>. QED
    BY <1>1, <1>3, <1>4 DEF Abstract!Selections

\* So is none of them, when a trigger or a foreign table keeps a row away.
LEMMA NoneSelected ==
  ASSUME NEW m \in Nat, NEW n \in Nat, m <= n
  PROVE  <<>> \in Abstract!Selections(m, n)
  <1>1. 0 \in 0..n - m /\ DOMAIN <<>> = {} /\ <<>> \in [1..0 -> m + 1..n]
    BY EmptySeq
  <1>. QED
    BY <1>1 DEF Abstract!Selections

\* So is one row on its own.
LEMMA OneSelected ==
  ASSUME NEW m \in Nat
  PROVE  <<m + 1>> \in Abstract!Selections(m, m + 1) /\ Len(<<m + 1>>) = (m + 1) - m
  <1> DEFINE n == m + 1
             s == <<n>>
  <1>1. n \in Nat /\ m <= n /\ s \in Seq(Nat) /\ Len(s) = n - m
    OBVIOUS
  <1>2. \A i \in 1..Len(s) : s[i] = m + i
    OBVIOUS
  <1> HIDE DEF n, s
  <1>3. s \in Abstract!Selections(m, n)
    BY <1>1, <1>2, AllSelected, Zenon
  <1>. QED
    BY <1>1, <1>3 DEF n, s

\* An entry has the row's number, and so has the table it joins.
LEMMA NumbersAppend ==
  ASSUME NEW s \in Seq(Entries), NEW n \in Nat, NEW r \in Relations
  PROVE  Numbers(Append(s, <<n, r>>)) = Numbers(s) \o <<n>>
  <1>1. <<n, r>> \in Entries
    BY DEF Entries
  <1> DEFINE e == <<n, r>>
  <1>2. Numbers(<<e>>) = <<n>> /\ e \in Entries
    BY <1>1 DEF Numbers
  <1> HIDE DEF e
  <1>3. <<e>> \in Seq(Entries) /\ Append(s, e) = s \o <<e>>
    BY <1>2, AppendIsConcat
  <1>4. Numbers(s \o <<e>>) = Numbers(s) \o Numbers(<<e>>)
    BY <1>3, NumbersConcat, Zenon
  <1>. QED
    BY <1>2, <1>3, <1>4, Zenon DEF e

\* A row joins the buffer right behind the ones in it.
LEMMA WaitJoined ==
  ASSUME TypeOK, WaitInv, NEW q, q = Append(buf, <<Row, "root">>)
  PROVE  /\ q \in Seq(Entries) /\ Len(q) = Len(buf) + 1 /\ Len(buf) \in Nat
         /\ Len(q) <= pos + 1 /\ LastRows(q, pos + 1)
  <1>1. /\ buf \in Seq(Entries) /\ pos \in Nat
        /\ Row = pos + 1 /\ Row \in Nat /\ "root" \in Relations
    BY DEF TypeOK, Row, Relations
  <1>2. q \in Seq(Entries) /\ Len(q) = Len(buf) + 1 /\ Len(buf) \in Nat
    BY <1>1, Joined
  <1>3. /\ \A i \in 1..Len(buf) : q[i] = buf[i]
        /\ q[Len(buf) + 1] = <<Row, "root">>
    <2>1. <<Row, "root">> \in Entries
      BY <1>1 DEF Entries
    <2>. QED
      BY <1>1, <1>2, <2>1, AppendProperties
  <1>4. ASSUME NEW i \in 1..Len(q) PROVE q[i][1] = pos + 1 - Len(q) + i
    <2>1. CASE i \in 1..Len(buf)
      BY <1>1, <1>2, <1>3, <2>1 DEF WaitInv, LastRows
    <2>2. CASE i = Len(buf) + 1
      BY <1>1, <1>2, <1>3, <2>2
    <2>. QED
      BY <1>2, <2>1, <2>2
  <1>. QED
    BY <1>1, <1>2, <1>4 DEF WaitInv, LastRows

\* A row that arrives or goes on its own finds the buffer empty.
LEMMA AloneInBuffer ==
  ASSUME RInv, \/ RowSuppressed \/ RowInstead \/ RowInserted \/ RowForeignNothing
               \/ RowReturned \/ ColumnDescribed
  PROVE  /\ target # "plain" /\ buf = <<>> /\ buf' = <<>> /\ Len(buf) = 0
         /\ pc = "loop" /\ pc' = "loop" /\ pos < total /\ pos' = pos + 1
         /\ total' = total /\ target' = target
  <1> USE DEF buffer, CopyRow, NextRow
  <1>1. /\ buf' = buf /\ pc = "loop" /\ pc' = "loop" /\ pos < total /\ pos' = pos + 1
        /\ total' = total /\ target' = target
    BY DEF RowSuppressed, RowInstead, RowInserted, RowForeignNothing, RowReturned,
       ColumnDescribed, RowRead
  <1>2. target # "plain"
    <2>1. CASE RowSuppressed
      BY <2>1 DEF RowSuppressed, Route, routing, RInv, TriggerInv
    <2>2. CASE RowForeignNothing
      BY <2>2 DEF RowForeignNothing, Foreign, RelationsOf
    <2>3. CASE RowInserted
      BY <2>3 DEF RowInserted, Buffered, ReadsOnly
    <2>4. CASE RowInstead \/ RowReturned \/ ColumnDescribed
      BY <2>4 DEF RowInstead, InsteadRow, RowReturned, ColumnDescribed
    <2>. QED
      BY <2>1, <2>2, <2>3, <2>4
  <1>3. buf = <<>>
    BY <1>2 DEF RInv, TypeOK, AllTargets, BufferInv, Buffered, ReadsOnly
  <1>. QED
    BY <1>1, <1>2, <1>3, EmptySeq

\* No step loses a waiting row or lets one of them be overtaken.
LEMMA WaitStep == RInv /\ WaitInv /\ [Next]_vars => WaitInv'
  <1> SUFFICES ASSUME RInv, WaitInv, [Next]_vars PROVE WaitInv'
    OBVIOUS
  <1> USE DEF buffer, stored, routing, fired
  <1>0. pos \in Nat /\ TypeOK
    BY DEF RInv, TypeOK
  <1>1. CASE UNCHANGED <<buf, pos>>
    BY <1>1 DEF WaitInv
  <1>2. ASSUME buf' = <<>>, pos' \in Nat PROVE WaitInv'
    BY <1>2, EmptySeq DEF WaitInv, LastRows
  <1>3. CASE \/ CallRefused \/ CallAccepted \/ NothingStreamed \/ OpenRaises
             \/ BeginQuery \/ BeginDescribe \/ RowRaises \/ EndRaises \/ EndQuery
             \/ EndDescribe
    BY <1>1, <1>3 DEF CallRefused, CallAccepted, NothingStreamed, OpenRaises, BeginQuery,
       BeginDescribe, RowRaises, EndRaises, EndQuery, EndDescribe, EndRead, Quiet
  <1>4. CASE BeginCopy \/ ReaderFails \/ AfterTriggers \/ AfterInsert \/ UNCHANGED vars
    BY <1>1, <1>4 DEF BeginCopy, ReaderFails, AfterTriggers, AfterInsert, vars
  <1>5. CASE EndCopy
    BY <1>0, <1>2, <1>5 DEF EndCopy, Flush
  <1>6. CASE \/ RowSuppressed \/ RowInstead \/ RowInserted \/ RowForeignNothing
             \/ RowReturned \/ ColumnDescribed
    BY <1>0, <1>2, <1>6, AloneInBuffer
  <1>7. CASE RowBuffered
    <2> DEFINE q == Append(buf, <<Row, "root">>)
    <2>1. pos' = pos + 1 /\ (buf' = <<>> \/ buf' = q)
      BY <1>7 DEF RowBuffered, CopyRow, NextRow, Flush
    <2>2. LastRows(q, pos + 1)
      BY <1>0, WaitJoined
    <2> HIDE DEF q
    <2>3. CASE buf' = q
      BY <2>1, <2>2, <2>3 DEF WaitInv
    <2>4. pos' \in Nat
      BY <1>0, <2>1
    <2>. QED
      BY <1>2, <2>1, <2>3, <2>4
  <1>. QED
    BY <1>3, <1>4, <1>5, <1>6, <1>7 DEF Next, Terminated

\* Rows up to n that are dealt with at once, seen from the variables of the copy.
LEMMA DealtWith ==
  ASSUME NEW n, NEW s \in Abstract!Selections(dealtOf, n), target' = target, total' = total,
         everyOf => Len(s) = n - dealtOf, dealtOf' = n, arrivedOf' = arrivedOf \o s
  PROVE  Abstract!Deal(n)
  BY DEF Abstract!Deal, everyOf, wholeOf

\* A row that is taken or stored on its own is a move of one row or of none.
LEMMA RowMoves ==
  ASSUME RInv, \/ RowSuppressed \/ RowInstead \/ RowInserted \/ RowForeignNothing
               \/ RowReturned \/ ColumnDescribed
  PROVE  Abstract!Move
  <1>1. /\ target # "plain" /\ Len(buf) = 0 /\ Len(buf') = 0
        /\ pc = "loop" /\ pc' = "loop" /\ pos < total /\ pos' = pos + 1
        /\ total' = total /\ target' = target
    BY AloneInBuffer
  <1>2. /\ pos \in Nat /\ total \in Nat /\ Row \in Nat
        /\ table \in Seq(Entries) /\ instead \in Seq(Nat)
    BY DEF RInv, TypeOK, Row
  <1>3. /\ dealtOf = pos /\ dealtOf' = pos + 1 /\ pos + 1 \in pos + 1..total
        /\ pos + 1 \in Nat /\ pos <= pos + 1 /\ Row = pos + 1
    BY <1>1, <1>2 DEF dealtOf, Row
  <1>4. phaseOf = "running" /\ phaseOf' = "running"
    BY <1>1 DEF phaseOf
  <1>5. arrivedOf \in Seq(Nat)
    BY <1>2, NumbersSeq DEF arrivedOf
  <1>6. SUFFICES Abstract!Deal(pos + 1)
    BY <1>3, <1>4 DEF Abstract!Move
  <1>7. ASSUME arrivedOf' = arrivedOf \o <<Row>> PROVE Abstract!Deal(pos + 1)
    <2>1. /\ <<Row>> \in Abstract!Selections(dealtOf, pos + 1)
          /\ Len(<<Row>>) = (pos + 1) - dealtOf
      BY <1>2, <1>3, OneSelected
    <2>2. PICK s \in Abstract!Selections(dealtOf, pos + 1) :
            Len(s) = (pos + 1) - dealtOf /\ arrivedOf' = arrivedOf \o s
      BY <1>7, <2>1
    <2>. QED
      BY <1>1, <1>3, <2>2, DealtWith, Zenon
  <1>8. ASSUME arrivedOf' = arrivedOf, ~everyOf PROVE Abstract!Deal(pos + 1)
    <2>1. <<>> \in Abstract!Selections(dealtOf, pos + 1)
      BY <1>2, <1>3, NoneSelected, Zenon
    <2>2. arrivedOf \o <<>> = arrivedOf
      BY <1>5, ConcatEmptySeq
    <2>. QED
      BY <1>1, <1>3, <1>8, <2>1, <2>2, DealtWith, Zenon
  <1>9. CASE RowSuppressed \/ RowForeignNothing
    <2>1. table' = table /\ instead' = instead
      BY <1>9 DEF RowSuppressed, RowForeignNothing, stored, fired
    <2>2. target \in {"before", "routed", "foreign"}
      <3>1. CASE RowSuppressed
        BY <1>1, <3>1 DEF RowSuppressed, Route, routing, RInv, TriggerInv
      <3>2. CASE RowForeignNothing
        BY <3>2 DEF RowForeignNothing, Foreign, RelationsOf
      <3>. QED
        BY <1>9, <3>1, <3>2
    <2>3. arrivedOf' = arrivedOf
      BY <1>1, <2>1 DEF arrivedOf, InsteadRow, Numbers
    <2>. QED
      BY <1>8, <2>2, <2>3 DEF everyOf
  <1>10. CASE RowInstead
    <2>1. instead' = Append(instead, Row) /\ InsteadRow /\ InsteadRow'
      BY <1>1, <1>10 DEF RowInstead, InsteadRow
    <2>2. Append(instead, Row) = instead \o <<Row>>
      BY <1>2, AppendIsConcat
    <2>. QED
      BY <1>7, <2>1, <2>2 DEF arrivedOf
  <1>11. CASE RowInserted \/ RowReturned \/ ColumnDescribed
    <2>1. ~InsteadRow
      BY <1>11 DEF RowInserted, RowReturned, ColumnDescribed, InsteadRow
    <2>2. PICK r \in Relations : table' = Append(table, <<Row, r>>)
      BY <1>11 DEF RowInserted, RelationsOf, Relations, RowReturned, ColumnDescribed, RowRead
    <2>3. Numbers(table') = Numbers(table) \o <<Row>>
      BY <1>2, <2>2, NumbersAppend
    <2>4. arrivedOf = Numbers(table) /\ arrivedOf' = Numbers(table')
      BY <1>1, <2>1 DEF arrivedOf, InsteadRow, Numbers
    <2>. QED
      BY <1>7, <2>3, <2>4
  <1>. QED
    BY <1>9, <1>10, <1>11

\* A flush brings the rows of the buffer, whether it is full or the stream over.
LEMMA FlushMoves ==
  ASSUME RInv, NEW q \in Seq(Entries), Flush(q), target = "plain", pc = "loop",
         target' = target, total' = total, pc' \in {"loop", "end"}, pos' \in 0..total,
         dealtOf = pos' - Len(q), LastRows(q, pos'), q # <<>>
  PROVE  Abstract!Move
  <1>1. Len(q) \in Nat /\ Len(q) # 0 /\ Len(buf') = 0
    BY LenProperties, EmptySeq DEF Flush
  <1>2. /\ pos' \in Nat /\ total \in Nat /\ table \in Seq(Entries) /\ pos' <= total
        /\ Len(q) <= pos' /\ \A i \in 1..Len(q) : q[i][1] = pos' - Len(q) + i
    <2>1. total \in Nat /\ table \in Seq(Entries)
      BY DEF RInv, TypeOK
    <2>2. pos' \in Nat /\ pos' <= total
      BY <2>1
    <2>. QED
      BY <2>1, <2>2, Zenon DEF LastRows
  <1>3. dealtOf \in Nat /\ dealtOf <= pos' /\ dealtOf' = pos' /\ pos' \in dealtOf + 1..total
    <2>1. dealtOf' = pos' - Len(buf')
      BY DEF dealtOf
    <2>2. dealtOf' = pos'
      <3>1. \A n \in Nat : n - 0 = n
        OBVIOUS
      <3>. QED
        BY <1>1, <1>2, <2>1, <3>1, Zenon
    <2>. QED
      BY <1>1, <1>2, <2>2
  <1>4. phaseOf = "running" /\ phaseOf' = "running"
    BY DEF phaseOf
  <1>5. /\ Numbers(q) \in Seq(Nat) /\ Len(Numbers(q)) = pos' - dealtOf
        /\ \A i \in 1..Len(Numbers(q)) : Numbers(q)[i] = dealtOf + i
    <2>1. /\ Numbers(q) \in Seq(Nat) /\ Len(Numbers(q)) = Len(q)
          /\ \A i \in 1..Len(q) : Numbers(q)[i] = q[i][1]
      BY NumbersSeq
    <2>2. Len(q) = pos' - dealtOf
      BY <1>1, <1>2
    <2>3. \A i \in 1..Len(q) : q[i][1] = dealtOf + i
      BY <1>2
    <2>. QED
      BY <2>1, <2>2, <2>3
  <1>6. Numbers(q) \in Abstract!Selections(dealtOf, pos')
    BY <1>2, <1>3, <1>5, AllSelected, Zenon
  <1>7. arrivedOf' = arrivedOf \o Numbers(q)
    <2>1. arrivedOf = Numbers(table) /\ arrivedOf' = Numbers(table')
      BY DEF arrivedOf, InsteadRow, Numbers
    <2>. QED
      BY <1>2, <2>1, NumbersConcat DEF Flush
  <1>8. Abstract!Deal(pos')
    BY <1>3, <1>5, <1>6, <1>7, DealtWith, Zenon
  <1>. QED
    BY <1>3, <1>4, <1>8 DEF Abstract!Move

\* Every step of COPY FROM, chdb_query and DESCRIBE brings rows as Transfer allows.
LEMMA StepTransfers ==
  ASSUME RInv, WaitInv, [Next]_vars
  PROVE  Abstract!Next \/ UNCHANGED Abstract!vars
  <1> USE DEF buffer, stored, routing, fired
  <1>0. /\ TypeOK /\ pos \in Nat /\ total \in Nat /\ pos <= total
        /\ table \in Seq(Entries) /\ buf \in Seq(Entries) /\ instead \in Seq(Nat)
    BY DEF RInv, TypeOK
  <1>1. ASSUME UNCHANGED <<target, total, pos, buf, table, instead>>
        PROVE  UNCHANGED <<everyOf, wholeOf, total, dealtOf, arrivedOf>>
    BY <1>1 DEF everyOf, wholeOf, dealtOf, arrivedOf, InsteadRow, Numbers
  <1>2. CASE \/ CallAccepted \/ BeginQuery \/ BeginDescribe \/ BeginCopy
             \/ ReaderFails \/ AfterInsert \/ UNCHANGED vars
    <2>1. UNCHANGED <<target, total, pos, buf, table, instead>> /\ phaseOf' = phaseOf
      BY <1>2 DEF CallAccepted, BeginQuery, BeginDescribe, BeginCopy, ReaderFails,
         AfterInsert, vars, Quiet, phaseOf
    <2>. QED
      BY <1>1, <2>1 DEF Abstract!vars
  <1>3. CASE CallRefused \/ OpenRaises \/ RowRaises \/ EndRaises
    <2>1. /\ UNCHANGED <<target, total, pos, buf, table, instead>>
          /\ phaseOf = "running" /\ phaseOf' = "raised"
      BY <1>3 DEF CallRefused, OpenRaises, RowRaises, EndRaises, LoopOver, Quiet, phaseOf
    <2>. QED
      BY <1>1, <2>1 DEF Abstract!Next, Abstract!Raise
  <1>4. CASE NothingStreamed \/ EndQuery \/ EndDescribe \/ AfterTriggers
    <2>1. /\ UNCHANGED <<target, total, pos, buf, table, instead>>
          /\ phaseOf = "running" /\ phaseOf' = "returned"
      BY <1>4 DEF NothingStreamed, EndQuery, EndDescribe, EndRead, LoopOver, AfterTriggers,
         Quiet, phaseOf
    <2>2. buf = <<>> /\ Len(buf) = 0
      <3>1. CASE NothingStreamed \/ AfterTriggers
        BY <3>1, EmptySeq DEF NothingStreamed, AfterTriggers, RInv, BufferInv
      <3>2. CASE EndQuery \/ EndDescribe
        BY <3>2, EmptySeq DEF EndQuery, EndDescribe, RInv, BufferInv, Buffered, ReadsOnly
      <3>. QED
        BY <1>4, <3>1, <3>2
    <2>3. wholeOf => pos = total
      <3>1. CASE NothingStreamed
        BY <1>0, <3>1 DEF NothingStreamed
      <3>2. CASE EndQuery
        BY <3>2 DEF EndQuery, wholeOf
      <3>3. CASE EndDescribe
        BY <3>3 DEF EndDescribe, EndRead, LoopOver, ErrorReported
      <3>4. CASE AfterTriggers
        BY <3>4 DEF AfterTriggers, RInv, PlaceInv, wholeOf
      <3>. QED
        BY <1>4, <3>1, <3>2, <3>3, <3>4
    <2>4. dealtOf = pos /\ pos \in dealtOf..total /\ pos - dealtOf = 0 /\ dealtOf' = pos
      <3>1. dealtOf = pos
        BY <1>0, <2>2 DEF dealtOf
      <3>. QED
        BY <1>0, <1>1, <2>1, <3>1
    <2>5. <<>> \in Abstract!Selections(dealtOf, pos) /\ Len(<<>>) = pos - dealtOf
      BY <1>0, <2>4, NoneSelected, EmptySeq
    <2>6. arrivedOf' = arrivedOf \o <<>>
      <3>1. arrivedOf \in Seq(Nat)
        BY <1>0, NumbersSeq DEF arrivedOf
      <3>. QED
        BY <1>1, <2>1, <3>1, ConcatEmptySeq
    <2>7. Abstract!Deal(pos)
      BY <2>1, <2>4, <2>5, <2>6, DealtWith, Zenon
    <2>. QED
      BY <2>1, <2>3, <2>4, <2>7 DEF Abstract!Next, Abstract!Return
  <1>5. CASE \/ RowSuppressed \/ RowInstead \/ RowInserted \/ RowForeignNothing
             \/ RowReturned \/ ColumnDescribed
    BY <1>5, RowMoves DEF Abstract!Next
  <1>6. CASE RowBuffered
    <2> DEFINE q == Append(buf, <<Row, "root">>)
    <2>1. /\ target = "plain" /\ target' = target /\ total' = total /\ pc = "loop"
          /\ pc' = "loop" /\ pos' = pos + 1 /\ pos < total /\ instead' = instead
      BY <1>0, <1>6 DEF RowBuffered, Buffered, ReadsOnly, CopyRow, NextRow, TypeOK, AllTargets
    <2>2. \/ Flush(q)
          \/ buf' = q /\ table' = table
      BY <1>6 DEF RowBuffered
    <2>3. /\ q \in Seq(Entries) /\ Len(q) = Len(buf) + 1 /\ Len(buf) \in Nat
          /\ Len(q) <= pos + 1 /\ LastRows(q, pos + 1)
      BY <1>0, WaitJoined
    <2> HIDE DEF q
    <2>4. dealtOf = pos' - Len(q) /\ pos' \in 0..total
      BY <1>0, <2>1, <2>3 DEF dealtOf
    <2>5. CASE Flush(q)
      <3>1. q # <<>>
        BY <2>3, EmptySeq
      <3>2. LastRows(q, pos')
        BY <2>1, <2>3
      <3>3. pc' \in {"loop", "end"}
        BY <2>1
      <3>4. Abstract!Move
        BY <2>1, <2>3, <2>4, <2>5, <3>1, <3>2, <3>3, FlushMoves, Zenon
      <3>. QED
        BY <3>4 DEF Abstract!Next
    <2>6. CASE buf' = q /\ table' = table
      <3>1. dealtOf' = dealtOf
        BY <2>4, <2>6 DEF dealtOf
      <3>2. UNCHANGED <<everyOf, wholeOf, total, arrivedOf, phaseOf>>
        BY <2>1, <2>6 DEF everyOf, wholeOf, arrivedOf, InsteadRow, Numbers, phaseOf
      <3>. QED
        BY <3>1, <3>2 DEF Abstract!vars
    <2>. QED
      BY <2>2, <2>5, <2>6
  <1>7. CASE EndCopy
    <2>1. /\ target' = target /\ total' = total /\ pc = "loop" /\ pc' = "end"
          /\ pos' = pos /\ instead' = instead /\ Flush(buf)
      BY <1>7 DEF EndCopy, LoopOver
    <2>2. CASE buf = <<>>
      <3>1. buf' = buf /\ table' = table
        BY <1>0, <2>1, <2>2, ConcatEmptySeq DEF Flush
      <3>2. phaseOf' = phaseOf
        BY <2>1 DEF phaseOf
      <3>. QED
        BY <1>1, <2>1, <3>1, <3>2 DEF Abstract!vars
    <2>3. CASE buf # <<>>
      <3>1. target = "plain"
        BY <1>0, <2>3 DEF RInv, BufferInv, Buffered, ReadsOnly, TypeOK, AllTargets
      <3>2. LastRows(buf, pos') /\ pos' \in 0..total /\ dealtOf = pos' - Len(buf)
        BY <1>0, <2>1 DEF WaitInv, dealtOf
      <3>3. pc' \in {"loop", "end"}
        BY <2>1
      <3>4. Abstract!Move
        BY <1>0, <2>1, <2>3, <3>1, <3>2, <3>3, FlushMoves, Zenon
      <3>. QED
        BY <3>4 DEF Abstract!Next
    <2>. QED
      BY <2>2, <2>3
  <1>. QED
    BY <1>2, <1>3, <1>4, <1>5, <1>6, <1>7 DEF Next, Terminated

\* chdb_copy_receive, chdb_select_receive and chdb_native_describe are copies of
\* rows, for every stream, relation, row size and limit of the buffer: what waits
\* in nativeInsert is neither lost nor overtaken, and an error stores no more.
THEOREM Implements == Spec => Transfers
  <1>1. Init => Abstract!Init
    <2> SUFFICES ASSUME Init PROVE Abstract!Init
      OBVIOUS
    <2>1. total \in Nat /\ pc \in {"call", "open"}
      BY SizeAssumption DEF Init
    <2>2. dealtOf = 0
      <3>1. pos = 0 /\ Len(buf) = 0
        BY EmptySeq DEF Init
      <3>. QED
        BY <3>1 DEF dealtOf
    <2>3. arrivedOf = <<>>
      BY DEF Init, arrivedOf, Numbers
    <2>4. everyOf \in BOOLEAN /\ wholeOf \in BOOLEAN /\ phaseOf = "running"
      BY <2>1 DEF everyOf, wholeOf, phaseOf
    <2>. QED
      BY <2>1, <2>2, <2>3, <2>4 DEF Abstract!Init
  <1>2. Init => WaitInv
    BY EmptySeq DEF Init, WaitInv, LastRows
  <1>3. RInv /\ WaitInv /\ [Next]_vars => WaitInv'
    BY WaitStep
  <1>4. RInv /\ WaitInv /\ [Next]_vars => [Abstract!Next]_(Abstract!vars)
    BY StepTransfers
  <1>. QED
    BY <1>1, <1>2, <1>3, <1>4, Invariance, PTL DEF Spec, Transfers, Abstract!Spec
=============================================================================
