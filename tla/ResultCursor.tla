---------------------------- MODULE ResultCursor ----------------------------
(***************************************************************************)
(* MonetDBCursor (base.py): rows are fetched from record batches that are  *)
(* read lazily and converted as a whole.                                   *)
(*                                                                         *)
(* A fetch call is several steps, because each batch it reads can raise:   *)
(* the rows the call had collected are then gone, and the next call goes   *)
(* on from wherever the cursor was left.                                   *)
(***************************************************************************)
EXTENDS Naturals, Sequences

CONSTANTS MaxQuery,   \* bound: statements executed on the cursor
          MaxRows,    \* bound: rows of a result
          MaxBlank,   \* bound: empty batches in a result
          Sizes       \* the sizes fetchmany is called with

ASSUME SizesAssumption == Sizes \subseteq Nat
ASSUME BoundsAssumption == {MaxQuery, MaxRows, MaxBlank} \subseteq Nat

VARIABLES statement, \* number of the statement passed to execute() last
          query,   \* number of the statement whose result the driver has
          total,   \* rows of that result
          stream,  \* the driver's side of the result
          cursor,  \* MonetDBCursor._reader, ._batch and ._index
          call,    \* the call in progress
          got, ended, failed   \* what the application has seen (RowStream)

vars == <<statement, query, total, stream, cursor, call, got, ended, failed>>

Rows == (1..MaxQuery) \X (1..MaxRows)

\* The rows from i to j of the driver's result.
Run(i, j) == [k \in 1..(j - i + 1) |-> <<query, i + k - 1>>]

\* described: _cursor.description is not None (an empty list counts: DDL).
StreamType == [described : BOOLEAN, read : 0..MaxRows, blank : 0..MaxBlank]

CursorType == [open : BOOLEAN, batch : Seq(Rows), index : Nat]

CallType == [op : {"none", "one", "many", "all"}, want : Nat, rows : Seq(Rows)]

NoCall == [op |-> "none", want |-> 0, rows |-> <<>>]

\* _reset(), and a new cursor
Reset == [open |-> FALSE, batch |-> <<>>, index |-> 0]

TypeOK == /\ statement \in 0..MaxQuery /\ query \in 0..statement /\ total \in 0..MaxRows
          /\ stream \in StreamType
          /\ cursor \in CursorType
          /\ cursor.index <= Len(cursor.batch)
          /\ call \in CallType
          /\ got \in Seq(Rows) /\ ended \in BOOLEAN /\ failed \in BOOLEAN

Init == /\ statement = 0 /\ query = 0 /\ total = 0
        /\ stream = [described |-> FALSE, read |-> 0, blank |-> 0]
        /\ cursor = Reset
        /\ call = NoCall
        /\ got = <<>> /\ ended = FALSE /\ failed = FALSE

-----------------------------------------------------------------------------
(* Calls.                                                                  *)

\* Mutant of Executed: the rows buffered of the last result stay.
ExecutedKeepingRows == cursor' = [cursor EXCEPT !.open = FALSE]

Executed == cursor' = Reset

\* execute() and executemany(), which reset first.  Then the statement runs; or
\* the driver raises and has dropped the last result; or something raises before
\* the driver dropped it, as parameter_record_batch() does, and a fetch opens
\* that result again and goes on with what the driver has left of it.
Execute(n) ==
    /\ call.op = "none" /\ statement < MaxQuery
    /\ statement' = statement + 1
    /\ Executed
    /\ \/ /\ query' = statement' /\ total' = n /\ got' = <<>> /\ failed' = FALSE
          /\ stream' = [described |-> TRUE, read |-> 0, blank |-> 0]
       \/ /\ query' = statement' /\ total' = 0 /\ got' = <<>> /\ failed' = TRUE
          /\ stream' = [described |-> FALSE, read |-> 0, blank |-> 0]
       \/ failed' = TRUE /\ UNCHANGED <<query, total, got, stream>>
    /\ ended' = FALSE
    /\ UNCHANGED call

Fetch(op, want) ==
    /\ call.op = "none"
    /\ call' = [op |-> op, want |-> want, rows |-> <<>>]
    /\ UNCHANGED <<statement, query, total, stream, cursor, got, ended, failed>>

FetchOne == Fetch("one", 1)
FetchMany(size) == Fetch("many", size)
FetchAll == Fetch("all", 0)

\* The call returns rows: None, a row or a list.  The application concludes
\* that the result has ended from None, from a short list, and from fetchall().
Answer(rows) ==
    /\ call' = NoCall
    /\ got' = got \o rows
    /\ ended' = (ended \/ call.op = "all" \/ Len(rows) < call.want)
    /\ UNCHANGED <<statement, query, total, failed>>

\* The call raises; what it had collected is lost.
Raise == /\ call' = NoCall
         /\ failed' = TRUE
         /\ UNCHANGED <<statement, query, total, got, ended>>

-----------------------------------------------------------------------------
(* Steps of a fetch call.                                                  *)

Buffered == Len(cursor.batch) - cursor.index

Lesser(a, b) == IF a <= b THEN a ELSE b

\* Mutant of Satisfied: what is left of one batch will do.
OneBatchWillDo == call.op = "many" /\ (Len(call.rows) >= call.want \/ call.rows # <<>>)

Satisfied == call.op = "many" /\ Len(call.rows) >= call.want

\* How many buffered rows the call takes at once.
Take == IF call.op = "all" THEN Buffered
        ELSE Lesser(call.want - Len(call.rows), Buffered)

\* Mutant of Advanced: fetchall() leaves the index where it was.
NotAdvancedByAll == IF call.op = "all" THEN cursor.index ELSE cursor.index + Take

Advanced == cursor.index + Take

\* rows.extend(self._batch[self._index : ...]); fetchone returns at once.
TakeBuffered ==
    /\ call.op # "none" /\ ~Satisfied /\ Buffered > 0
    /\ cursor' = [cursor EXCEPT !.index = Advanced]
    /\ LET rows == call.rows \o SubSeq(cursor.batch, cursor.index + 1, cursor.index + Take)
       IN IF call.op = "one"
          THEN Answer(rows)
          ELSE /\ call' = [call EXCEPT !.rows = rows]
               /\ UNCHANGED <<statement, query, total, got, ended, failed>>
    /\ UNCHANGED stream

FetchManyReturns == Satisfied /\ Answer(call.rows) /\ UNCHANGED <<stream, cursor>>

\* _next_batch() is called: the buffer is used up.
NeedsBatch == call.op # "none" /\ ~Satisfied /\ Buffered = 0

\* No statement has produced a result: no reader is opened.
NoResult == /\ NeedsBatch /\ ~cursor.open /\ ~stream.described
            /\ Answer(call.rows)
            /\ UNCHANGED <<stream, cursor>>

Open == cursor.open \/ stream.described

\* Mutant of EndOfStream: the loop goes on after StopIteration.
LoopAtEnd == FALSE

\* StopIteration: the call returns what it has.
EndOfStream == NeedsBatch /\ Open /\ stream.read = total

StreamEnds == /\ EndOfStream
              /\ cursor' = [cursor EXCEPT !.open = TRUE]
              /\ Answer(call.rows)
              /\ UNCHANGED stream

\* An empty batch is skipped.
ReadBlank == /\ NeedsBatch /\ Open /\ stream.blank < MaxBlank
             /\ cursor' = [cursor EXCEPT !.open = TRUE]
             /\ stream' = [stream EXCEPT !.blank = @ + 1]
             /\ UNCHANGED <<statement, query, total, call, got, ended, failed>>

\* Mutant of Filled: the index is not reset.
FilledAtOldIndex(batch) == [open |-> TRUE, batch |-> batch, index |-> cursor.index]

Filled(batch) == [open |-> TRUE, batch |-> batch, index |-> 0]

ReadBatch(n) ==
    /\ NeedsBatch /\ Open
    /\ n \in 1..(total - stream.read)
    /\ stream' = [stream EXCEPT !.read = @ + n]
    /\ cursor' = Filled(Run(stream.read + 1, stream.read + n))
    /\ UNCHANGED <<statement, query, total, call, got, ended, failed>>

\* The reader cannot be opened, or reading raises; rows may be lost with it.
ReadRaises(n) ==
    /\ NeedsBatch /\ Open
    /\ n \in 0..(total - stream.read)
    /\ stream' = [stream EXCEPT !.read = @ + n]
    /\ \E opened \in {cursor.open, TRUE} : cursor' = [cursor EXCEPT !.open = opened]
    /\ Raise

\* batch_to_rows() raises on the batch just read, which is lost; the buffer is
\* as before.
ConversionRaises(n) ==
    /\ NeedsBatch /\ Open
    /\ n \in 1..(total - stream.read)
    /\ stream' = [stream EXCEPT !.read = @ + n]
    /\ cursor' = [cursor EXCEPT !.open = TRUE]
    /\ Raise

Progress == \/ TakeBuffered \/ FetchManyReturns \/ NoResult \/ StreamEnds \/ ReadBlank
            \/ \E n \in 1..MaxRows : ReadBatch(n)

Next == \/ \E n \in 0..MaxRows : Execute(n)
        \/ FetchOne \/ FetchAll \/ \E size \in Sizes : FetchMany(size)
        \/ Progress
        \/ \E n \in 0..MaxRows : ReadRaises(n) \/ ConversionRaises(n)

Spec == Init /\ [][Next]_vars

\* A call runs on, and need not be so lucky as to raise.
FairSpec == Spec /\ WF_vars(Progress)

-----------------------------------------------------------------------------
(* Properties.                                                             *)

\* Nothing falls between the batches: until a call raises, the rows delivered,
\* the rows the current call holds and the rows still buffered are, in this
\* order, exactly the rows read from the driver.
NothingDropped ==
    ~failed => got \o call.rows \o SubSeq(cursor.batch, cursor.index + 1, Len(cursor.batch))
                 = Run(1, stream.read)

\* What is buffered is of the result the driver has, never of one before it; and
\* that is the result of the statement executed last, unless the application has
\* seen an exception.
OnlyThisResult ==
    /\ \A i \in (cursor.index + 1)..Len(cursor.batch) : cursor.batch[i][1] = query
    /\ ~failed => query = statement

\* A fetch call returns or raises, however the rows are cut into batches.
CallsReturn == call.op # "none" ~> call.op = "none"

Stream == INSTANCE RowStream WITH statement <- statement, query <- query, total <- total, got <- got,
                                  ended <- ended, failed <- failed

\* Batches, buffer and index are invisible to the application.
Implements == Stream!Spec
=============================================================================
