-------------------------- MODULE ResultCursorProofs --------------------------
(***************************************************************************)
(* No row falls between the batches or outlives its result in the buffer: for *)
(* any number and length of results, cut into batches in any way, fetched  *)
(* by any mix of calls.                                                    *)
(***************************************************************************)
EXTENDS ResultCursor, SequenceTheorems, TLAPS

\* What the cursor still holds.
Buffer == SubSeq(cursor.batch, cursor.index + 1, Len(cursor.batch))

\* The rows of the result that were read lie within it, and only calls collect.
Shapes == /\ stream.read <= total
          /\ (query = 0 => total = 0)
          /\ (call.op = "none" => call.rows = <<>>)
          /\ (call.op = "one" => call.rows = <<>> /\ call.want = 1)

IInv == TypeOK /\ Shapes /\ NothingDropped /\ OnlyThisResult

-----------------------------------------------------------------------------
(* Sequences.                                                               *)

\* Sequences joined, where only the laws of \o matter.
Joined(a, b) == a \o b

LEMMA JoinedTyped == \A a, b \in Seq(Rows) : Joined(a, b) \in Seq(Rows)
  BY ConcatProperties DEF Joined

LEMMA JoinedAssociative ==
    \A a, b, c \in Seq(Rows) : Joined(Joined(a, b), c) = Joined(a, Joined(b, c))
  BY ConcatAssociative DEF Joined

\* What was collected may be joined to what is taken, or what is taken to the rest.
LEMMA Regrouped ==
    ASSUME NEW g \in Seq(Rows), NEW c \in Seq(Rows), NEW t \in Seq(Rows), NEW u \in Seq(Rows)
    PROVE  Joined(Joined(g, Joined(c, t)), u) = Joined(Joined(g, c), Joined(t, u))
  <1>1. Joined(Joined(g, c), t) = Joined(g, Joined(c, t))
    BY JoinedAssociative
  <1>2. Joined(g, c) \in Seq(Rows)
    BY JoinedTyped
  <1>3. Joined(Joined(Joined(g, c), t), u) = Joined(Joined(g, c), Joined(t, u))
    BY <1>2, JoinedAssociative
  <1> QED
    BY <1>1, <1>3

\* A function on 1 .. n is a sequence of length n.
LEMMA FunctionIsSeq ==
    ASSUME NEW S, NEW n \in Nat, NEW f \in [1 .. n -> S]
    PROVE  f \in Seq(S) /\ Len(f) = n
  <1>1. f \in Seq(S)
    OBVIOUS
  <1>2. DOMAIN f = 1 .. Len(f) /\ Len(f) \in Nat
    BY <1>1, LenProperties
  <1>3. DOMAIN f = 1 .. n
    OBVIOUS
  <1> QED
    BY <1>1, <1>2, <1>3

\* A run of rows, as a sequence.
LEMMA RunIsSeq ==
    ASSUME NEW i \in Nat, NEW j \in Nat, i <= j + 1
    PROVE  /\ Run(i, j) \in Seq({query} \X Nat)
           /\ Len(Run(i, j)) = j - i + 1
           /\ \A k \in 1 .. (j - i + 1) : Run(i, j)[k] = <<query, i + k - 1>>
  <1>1. Run(i, j) \in [1 .. (j - i + 1) -> {query} \X Nat] /\ j - i + 1 \in Nat
    BY DEF Run
  <1>2. Run(i, j) \in Seq({query} \X Nat) /\ Len(Run(i, j)) = j - i + 1
    BY <1>1, FunctionIsSeq, Zenon
  <1>3. \A k \in 1 .. (j - i + 1) : Run(i, j)[k] = <<query, i + k - 1>>
    BY DEF Run
  <1> QED
    BY <1>2, <1>3

\* The rows of a statement that has been executed are rows.
LEMMA RunInRows ==
    ASSUME NEW i \in 1 .. MaxRows + 1, NEW j \in 0 .. MaxRows, i <= j + 1,
           query \in 0 .. MaxQuery, (query = 0 => j = 0)
    PROVE  Run(i, j) \in Seq(Rows)
  <1> MaxRows \in Nat /\ MaxQuery \in Nat
    BY BoundsAssumption
  <1>1. j - i + 1 \in Nat
    OBVIOUS
  <1>2. \A k \in 1 .. (j - i + 1) : query \in 1 .. MaxQuery /\ i + k - 1 \in 1 .. MaxRows
    OBVIOUS
  <1>3. Run(i, j) \in [1 .. (j - i + 1) -> Rows]
    BY <1>2 DEF Run, Rows
  <1> QED
    BY <1>1, <1>3, FunctionIsSeq, Zenon

\* Runs that meet are one run.
LEMMA RunsMeet ==
    ASSUME NEW i \in Nat, NEW j \in Nat
    PROVE  Run(1, i) \o Run(i + 1, i + j) = Run(1, i + j)
  <1> DEFINE S == {query} \X Nat
             a == Run(1, i)
             b == Run(i + 1, i + j)
             c == Run(1, i + j)
  <1>1. a \in Seq(S) /\ Len(a) = i
    <2>1. 1 \in Nat /\ 1 <= i + 1 /\ i - 1 + 1 = i
      OBVIOUS
    <2> QED
      BY <2>1, RunIsSeq
  <1>2. b \in Seq(S) /\ Len(b) = j
    <2>1. i + 1 \in Nat /\ i + j \in Nat /\ i + 1 <= i + j + 1 /\ (i + j) - (i + 1) + 1 = j
      OBVIOUS
    <2> QED
      BY <2>1, RunIsSeq
  <1>3. c \in Seq(S) /\ Len(c) = i + j
    <2>1. i + j \in Nat /\ 1 <= i + j + 1 /\ (i + j) - 1 + 1 = i + j
      OBVIOUS
    <2> QED
      BY <2>1, RunIsSeq
  <1>4. \A k \in 1 .. i : a[k] = <<query, k>>
    BY DEF Run
  <1>5. \A k \in 1 .. j : b[k] = <<query, i + k>>
    BY DEF Run
  <1>6. \A k \in 1 .. (i + j) : c[k] = <<query, k>>
    BY DEF Run
  <1> HIDE DEF a, b, c, S
  <1>7. /\ a \o b \in Seq(S) /\ Len(a \o b) = i + j
        /\ \A k \in 1 .. (i + j) : (a \o b)[k] = IF k <= i THEN a[k] ELSE b[k - i]
    BY <1>1, <1>2, ConcatProperties
  <1>8. ASSUME NEW k \in 1 .. (i + j)
        PROVE  (a \o b)[k] = c[k]
    <2>1. (a \o b)[k] = IF k <= i THEN a[k] ELSE b[k - i]
      BY <1>7
    <2>2. c[k] = <<query, k>>
      BY <1>6
    <2>3. CASE k <= i
      <3>1. k \in 1 .. i
        BY <2>3
      <3> QED
        BY <1>4, <2>1, <2>2, <2>3, <3>1
    <2>4. CASE ~(k <= i)
      <3>1. k - i \in 1 .. j /\ i + (k - i) = k
        BY <2>4
      <3>2. b[k - i] = <<query, i + (k - i)>>
        BY <1>5, <3>1, Zenon
      <3> QED
        BY <2>1, <2>2, <2>4, <3>1, <3>2
    <2> QED
      BY <2>3, <2>4
  <1>9. a \o b = c
    BY <1>3, <1>7, <1>8, SeqEqual
  <1> QED
    BY <1>9 DEF a, b, c

\* What a call takes from the buffer and what it leaves are the buffer.
LEMMA Cut ==
    ASSUME NEW S, NEW s \in Seq(S), NEW i \in 0 .. Len(s), NEW n \in 0 .. (Len(s) - i)
    PROVE  /\ SubSeq(s, i + 1, i + n) \in Seq(S)
           /\ SubSeq(s, i + n + 1, Len(s)) \in Seq(S)
           /\ SubSeq(s, i + 1, Len(s)) \in Seq(S)
           /\ SubSeq(s, i + 1, i + n) \o SubSeq(s, i + n + 1, Len(s))
                = SubSeq(s, i + 1, Len(s))
  <1>1. Len(s) \in Nat
    BY LenProperties
  <1>2. \A k \in 1 .. Len(s) : s[k] \in S
    BY ElementOfSeq
  <1>3. /\ i + 1 \in 1 .. Len(s) + 1 /\ i + n \in (i + 1) - 1 .. Len(s)
        /\ Len(s) \in i + n .. Len(s)
        /\ i + 1 \in Int /\ i + n \in Int /\ i + n + 1 \in Int /\ Len(s) \in Int
    BY <1>1
  <1>4. /\ \A k \in i + 1 .. i + n : s[k] \in S
        /\ \A k \in i + n + 1 .. Len(s) : s[k] \in S
        /\ \A k \in i + 1 .. Len(s) : s[k] \in S
    BY <1>1, <1>2
  <1> QED
    BY <1>3, <1>4, SubSeqProperties, ConcatAdjacentSubSeq
-----------------------------------------------------------------------------
(* The steps.                                                               *)

LEMMA Initially == Init => IInv
  <1> SUFFICES ASSUME Init
               PROVE  IInv
    OBVIOUS
  <1> MaxRows \in Nat /\ MaxQuery \in Nat /\ MaxBlank \in Nat
    BY BoundsAssumption
  <1>1. TypeOK
    <2>1. <<>> \in Seq(Rows) /\ Len(<<>>) = 0
      BY EmptySeq
    <2>2. stream \in StreamType
      BY DEF Init, StreamType
    <2>3. cursor \in CursorType /\ cursor.index <= Len(cursor.batch)
      BY <2>1 DEF Init, CursorType, Reset
    <2>4. call \in CallType
      BY <2>1 DEF Init, CallType, NoCall
    <2>5. statement \in 0 .. MaxQuery /\ query \in 0 .. statement /\ total \in 0 .. MaxRows
      BY DEF Init
    <2>6. got \in Seq(Rows) /\ ended \in BOOLEAN /\ failed \in BOOLEAN
      BY <2>1 DEF Init
    <2> QED
      BY <2>2, <2>3, <2>4, <2>5, <2>6 DEF TypeOK
  <1>2. Shapes
    BY DEF Init, Shapes, NoCall
  <1>3. NothingDropped
    <2>1. SubSeq(cursor.batch, cursor.index + 1, Len(cursor.batch)) = <<>>
      BY SubSeqEmpty DEF Init, Reset
    <2>2. Run(1, stream.read) = <<>>
      BY DEF Init, Run
    <2>3. got \o call.rows = <<>> /\ (got \o call.rows) \o <<>> = <<>>
      BY ConcatEmptySeq, <1>1 DEF Init, NoCall
    <2> QED
      BY <2>1, <2>2, <2>3 DEF NothingDropped
  <1>4. OnlyThisResult
    BY DEF Init, Reset, OnlyThisResult
  <1> QED
    BY <1>1, <1>2, <1>3, <1>4 DEF IInv

\* The facts the steps start from.
LEMMA Facts ==
    ASSUME IInv
    PROVE  /\ MaxRows \in Nat /\ MaxQuery \in Nat /\ MaxBlank \in Nat
           /\ query \in 0 .. MaxQuery /\ total \in 0 .. MaxRows
           /\ statement \in 0 .. MaxQuery /\ query \in 0 .. statement
           /\ stream.read \in 0 .. total
           /\ got \in Seq(Rows) /\ call.rows \in Seq(Rows) /\ cursor.batch \in Seq(Rows)
           /\ Len(cursor.batch) \in Nat /\ cursor.index \in 0 .. Len(cursor.batch)
           /\ Buffer \in Seq(Rows)
           /\ Buffered \in Nat
           /\ (Buffered = 0 => Buffer = <<>>)
  <1>1. /\ MaxRows \in Nat /\ MaxQuery \in Nat /\ MaxBlank \in Nat
        /\ query \in 0 .. MaxQuery /\ total \in 0 .. MaxRows
        /\ statement \in 0 .. MaxQuery /\ query \in 0 .. statement
        /\ stream.read \in 0 .. total
    BY BoundsAssumption DEF IInv, TypeOK, Shapes, StreamType
  <1>2. got \in Seq(Rows) /\ call.rows \in Seq(Rows) /\ cursor.batch \in Seq(Rows)
    BY DEF IInv, TypeOK, CallType, CursorType
  <1>3. Len(cursor.batch) \in Nat /\ cursor.index \in 0 .. Len(cursor.batch)
    BY <1>2, LenProperties DEF IInv, TypeOK, CursorType
  <1>4. Buffer \in Seq(Rows)
    <2>1. 0 \in 0 .. (Len(cursor.batch) - cursor.index)
      BY <1>3
    <2> QED
      BY <1>2, <1>3, <2>1, Cut DEF Buffer
  <1>5. Buffered \in Nat
    BY <1>3 DEF Buffered
  <1>6. Buffered = 0 => Buffer = <<>>
    BY <1>3, SubSeqEmpty DEF Buffered, Buffer
  <1> QED
    BY <1>1, <1>2, <1>3, <1>4, <1>5, <1>6

\* A call that returns what it took, in order, and leaves the rest.
LEMMA Answering ==
    ASSUME IInv, NEW rows \in Seq(Rows), Answer(rows), UNCHANGED stream,
           cursor' \in CursorType, cursor'.index <= Len(cursor'.batch),
           ~failed => (got \o rows) \o Buffer' = Run(1, stream.read),
           OnlyThisResult'
    PROVE  IInv'
  <1>1. TypeOK'
    <2>1. got' \in Seq(Rows)
      BY ConcatProperties, Facts DEF Answer
    <2>2. /\ call' \in CallType /\ ended' \in BOOLEAN
          /\ UNCHANGED <<statement, query, total, failed, stream>>
      BY DEF Answer, NoCall, CallType, IInv, TypeOK
    <2> QED
      BY <2>1, <2>2 DEF IInv, TypeOK
  <1>2. Shapes'
    BY DEF IInv, Shapes, Answer, NoCall
  <1>3. NothingDropped'
    <2> SUFFICES ASSUME ~failed'
                 PROVE  (got' \o call'.rows) \o Buffer' = Run(1, stream.read)'
      BY DEF NothingDropped, Buffer
    <2>1. got' = got \o rows /\ call'.rows = <<>> /\ ~failed
      BY DEF Answer, NoCall
    <2>2. got \o rows \in Seq(Rows)
      BY ConcatProperties, Facts
    <2>3. got' \o call'.rows = got \o rows
      BY <2>1, <2>2, ConcatEmptySeq
    <2>4. Run(1, stream.read)' = Run(1, stream.read)
      BY DEF Run, Answer
    <2> QED
      BY <2>1, <2>3, <2>4
  <1> QED
    BY <1>1, <1>2, <1>3 DEF IInv

\* A call that raises may lose rows, none of them silently.
LEMMA Raising ==
    ASSUME IInv, Raise, NEW n \in Nat, stream.read + n <= total,
           stream' = [stream EXCEPT !.read = @ + n],
           NEW opened \in BOOLEAN, cursor' = [cursor EXCEPT !.open = opened]
    PROVE  IInv'
  <1>1. cursor' \in CursorType /\ cursor'.batch = cursor.batch /\ cursor'.index = cursor.index
    BY DEF IInv, TypeOK, CursorType
  <1>2. stream' \in StreamType /\ stream'.read = stream.read + n
    <2>1. stream \in StreamType
      BY DEF IInv, TypeOK
    <2>2. stream.read + n \in 0 .. MaxRows
      <3>1. stream.read \in Nat /\ total \in 0 .. MaxRows /\ MaxRows \in Nat
        BY Facts
      <3> QED
        BY <3>1
    <2> QED
      BY <2>1, <2>2 DEF StreamType
  <1>3. TypeOK'
    BY <1>1, <1>2 DEF IInv, TypeOK, Raise, NoCall, CallType
  <1>4. Shapes'
    BY <1>2 DEF IInv, Shapes, Raise, NoCall
  <1>5. NothingDropped'
    BY DEF Raise, NothingDropped
  <1>6. OnlyThisResult'
    BY <1>1 DEF IInv, OnlyThisResult, Raise
  <1> QED
    BY <1>3, <1>4, <1>5, <1>6 DEF IInv

\* A statement starts anew, or raises and leaves the driver as it was.
LEMMA ExecuteCases ==
    ASSUME IInv, NEW n \in 0 .. MaxRows, Execute(n)
    PROVE  /\ statement' = statement + 1 /\ statement' \in 0 .. MaxQuery
           /\ cursor' = Reset /\ ended' = FALSE
           /\ call' = call /\ call.op = "none" /\ call.rows = <<>>
           /\ \/ /\ query' = statement' /\ got' = <<>>
                 /\ total' \in 0 .. MaxRows /\ failed' \in BOOLEAN
                 /\ stream' \in StreamType /\ stream'.read = 0
                 /\ stream'.described = FALSE => total' = 0
              \/ failed' = TRUE /\ UNCHANGED <<query, total, got, stream>>
  <1>1. statement' = statement + 1 /\ statement' \in 0 .. MaxQuery
    <2>1. statement \in 0 .. MaxQuery /\ MaxQuery \in Nat
      BY Facts
    <2>2. statement < MaxQuery /\ statement' = statement + 1
      BY DEF Execute
    <2> QED
      BY <2>1, <2>2
  <1>2. 0 \in 0 .. MaxRows /\ 0 \in 0 .. MaxBlank
    BY Facts
  <1>3. \/ /\ query' = statement' /\ got' = <<>>
           /\ total' \in 0 .. MaxRows /\ failed' \in BOOLEAN
           /\ stream' \in StreamType /\ stream'.read = 0
           /\ stream'.described = FALSE => total' = 0
        \/ failed' = TRUE /\ UNCHANGED <<query, total, got, stream>>
    <2> DEFINE fresh(d) == [described |-> d, read |-> 0, blank |-> 0]
    <2>1. fresh(TRUE) \in StreamType /\ fresh(FALSE) \in StreamType
      BY <1>2 DEF StreamType
    <2>2. /\ fresh(TRUE).read = 0 /\ fresh(TRUE).described = TRUE
          /\ fresh(FALSE).read = 0 /\ fresh(FALSE).described = FALSE
      OBVIOUS
    <2>3. \/ /\ query' = statement' /\ total' = n /\ got' = <<>> /\ failed' = FALSE
             /\ stream' = fresh(TRUE)
          \/ /\ query' = statement' /\ total' = 0 /\ got' = <<>> /\ failed' = TRUE
             /\ stream' = fresh(FALSE)
          \/ failed' = TRUE /\ UNCHANGED <<query, total, got, stream>>
      BY Zenon DEF Execute
    <2> HIDE DEF fresh
    <2> QED
      BY <1>2, <2>1, <2>2, <2>3
  <1> QED
    BY <1>1, <1>3 DEF Execute, Executed, IInv, Shapes

LEMMA Executing ==
    ASSUME IInv, NEW n \in 0 .. MaxRows, Execute(n)
    PROVE  IInv'
  <1>1. /\ statement' \in 0 .. MaxQuery /\ query' \in 0 .. statement'
        /\ total' \in 0 .. MaxRows /\ failed' \in BOOLEAN
        /\ stream' \in StreamType /\ stream'.read <= total'
        /\ (query' = 0 => total' = 0) /\ (~failed' => query' = statement')
        /\ got' \in Seq(Rows)
    <2>1. /\ statement \in 0 .. MaxQuery /\ query \in 0 .. statement /\ MaxQuery \in Nat
          /\ total \in 0 .. MaxRows /\ stream.read \in 0 .. total /\ MaxRows \in Nat
          /\ stream \in StreamType /\ got \in Seq(Rows) /\ (query = 0 => total = 0)
      BY Facts DEF IInv, TypeOK, Shapes
    <2>2. statement' = statement + 1 /\ statement' \in 0 .. MaxQuery
      BY ExecuteCases
    <2>3. CASE /\ query' = statement' /\ got' = <<>>
               /\ total' \in 0 .. MaxRows /\ failed' \in BOOLEAN
               /\ stream' \in StreamType /\ stream'.read = 0
      <3>1. <<>> \in Seq(Rows)
        BY EmptySeq
      <3>2. query' \in 0 .. statement' /\ query' # 0 /\ stream'.read <= total'
        BY <2>1, <2>2, <2>3
      <3> QED
        BY <2>2, <2>3, <3>1, <3>2
    <2>4. CASE failed' = TRUE /\ UNCHANGED <<query, total, got, stream>>
      <3>1. query' \in 0 .. statement' /\ stream'.read <= total'
        BY <2>1, <2>2, <2>4
      <3> QED
        BY <2>1, <2>2, <2>4, <3>1
    <2> QED
      BY <2>3, <2>4, ExecuteCases
  <1>2. /\ cursor' = Reset /\ ended' = FALSE
        /\ call' = call /\ call.op = "none" /\ call.rows = <<>>
    BY ExecuteCases
  <1>3. TypeOK'
    <2>1. <<>> \in Seq(Rows) /\ Len(<<>>) = 0
      BY EmptySeq
    <2>2. cursor' \in CursorType /\ cursor'.index <= Len(cursor'.batch)
      BY <1>2, <2>1 DEF Reset, CursorType
    <2>3. call' \in CallType
      BY <1>2 DEF IInv, TypeOK
    <2> QED
      BY <1>1, <1>2, <2>2, <2>3 DEF TypeOK
  <1>4. Shapes'
    BY <1>1, <1>2 DEF Shapes
  <1>5. NothingDropped'
    <2> SUFFICES ASSUME ~failed'
                 PROVE  (got' \o call'.rows)
                          \o SubSeq(cursor'.batch, cursor'.index + 1, Len(cursor'.batch))
                            = Run(1, stream.read)'
      BY DEF NothingDropped
    <2>1. got' = <<>> /\ stream'.read = 0
      BY ExecuteCases
    <2>2. SubSeq(<<>>, 0 + 1, Len(<<>>)) = <<>>
      BY SubSeqEmpty
    <2>3. <<>> \o <<>> = <<>>
      BY ConcatEmptySeq
    <2>4. cursor'.batch = <<>> /\ cursor'.index = 0
      BY <1>2 DEF Reset
    <2>5. (got' \o call'.rows) \o SubSeq(cursor'.batch, cursor'.index + 1, Len(cursor'.batch))
             = <<>>
      BY <1>2, <2>1, <2>2, <2>3, <2>4
    <2>6. Run(1, stream.read)' = <<>>
      BY <2>1 DEF Run
    <2> QED
      BY <2>5, <2>6
  <1>6. OnlyThisResult'
    BY <1>1, <1>2 DEF OnlyThisResult, Reset
  <1> QED
    BY <1>3, <1>4, <1>5, <1>6 DEF IInv

\* A call takes something, and no more than there is.
LEMMA TakeInRange ==
    ASSUME IInv, TakeBuffered
    PROVE  Take \in 1 .. Buffered
  <1>1. call.want \in Nat /\ call.op \in {"one", "many", "all"} /\ Len(call.rows) \in Nat
    BY Facts, LenProperties DEF IInv, TypeOK, CallType, TakeBuffered
  <1>2. call.op # "all" => call.want - Len(call.rows) \in Nat \ {0}
    <2>1. CASE call.op = "one"
      BY <1>1, <2>1, EmptySeq DEF IInv, Shapes
    <2>2. CASE call.op = "many"
      BY <1>1, <2>2 DEF TakeBuffered, Satisfied
    <2> QED
      BY <1>1, <2>1, <2>2
  <1>3. Buffered \in Nat \ {0}
    BY Facts DEF TakeBuffered
  <1> QED
    BY <1>2, <1>3 DEF Take, Lesser

\* Taking rows from the buffer.
LEMMA Taking ==
    ASSUME IInv, TakeBuffered
    PROVE  IInv'
  <1> DEFINE taken == SubSeq(cursor.batch, cursor.index + 1, cursor.index + Take)
             rest == SubSeq(cursor.batch, cursor.index + Take + 1, Len(cursor.batch))
             rows == call.rows \o taken
  <1>1. Take \in 0 .. Buffered
    BY TakeInRange, Facts
  <1>2. /\ taken \in Seq(Rows) /\ rest \in Seq(Rows) /\ Buffer \in Seq(Rows)
        /\ taken \o rest = Buffer
    <2>1. Take \in 0 .. (Len(cursor.batch) - cursor.index)
      BY <1>1 DEF Buffered
    <2> QED
      BY <2>1, Facts, Cut DEF Buffer
  <1>3. rows \in Seq(Rows)
    BY <1>2, Facts, ConcatProperties
  <1>4. (got \o rows) \o rest = (got \o call.rows) \o Buffer
    <2> HIDE DEF taken, rest, rows
    <2>1. PICK g \in Seq(Rows), c \in Seq(Rows), t \in Seq(Rows), u \in Seq(Rows) :
               g = got /\ c = call.rows /\ t = taken /\ u = rest
      <3>1. got \in Seq(Rows) /\ call.rows \in Seq(Rows)
        BY Facts
      <3> QED
        BY <1>2, <3>1, Zenon
    <2>2. Joined(Joined(g, Joined(c, t)), u) = Joined(Joined(g, c), Joined(t, u))
      BY Regrouped
    <2>3. rows = Joined(c, t) /\ Buffer = Joined(t, u)
      BY <1>2, <2>1 DEF rows, Joined
    <2>4. Joined(Joined(got, rows), rest) = Joined(Joined(got, call.rows), Buffer)
      BY <2>1, <2>2, <2>3, Zenon
    <2> QED
      BY <2>4, Zenon DEF Joined
  <1>5. /\ cursor' \in CursorType /\ cursor'.batch = cursor.batch
        /\ cursor'.index = cursor.index + Take /\ cursor'.index <= Len(cursor'.batch)
    <2>1. cursor \in CursorType /\ cursor' = [cursor EXCEPT !.index = cursor.index + Take]
      BY DEF TakeBuffered, Advanced, IInv, TypeOK
    <2>2. cursor.index + Take \in Nat /\ cursor.index + Take <= Len(cursor.batch)
      <3>1. cursor.index \in Nat /\ Len(cursor.batch) \in Nat
        BY Facts
      <3> HIDE DEF Take
      <3> QED
        BY <1>1, <3>1 DEF Buffered
    <2> HIDE DEF Take
    <2> QED
      BY <2>1, <2>2 DEF CursorType
  <1>6. Buffer' = rest
    BY <1>5 DEF Buffer
  <1>7. OnlyThisResult'
    <2>1. query' = query /\ statement' = statement /\ failed' = failed
      BY DEF TakeBuffered, Answer
    <2>2. OnlyThisResult
      BY DEF IInv
    <2>3. \A k \in (cursor.index + Take + 1) .. Len(cursor.batch) :
               k \in (cursor.index + 1) .. Len(cursor.batch)
      <3>1. cursor.index \in Nat /\ Len(cursor.batch) \in Nat /\ Take \in Nat
        BY <1>1, Facts
      <3> HIDE DEF Take
      <3> QED
        BY <3>1
    <2> QED
      BY <1>5, <2>1, <2>2, <2>3, Zenon DEF OnlyThisResult
  <1>8. ~failed => (got \o rows) \o rest = Run(1, stream.read)
    BY <1>4 DEF IInv, NothingDropped, Buffer
  <1>9. CASE call.op = "one"
    <2>1. Answer(rows) /\ UNCHANGED stream
      BY <1>9 DEF TakeBuffered
    <2> HIDE DEF rows, rest
    <2> QED
      BY <1>3, <1>5, <1>6, <1>7, <1>8, <2>1, Answering
  <1>10. CASE call.op # "one"
    <2>1. /\ call' = [call EXCEPT !.rows = rows]
          /\ UNCHANGED <<statement, query, total, got, ended, failed, stream>>
      BY <1>10 DEF TakeBuffered
    <2> HIDE DEF rows, rest
    <2>2. call' \in CallType /\ call'.rows = rows /\ call'.op = call.op
      BY <1>3, <2>1 DEF IInv, TypeOK, CallType
    <2>3. TypeOK'
      BY <1>5, <2>1, <2>2 DEF IInv, TypeOK
    <2>4. Shapes'
      BY <1>10, <2>1, <2>2 DEF IInv, Shapes, TakeBuffered
    <2>5. NothingDropped'
      <3>1. Run(1, stream.read)' = Run(1, stream.read)
        BY <2>1 DEF Run
      <3> QED
        BY <1>6, <1>8, <2>1, <2>2, <3>1 DEF NothingDropped, Buffer
    <2> QED
      BY <1>7, <2>3, <2>4, <2>5 DEF IInv
  <1> QED
    BY <1>9, <1>10

\* A call that returns what it has, and nothing of the cursor but its reader
\* changes.
LEMMA Returning ==
    ASSUME IInv, call.op # "none", Answer(call.rows), UNCHANGED stream,
           NEW opened \in BOOLEAN, cursor' = [cursor EXCEPT !.open = opened]
    PROVE  IInv'
  <1>1. /\ cursor' \in CursorType /\ cursor'.batch = cursor.batch
        /\ cursor'.index = cursor.index /\ cursor'.index <= Len(cursor'.batch)
    BY DEF IInv, TypeOK, CursorType
  <1>2. Buffer' = Buffer
    BY <1>1 DEF Buffer
  <1>3. OnlyThisResult'
    BY <1>1 DEF IInv, OnlyThisResult, Answer
  <1>4. ~failed => (got \o call.rows) \o Buffer' = Run(1, stream.read)
    BY <1>2 DEF IInv, NothingDropped, Buffer
  <1> QED
    BY <1>1, <1>3, <1>4, Facts, Answering

\* A batch replaces a buffer that is used up.
LEMMA Reading ==
    ASSUME IInv, NEW n \in Nat, ReadBatch(n)
    PROVE  IInv'
  <1> DEFINE batch == Run(stream.read + 1, stream.read + n)
  <1>1. /\ n \in 1 .. (total - stream.read) /\ Buffer = <<>>
        /\ stream' = [stream EXCEPT !.read = @ + n]
        /\ cursor' = [open |-> TRUE, batch |-> batch, index |-> 0]
        /\ UNCHANGED <<statement, query, total, call, got, ended, failed>>
    BY Facts DEF ReadBatch, NeedsBatch, Filled
  <1>2. stream.read + n \in 0 .. total /\ stream.read + n \in 0 .. MaxRows
        /\ stream.read + 1 \in 1 .. MaxRows + 1 /\ stream.read \in Nat /\ query # 0
    <2>1. total \in 0 .. MaxRows /\ stream.read \in 0 .. total /\ MaxRows \in Nat
          /\ query \in 0 .. MaxQuery
      BY Facts
    <2>2. query # 0
      BY <1>1, <2>1 DEF IInv, Shapes
    <2>3. n \in 1 .. (total - stream.read)
      BY <1>1
    <2> QED
      BY <2>1, <2>2, <2>3
  <1>3. batch \in Seq(Rows)
    <2>1. stream.read + 1 <= (stream.read + n) + 1
      BY <1>2
    <2>2. query \in 0 .. MaxQuery
      BY Facts
    <2> QED
      BY <1>2, <2>1, <2>2, RunInRows
  <1>4. stream' \in StreamType /\ stream'.read = stream.read + n
    BY <1>1, <1>2 DEF IInv, TypeOK, StreamType
  <1>5. cursor' \in CursorType /\ cursor'.index <= Len(cursor'.batch)
    <2> HIDE DEF batch
    <2>1. Len(batch) \in Nat
      BY <1>3, LenProperties
    <2> QED
      BY <1>1, <1>3, <2>1 DEF CursorType
  <1>6. TypeOK'
    BY <1>1, <1>4, <1>5 DEF IInv, TypeOK
  <1>7. Shapes'
    BY <1>1, <1>2, <1>4 DEF IInv, Shapes
  <1>8. NothingDropped'
    <2> SUFFICES ASSUME ~failed
                 PROVE  (got \o call.rows) \o Buffer' = Run(1, stream.read)'
      BY <1>1 DEF NothingDropped, Buffer
    <2>1. Buffer' = batch
      <3>1. Buffer' = SubSeq(batch, 1, Len(batch))
        BY <1>1 DEF Buffer
      <3> QED
        BY <1>3, <3>1, SubSeqFull
    <2>2. got \o call.rows = Run(1, stream.read)
      <3>1. got \o call.rows \in Seq(Rows)
        BY Facts, ConcatProperties
      <3>2. (got \o call.rows) \o <<>> = Run(1, stream.read)
        BY <1>1 DEF IInv, NothingDropped, Buffer
      <3> QED
        BY <3>1, <3>2, ConcatEmptySeq
    <2>3. Run(1, stream.read)' = Run(1, stream.read + n)
      BY <1>1, <1>4 DEF Run
    <2> QED
      BY <1>2, <2>1, <2>2, <2>3, RunsMeet
  <1>9. OnlyThisResult'
    <2>1. \A k \in 1 .. Len(batch) : batch[k] = <<query, stream.read + 1 + k - 1>>
      <3>1. /\ stream.read + 1 \in Nat /\ stream.read + n \in Nat
            /\ stream.read + 1 <= stream.read + n + 1
        BY <1>2
      <3> QED
        BY <3>1, RunIsSeq
    <2> HIDE DEF batch
    <2>2. \A k \in 1 .. Len(batch) : batch[k][1] = query
      BY <2>1
    <2>3. ~failed => query = statement
      BY DEF IInv, OnlyThisResult
    <2> QED
      BY <1>1, <2>2, <2>3 DEF OnlyThisResult
  <1> QED
    BY <1>6, <1>7, <1>8, <1>9 DEF IInv

LEMMA BlankSkipped ==
    ASSUME IInv, ReadBlank
    PROVE  IInv'
  <1>1. /\ cursor' \in CursorType /\ cursor'.batch = cursor.batch
        /\ cursor'.index = cursor.index
    BY DEF ReadBlank, IInv, TypeOK, CursorType
  <1>2. stream' \in StreamType /\ stream'.read = stream.read
    <2>1. stream \in StreamType /\ stream.blank \in 0 .. MaxBlank
      BY DEF IInv, TypeOK, StreamType
    <2>2. stream.blank + 1 \in 0 .. MaxBlank
      <3>1. MaxBlank \in Nat /\ stream.blank < MaxBlank
        BY Facts DEF ReadBlank
      <3> QED
        BY <2>1, <3>1
    <2> QED
      BY <2>1, <2>2 DEF ReadBlank, StreamType
  <1>3. UNCHANGED <<statement, query, total, call, got, ended, failed>>
    BY DEF ReadBlank
  <1>4. TypeOK'
    BY <1>1, <1>2, <1>3 DEF IInv, TypeOK
  <1>5. Shapes'
    BY <1>2, <1>3 DEF IInv, Shapes
  <1>6. NothingDropped'
    BY <1>1, <1>2, <1>3 DEF IInv, NothingDropped, Run
  <1>7. OnlyThisResult'
    BY <1>1, <1>3 DEF IInv, OnlyThisResult
  <1> QED
    BY <1>4, <1>5, <1>6, <1>7 DEF IInv

\* A fetch call begins with nothing collected.
LEMMA Fetching ==
    ASSUME IInv, NEW op \in {"one", "many", "all"}, NEW want \in Nat,
           op = "one" => want = 1, Fetch(op, want)
    PROVE  IInv'
  <1>1. call' = [op |-> op, want |-> want, rows |-> <<>>] /\ call.rows = <<>>
        /\ UNCHANGED <<statement, query, total, stream, cursor, got, ended, failed>>
    BY DEF Fetch, IInv, Shapes
  <1>2. call' \in CallType
    <2>1. <<>> \in Seq(Rows)
      BY EmptySeq
    <2> QED
      BY <1>1, <2>1 DEF CallType
  <1>3. TypeOK'
    BY <1>1, <1>2 DEF IInv, TypeOK
  <1>4. Shapes'
    BY <1>1 DEF IInv, Shapes
  <1>5. NothingDropped'
    BY <1>1 DEF IInv, NothingDropped, Run
  <1>6. OnlyThisResult'
    BY <1>1 DEF IInv, OnlyThisResult
  <1> QED
    BY <1>3, <1>4, <1>5, <1>6 DEF IInv

LEMMA Inductive == IInv /\ [Next]_vars => IInv'
  <1> SUFFICES ASSUME IInv, [Next]_vars
               PROVE  IInv'
    OBVIOUS
  <1>1. ASSUME NEW n \in 0 .. MaxRows, Execute(n)
        PROVE  IInv'
    BY <1>1, Executing
  <1>2. CASE FetchOne
    BY <1>2, Fetching DEF FetchOne
  <1>3. CASE FetchAll
    BY <1>3, Fetching DEF FetchAll
  <1>4. ASSUME NEW size \in Sizes, FetchMany(size)
        PROVE  IInv'
    BY <1>4, Fetching, SizesAssumption DEF FetchMany
  <1>5. CASE TakeBuffered
    BY <1>5, Taking
  <1>6. CASE FetchManyReturns \/ NoResult
    <2>1. /\ call.op # "none" /\ Answer(call.rows) /\ UNCHANGED <<stream, cursor>>
      BY <1>6 DEF FetchManyReturns, Satisfied, NoResult, NeedsBatch
    <2>2. cursor.open \in BOOLEAN /\ cursor' = [cursor EXCEPT !.open = cursor.open]
      BY <2>1 DEF IInv, TypeOK, CursorType
    <2> QED
      BY <2>1, <2>2, Returning
  <1>7. CASE StreamEnds
    BY <1>7, Returning DEF StreamEnds, EndOfStream, NeedsBatch
  <1>8. CASE ReadBlank
    BY <1>8, BlankSkipped
  <1>9. ASSUME NEW n \in 1 .. MaxRows, ReadBatch(n)
        PROVE  IInv'
    BY <1>9, Reading
  <1>10. ASSUME NEW n \in 0 .. MaxRows, ReadRaises(n)
         PROVE  IInv'
    <2>1. PICK opened \in {cursor.open, TRUE} : cursor' = [cursor EXCEPT !.open = opened]
      BY <1>10 DEF ReadRaises
    <2>2. opened \in BOOLEAN
      BY DEF IInv, TypeOK, CursorType
    <2>3. n \in Nat /\ stream.read + n <= total
      <3>1. total \in Nat /\ stream.read \in 0 .. total
        BY Facts
      <3> QED
        BY <1>10, <3>1 DEF ReadRaises
    <2>4. Raise /\ stream' = [stream EXCEPT !.read = @ + n]
      BY <1>10 DEF ReadRaises
    <2> QED
      BY <2>1, <2>2, <2>3, <2>4, Raising
  <1>11. ASSUME NEW n \in 0 .. MaxRows, ConversionRaises(n)
         PROVE  IInv'
    <2>1. n \in Nat /\ stream.read + n <= total
      <3>1. /\ MaxRows \in Nat /\ total \in 0 .. MaxRows /\ stream.read \in 0 .. total
        BY Facts
      <3>2. n \in 1 .. total - stream.read
        BY <1>11 DEF ConversionRaises
      <3> QED
        BY <3>1, <3>2
    <2>2. /\ Raise /\ stream' = [stream EXCEPT !.read = @ + n]
          /\ cursor' = [cursor EXCEPT !.open = TRUE]
      BY <1>11 DEF ConversionRaises
    <2> QED
      BY <2>1, <2>2, Raising
  <1>12. CASE UNCHANGED vars
    BY <1>12 DEF vars, IInv, TypeOK, Shapes, NothingDropped, OnlyThisResult, Run
  <1> QED
    BY <1>1, <1>2, <1>3, <1>4, <1>5, <1>6, <1>7, <1>8, <1>9, <1>10, <1>11, <1>12
    DEF Next, Progress

LEMMA Invariance == Spec => []IInv
  BY Initially, Inductive, PTL DEF Spec

-----------------------------------------------------------------------------
(* What it shows.                                                           *)

\* The index stays within the buffer, and calls and answers hold rows of results
\* only, however the batches are cut (MonetDBCursor).
THEOREM TypeCorrect == Spec => []TypeOK
  <1>1. IInv => TypeOK
    BY DEF IInv
  <1> QED
    BY <1>1, Invariance, PTL

\* Until a call raises, no row is dropped, repeated or moved between the reader,
\* the buffer and what the application has been given (fetchone, fetchmany,
\* fetchall and _next_batch of MonetDBCursor).
THEOREM RowsAccountedFor == Spec => []NothingDropped
  <1>1. IInv => NothingDropped
    BY DEF IInv
  <1> QED
    BY <1>1, Invariance, PTL

\* No row outlives its result in the buffer (_reset), and where rows of an earlier
\* statement can still be fetched, because a later one raised before the driver
\* dropped them, the application has seen it raise (execute() and executemany()).
THEOREM NoRowUnawares == Spec => []OnlyThisResult
  <1>1. IInv => OnlyThisResult
    BY DEF IInv
  <1> QED
    BY <1>1, Invariance, PTL

-----------------------------------------------------------------------------
(* The cursor implements RowStream.  What an exception skips is gone, but   *)
(* the rows that are left stay in order, so that the invariant places them  *)
(* by their numbers instead of by the rows before them.                     *)

\* The rows of the current result, of rising numbers between low and high.
Rises(rows, low, high) ==
    \A j \in 1 .. Len(rows) :
        /\ rows[j] = <<query, rows[j][2]>>
        /\ rows[j][2] \in 1 .. high
        /\ rows[j][2] > (IF j = 1 THEN low ELSE rows[j - 1][2])

\* The buffer holds the rows read last.
Placed ==
    /\ Buffered <= stream.read
    /\ \A k \in (cursor.index + 1) .. Len(cursor.batch) :
           cursor.batch[k] = <<query, (stream.read - Len(cursor.batch)) + k>>

\* The call has earlier ones, and the application has earlier ones still.
Rising ==
    /\ Placed
    /\ Stream!Last \in 0 .. (stream.read - Buffered)
    /\ Rises(call.rows, Stream!Last, stream.read - Buffered)

\* A result ends when it has been delivered.
Finished == /\ (~stream.described => total = 0)
            /\ (ended => failed \/ Len(got) = total)

RInv == IInv /\ Rising /\ Finished

\* What a concatenation begins and ends with.
LEMMA Split ==
    ASSUME NEW S, NEW a \in Seq(S), NEW b \in Seq(S)
    PROVE  /\ SubSeq(a \o b, 1, Len(a)) = a
           /\ SubSeq(a \o b, Len(a) + 1, Len(a \o b)) = b
           /\ Len(a \o b) = Len(a) + Len(b)
  <1> DEFINE c == a \o b
  <1>1. Len(a) \in Nat /\ Len(b) \in Nat
    BY LenProperties
  <1>2. c \in Seq(S) /\ Len(c) = Len(a) + Len(b)
    BY ConcatProperties
  <1>3. \A i \in 1 .. Len(a) + Len(b) : c[i] = IF i <= Len(a) THEN a[i] ELSE b[i - Len(a)]
    BY ConcatProperties
  <1>4. \A i \in 1 .. Len(c) : c[i] \in S
    BY <1>2, ElementOfSeq
  <1> HIDE DEF c
  <1>5. SubSeq(c, 1, Len(a)) = a
    <2>1. \A i \in 1 .. Len(a) : c[i] \in S
      BY <1>1, <1>2, <1>4
    <2>2. /\ SubSeq(c, 1, Len(a)) \in Seq(S)
          /\ Len(SubSeq(c, 1, Len(a))) = IF 1 <= Len(a) THEN Len(a) - 1 + 1 ELSE 0
          /\ \A i \in 1 .. Len(a) - 1 + 1 : SubSeq(c, 1, Len(a))[i] = c[1 + i - 1]
      BY <1>1, <2>1, SubSeqProperties
    <2>3. Len(SubSeq(c, 1, Len(a))) = Len(a)
      BY <1>1, <2>2
    <2>4. \A i \in 1 .. Len(a) : SubSeq(c, 1, Len(a))[i] = a[i]
      BY <1>1, <1>3, <2>2
    <2> QED
      BY <2>2, <2>3, <2>4, SeqEqual
  <1>6. SubSeq(c, Len(a) + 1, Len(c)) = b
    <2> DEFINE d == SubSeq(c, Len(a) + 1, Len(c))
    <2>1. \A i \in Len(a) + 1 .. Len(c) : c[i] \in S
      BY <1>1, <1>2, <1>4
    <2>2. Len(a) + 1 \in Int /\ Len(c) \in Int
      BY <1>1, <1>2
    <2>3. /\ d \in Seq(S)
          /\ Len(d) = IF Len(a) + 1 <= Len(c) THEN Len(c) - (Len(a) + 1) + 1 ELSE 0
          /\ \A i \in 1 .. Len(c) - (Len(a) + 1) + 1 : d[i] = c[(Len(a) + 1) + i - 1]
      BY <2>1, <2>2, SubSeqProperties
    <2> HIDE DEF d
    <2>4. Len(d) = Len(b)
      BY <1>1, <1>2, <2>3
    <2>5. ASSUME NEW i \in 1 .. Len(b) PROVE d[i] = b[i]
      <3>1. i \in 1 .. Len(c) - (Len(a) + 1) + 1 /\ (Len(a) + 1) + i - 1 = Len(a) + i
        BY <1>1, <1>2
      <3>2. d[i] = c[Len(a) + i]
        BY <2>3, <3>1
      <3>3. Len(a) + i \in 1 .. Len(a) + Len(b) /\ ~(Len(a) + i <= Len(a))
            /\ (Len(a) + i) - Len(a) = i
        BY <1>1
      <3> QED
        BY <1>3, <3>2, <3>3
    <2>6. d = b
      BY <2>3, <2>4, <2>5, SeqEqual
    <2> QED
      BY <2>6 DEF d
  <1> QED
    BY <1>2, <1>5, <1>6 DEF c

\* The numbers of what makes up a run from the first row.
LEMMA Positions ==
    ASSUME NEW g \in Seq(Rows), NEW r \in Seq(Rows), NEW b \in Seq(Rows), NEW n \in Nat,
           Joined(Joined(g, r), b) = Run(1, n)
    PROVE  /\ Len(g) + Len(r) + Len(b) = n
           /\ \A j \in 1 .. Len(g) : g[j] = <<query, j>>
           /\ \A j \in 1 .. Len(r) : r[j] = <<query, Len(g) + j>>
  <1> DEFINE run == Run(1, n)
             c == g \o r
  <1>1. Len(g) \in Nat /\ Len(r) \in Nat /\ Len(b) \in Nat
    BY LenProperties
  <1>2. Len(run) = n /\ \A k \in 1 .. n : run[k] = <<query, k>>
    <2>1. Len(run) = n - 1 + 1 /\ \A k \in 1 .. (n - 1 + 1) : run[k] = <<query, 1 + k - 1>>
      <3>1. 1 \in Nat /\ 1 <= n + 1
        OBVIOUS
      <3> QED
        BY <3>1, RunIsSeq
    <2>2. n - 1 + 1 = n /\ \A k \in 1 .. n : 1 + k - 1 = k
      OBVIOUS
    <2> HIDE DEF run
    <2>3. Len(run) = n /\ \A k \in 1 .. n : run[k] = <<query, 1 + k - 1>>
      BY <2>1, <2>2, Zenon
    <2>4. ASSUME NEW k \in 1 .. n PROVE run[k] = <<query, k>>
      BY <2>2, <2>3, Zenon
    <2> QED
      BY <2>3, <2>4
  <1>3. /\ c \in Seq(Rows) /\ Len(c) = Len(g) + Len(r)
        /\ \A i \in 1 .. Len(g) + Len(r) : c[i] = IF i <= Len(g) THEN g[i] ELSE r[i - Len(g)]
    BY ConcatProperties
  <1>4. c \o b = run
    BY DEF Joined
  <1> HIDE DEF run, c
  <1>5. /\ Len(run) = Len(c) + Len(b)
        /\ \A i \in 1 .. Len(c) + Len(b) : run[i] = IF i <= Len(c) THEN c[i] ELSE b[i - Len(c)]
    <2>1. /\ Len(c \o b) = Len(c) + Len(b)
          /\ \A i \in 1 .. Len(c) + Len(b) :
                 (c \o b)[i] = IF i <= Len(c) THEN c[i] ELSE b[i - Len(c)]
      <3>1. c \in Seq(Rows) /\ b \in Seq(Rows)
        BY <1>3
      <3>2. PICK x \in Seq(Rows) : x = c
        BY <3>1
      <3>3. /\ Len(x \o b) = Len(x) + Len(b)
            /\ \A i \in 1 .. Len(x) + Len(b) :
                   (x \o b)[i] = IF i <= Len(x) THEN x[i] ELSE b[i - Len(x)]
        BY ConcatProperties
      <3> QED
        BY <3>2, <3>3
    <2> QED
      BY <1>4, <2>1
  <1>6. Len(g) + Len(r) + Len(b) = n
    BY <1>1, <1>2, <1>3, <1>5
  <1>7. ASSUME NEW i \in 1 .. Len(c) PROVE c[i] = <<query, i>>
    <2>1. i \in 1 .. Len(c) + Len(b) /\ i \in 1 .. n /\ i <= Len(c)
      BY <1>1, <1>3, <1>6
    <2>2. run[i] = c[i]
      BY <1>5, <2>1
    <2> QED
      BY <1>2, <2>1, <2>2
  <1>8. ASSUME NEW j \in 1 .. Len(g) PROVE g[j] = <<query, j>>
    <2>1. j \in 1 .. Len(c) /\ j \in 1 .. Len(g) + Len(r) /\ j <= Len(g)
      BY <1>1, <1>3
    <2> QED
      BY <1>3, <1>7, <2>1
  <1>9. ASSUME NEW j \in 1 .. Len(r) PROVE r[j] = <<query, Len(g) + j>>
    <2>1. Len(g) + j \in 1 .. Len(c) /\ ~(Len(g) + j <= Len(g)) /\ (Len(g) + j) - Len(g) = j
      BY <1>1, <1>3
    <2> QED
      BY <1>3, <1>7, <2>1
  <1> QED
    BY <1>6, <1>8, <1>9

\* Rows in order, and after them those that follow the highest.
LEMMA RisesOn ==
    ASSUME NEW c \in Seq(Rows), NEW t \in Seq(Rows), NEW base \in Nat, NEW low \in 0 .. base,
           Rises(c, low, base), \A k \in 1 .. Len(t) : t[k] = <<query, base + k>>
    PROVE  c \o t \in Seq(Rows) /\ Rises(c \o t, low, base + Len(t))
  <1> DEFINE r == c \o t
  <1>1. /\ r \in Seq(Rows) /\ Len(r) = Len(c) + Len(t)
        /\ \A i \in 1 .. Len(c) + Len(t) : r[i] = IF i <= Len(c) THEN c[i] ELSE t[i - Len(c)]
    BY ConcatProperties
  <1>2. Len(c) \in Nat /\ Len(t) \in Nat
    BY LenProperties
  <1> HIDE DEF r
  <1>3. ASSUME NEW i \in 1 .. Len(c)
        PROVE  /\ r[i] = <<query, r[i][2]>> /\ r[i][2] \in 1 .. base
               /\ r[i][2] > (IF i = 1 THEN low ELSE r[i - 1][2])
    <2>1. r[i] = c[i] /\ (i # 1 => r[i - 1] = c[i - 1])
      <3>1. i \in 1 .. Len(c) + Len(t) /\ i <= Len(c)
        BY <1>2
      <3>2. i # 1 => i - 1 \in 1 .. Len(c) + Len(t) /\ i - 1 <= Len(c)
        BY <1>2
      <3> QED
        BY <1>1, <3>1, <3>2
    <2> QED
      BY <2>1 DEF Rises
  <1>4. ASSUME NEW i \in Len(c) + 1 .. Len(c) + Len(t)
        PROVE  r[i] = <<query, base + (i - Len(c))>>
    <2>1. i - Len(c) \in 1 .. Len(t) /\ i \in 1 .. Len(c) + Len(t) /\ ~(i <= Len(c))
      BY <1>2
    <2>2. r[i] = t[i - Len(c)]
      BY <1>1, <2>1
    <2> QED
      BY <2>1, <2>2
  <1>5. ASSUME NEW i \in Len(c) + 1 .. Len(c) + Len(t)
        PROVE  /\ r[i] = <<query, r[i][2]>> /\ r[i][2] \in 1 .. base + Len(t)
               /\ r[i][2] > (IF i = 1 THEN low ELSE r[i - 1][2])
    <2>1. r[i] = <<query, base + (i - Len(c))>>
      BY <1>4
    <2>2. r[i][2] = base + (i - Len(c)) /\ r[i] = <<query, r[i][2]>>
      BY <2>1
    <2>3. i - Len(c) \in 1 .. Len(t) /\ i \in Nat
      BY <1>2
    <2>4. r[i][2] \in 1 .. base + Len(t) /\ r[i][2] > base
      BY <1>2, <2>2, <2>3
    <2>5. CASE i = 1
      BY <2>2, <2>4, <2>5
    <2>6. CASE i # 1 /\ i = Len(c) + 1
      <3>1. i - 1 \in 1 .. Len(c)
        BY <1>2, <2>6
      <3>2. r[i - 1][2] \in 1 .. base
        BY <1>3, <3>1
      <3> QED
        BY <2>2, <2>4, <2>6, <3>2
    <2>7. CASE i # 1 /\ i # Len(c) + 1
      <3>1. i - 1 \in Len(c) + 1 .. Len(c) + Len(t)
        BY <1>2, <2>3, <2>7
      <3>2. r[i - 1] = <<query, base + ((i - 1) - Len(c))>>
        BY <1>4, <3>1
      <3>3. r[i - 1][2] = base + ((i - 1) - Len(c))
        BY <3>2
      <3>4. base + (i - Len(c)) > base + ((i - 1) - Len(c))
        BY <1>2, <2>3
      <3> QED
        BY <2>2, <2>4, <2>7, <3>3, <3>4
    <2> QED
      BY <2>5, <2>6, <2>7
  <1>6. ASSUME NEW i \in 1 .. Len(r)
        PROVE  /\ r[i] = <<query, r[i][2]>> /\ r[i][2] \in 1 .. base + Len(t)
               /\ r[i][2] > (IF i = 1 THEN low ELSE r[i - 1][2])
    <2>1. CASE i \in 1 .. Len(c)
      <3>1. /\ r[i] = <<query, r[i][2]>> /\ r[i][2] \in 1 .. base
            /\ r[i][2] > (IF i = 1 THEN low ELSE r[i - 1][2])
        BY <1>3, <2>1
      <3>2. r[i][2] \in 1 .. base + Len(t)
        BY <1>2, <3>1
      <3> QED
        BY <3>1, <3>2
    <2>2. CASE i \in Len(c) + 1 .. Len(c) + Len(t)
      BY <1>5, <2>2
    <2> QED
      BY <1>1, <1>2, <2>1, <2>2
  <1>7. Rises(r, low, base + Len(t))
    BY <1>6, Zenon DEF Rises
  <1> QED
    BY <1>1, <1>7, Zenon DEF r

LEMMA BufferTyped == IInv => Buffer \in Seq(Rows) /\ Len(Buffer) = Buffered
  <1> SUFFICES ASSUME IInv PROVE Buffer \in Seq(Rows) /\ Len(Buffer) = Buffered
    OBVIOUS
  <1>1. Buffer \in Seq(Rows)
    BY Facts
  <1>2. \A k \in cursor.index + 1 .. Len(cursor.batch) : cursor.batch[k] \in Rows
    BY Facts, ElementOfSeq
  <1>3. cursor.index + 1 \in Int /\ Len(cursor.batch) \in Int
    BY Facts
  <1>4. Len(Buffer) = IF cursor.index + 1 <= Len(cursor.batch)
                      THEN Len(cursor.batch) - (cursor.index + 1) + 1 ELSE 0
    BY <1>2, <1>3, SubSeqProperties DEF Buffer
  <1>5. Len(cursor.batch) \in Nat /\ cursor.index \in 0 .. Len(cursor.batch)
    BY Facts
  <1>6. Len(Buffer) = Len(cursor.batch) - cursor.index
    BY <1>4, <1>5
  <1> QED
    BY <1>1, <1>6 DEF Buffered

\* What a call returns is what RowStream delivers.
LEMMA Delivered ==
    ASSUME RInv, IInv', NEW rows \in Seq(Rows), Answer(rows), stream' = stream, Placed',
           Stream!Last <= stream.read - Buffered',
           Rises(rows, Stream!Last, stream.read - Buffered'),
           ended' => ended \/ (stream.read = total /\ Buffered' = 0)
    PROVE  Stream!Deliver /\ RInv'
  <1> DEFINE last == Stream!Last
             high == stream.read - Buffered'
  <1>1. IInv /\ Rising /\ Finished
    BY DEF RInv
  <1>2. /\ got' = got \o rows /\ call' = NoCall
        /\ UNCHANGED <<statement, query, total, failed, stream>>
    BY DEF Answer
  <1>3. /\ got \in Seq(Rows) /\ stream.read \in 0 .. total /\ total \in Nat
        /\ Len(got) \in Nat /\ Len(rows) \in Nat
    BY <1>1, Facts, LenProperties
  <1>4. Buffer' \in Seq(Rows) /\ Len(Buffer)' = Buffered' /\ Buffered' \in Nat
    <2>1. (Buffer \in Seq(Rows) /\ Len(Buffer) = Buffered)'
      BY BufferTyped, PTL
    <2>2. Len(Buffer') \in Nat
      BY <2>1, LenProperties
    <2> QED
      BY <2>1, <2>2
  <1>5. last \in 0 .. stream.read /\ high \in 0 .. total
    <2>1. last \in Int /\ 0 <= last
      BY <1>1, <1>3, Facts DEF Rising
    <2>2. Buffered' <= stream.read
      BY <1>2 DEF Placed
    <2> QED
      BY <1>3, <1>4, <2>1, <2>2
  <1>6. /\ SubSeq(got', 1, Len(got)) = got
        /\ SubSeq(got', Len(got) + 1, Len(got')) = rows
        /\ Len(got') = Len(got) + Len(rows)
    BY <1>2, <1>3, Split
  <1>7. ~failed => /\ Len(got) + Len(rows) + Buffered' = stream.read
                   /\ \A j \in 1 .. Len(got) : got[j] = <<query, j>>
                   /\ \A j \in 1 .. Len(rows) : rows[j] = <<query, Len(got) + j>>
    <2> SUFFICES ASSUME ~failed
                 PROVE  /\ Len(got) + Len(rows) + Buffered' = stream.read
                        /\ \A j \in 1 .. Len(got) : got[j] = <<query, j>>
                        /\ \A j \in 1 .. Len(rows) : rows[j] = <<query, Len(got) + j>>
      OBVIOUS
    <2>1. (got' \o call'.rows) \o Buffer' = Run(1, stream.read)'
      BY <1>2 DEF IInv, NothingDropped, Buffer
    <2>2. got' \o call'.rows = got \o rows
      <3>1. got \o rows \in Seq(Rows)
        BY <1>3, ConcatProperties
      <3> QED
        BY <1>2, <3>1, ConcatEmptySeq DEF NoCall
    <2>3. Run(1, stream.read)' = Run(1, stream.read)
      BY <1>2 DEF Run
    <2>4. (got \o rows) \o Buffer' = Run(1, stream.read)
      BY <2>1, <2>2, <2>3
    <2>5. stream.read \in Nat
      BY <1>3
    <2>6. /\ Len(got) + Len(rows) + Len(Buffer') = stream.read
          /\ \A j \in 1 .. Len(got) : got[j] = <<query, j>>
          /\ \A j \in 1 .. Len(rows) : rows[j] = <<query, Len(got) + j>>
      <3>1. PICK b \in Seq(Rows) : b = Buffer'
        BY <1>4
      <3>2. (got \o rows) \o b = Run(1, stream.read)
        BY <2>4, <3>1
      <3>3. /\ Len(got) + Len(rows) + Len(b) = stream.read
            /\ \A j \in 1 .. Len(got) : got[j] = <<query, j>>
            /\ \A j \in 1 .. Len(rows) : rows[j] = <<query, Len(got) + j>>
        <4>1. PICK g \in Seq(Rows), n \in Nat : g = got /\ n = stream.read
          BY <1>3, <2>5
        <4>2. Joined(Joined(g, rows), b) = Run(1, n)
          BY <3>2, <4>1 DEF Joined
        <4>3. /\ Len(g) + Len(rows) + Len(b) = n
              /\ \A j \in 1 .. Len(g) : g[j] = <<query, j>>
              /\ \A j \in 1 .. Len(rows) : rows[j] = <<query, Len(g) + j>>
          BY <4>2, Positions
        <4> QED
          BY <4>1, <4>3
      <3> QED
        BY <3>1, <3>3
    <2> QED
      BY <1>4, <2>6
  <1>8. \A j \in 1 .. Len(rows) : /\ rows[j] = <<query, rows[j][2]>>
                                  /\ rows[j][2] \in 1 .. high
                                  /\ rows[j][2] > (IF j = 1 THEN last ELSE rows[j - 1][2])
    BY DEF Rises
  <1>9. ~failed => last = Len(got)
    <2>1. CASE got = <<>>
      BY <2>1, EmptySeq DEF Stream!Last
    <2>2. CASE got # <<>>
      <3>1. Len(got) \in 1 .. Len(got)
        BY <1>3, <2>2, EmptySeq
      <3>2. ~failed => got[Len(got)] = <<query, Len(got)>>
        BY <1>7, <3>1
      <3> QED
        BY <2>2, <3>2 DEF Stream!Last
    <2> QED
      BY <2>1, <2>2
  <1>10. Stream!InOrder(rows)
    <2> SUFFICES ASSUME NEW j \in 1 .. Len(rows)
                 PROVE  LET before == IF j = 1 THEN Stream!Last ELSE rows[j - 1][2]
                        IN /\ rows[j] \in {Stream!Row(i) : i \in 1 .. total}
                           /\ rows[j][2] > before
                           /\ ~failed => rows[j] = Stream!Row(before + 1)
      BY DEF Stream!InOrder
    <2> DEFINE before == IF j = 1 THEN last ELSE rows[j - 1][2]
    <2>1. rows[j] = <<query, rows[j][2]>> /\ rows[j][2] \in 1 .. high /\ rows[j][2] > before
      BY <1>8
    <2>2. rows[j][2] \in 1 .. total
      <3>1. rows[j][2] \in 1 .. high /\ high \in 0 .. total /\ total \in Nat
        BY <1>3, <1>5, <2>1
      <3> HIDE DEF high
      <3> QED
        BY <3>1
    <2>3. rows[j] \in {Stream!Row(i) : i \in 1 .. total}
      BY <2>1, <2>2 DEF Stream!Row
    <2>4. ~failed => before = Len(got) + j - 1
      <3>1. CASE j = 1
        BY <1>3, <1>9, <3>1
      <3>2. CASE j # 1
        <4>1. j - 1 \in 1 .. Len(rows)
          BY <1>3, <3>2
        <4>2. ~failed => rows[j - 1] = <<query, Len(got) + (j - 1)>>
          BY <1>7, <4>1
        <4>3. Len(got) + (j - 1) = Len(got) + j - 1
          BY <1>3
        <4> QED
          BY <3>2, <4>2, <4>3
      <3> QED
        BY <3>1, <3>2
    <2>5. ~failed => rows[j] = Stream!Row(before + 1)
      <3>1. (Len(got) + j - 1) + 1 = Len(got) + j
        BY <1>3
      <3> QED
        BY <1>7, <2>4, <3>1 DEF Stream!Row
    <2> QED
      BY <2>1, <2>3, <2>5
  <1>11. ended' => failed \/ Len(got') = total
    <2> SUFFICES ASSUME ended', ~failed PROVE Len(got') = total
      OBVIOUS
    <2>1. Len(got) + Len(rows) + Buffered' = stream.read
      BY <1>7
    <2>2. CASE ended
      <3>1. Len(got) = total
        BY <1>1, <2>2 DEF Finished
      <3> QED
        BY <1>3, <1>4, <1>6, <2>1, <3>1
    <2>3. CASE stream.read = total /\ Buffered' = 0
      BY <1>3, <1>6, <2>1, <2>3
    <2> QED
      BY <2>2, <2>3
  <1>12. Stream!Deliver
    <2>1. Stream!InOrder(SubSeq(got', Len(got) + 1, Len(got')))
      BY <1>6, <1>10
    <2>2. Stream!Extends(got, got')
      BY <1>3, <1>6 DEF Stream!Extends
    <2> QED
      BY <1>2, <1>11, <2>1, <2>2 DEF Stream!Deliver
  <1>13. Stream!Last' \in 0 .. high
    <2>1. CASE rows = <<>>
      <3>1. got' = got
        BY <1>2, <1>3, <2>1, ConcatEmptySeq
      <3> QED
        BY <1>3, <1>4, <1>5, <3>1 DEF Stream!Last
    <2>2. CASE rows # <<>>
      <3>1. Len(rows) \in 1 .. Len(rows)
        BY <1>3, <2>2, EmptySeq
      <3>2. got'[Len(got')] = rows[Len(rows)]
        <4>1. \A i \in 1 .. Len(got) + Len(rows) :
                  (got \o rows)[i] = IF i <= Len(got) THEN got[i] ELSE rows[i - Len(got)]
          BY <1>3, ConcatProperties
        <4>2. /\ Len(got) + Len(rows) \in 1 .. Len(got) + Len(rows)
              /\ ~(Len(got) + Len(rows) <= Len(got))
              /\ (Len(got) + Len(rows)) - Len(got) = Len(rows)
          BY <1>3, <3>1
        <4>3. (got \o rows)[Len(got) + Len(rows)] = rows[Len(rows)]
          BY <4>1, <4>2
        <4> QED
          BY <1>2, <1>6, <4>3
      <3>3. got' # <<>>
        BY <1>3, <1>6, <3>1, EmptySeq
      <3>4. Stream!Last' = rows[Len(rows)][2]
        BY <3>2, <3>3 DEF Stream!Last
      <3> QED
        BY <1>5, <1>8, <3>1, <3>4
    <2> QED
      BY <2>1, <2>2
  <1>14. Rising'
    <2>1. Len(call'.rows) = 0
      BY <1>2, EmptySeq DEF NoCall
    <2> QED
      BY <1>2, <1>13, <2>1 DEF Rising, Rises
  <1>15. Finished'
    BY <1>1, <1>2, <1>11 DEF Finished
  <1> QED
    BY <1>12, <1>14, <1>15 DEF RInv

\* What the application does not see.
SeenUnchanged == UNCHANGED <<statement, query, total, got, ended, failed>>

\* Rows taken from the buffer follow those the call has.
LEMMA TakingRises ==
    ASSUME RInv, IInv', TakeBuffered
    PROVE  (Stream!Deliver \/ SeenUnchanged) /\ RInv'
  <1> DEFINE taken == SubSeq(cursor.batch, cursor.index + 1, cursor.index + Take)
             rows == call.rows \o taken
             base == stream.read - Buffered
  <1>1. IInv /\ Rising /\ Finished /\ Placed
    BY DEF RInv, Rising
  <1>2. /\ Take \in 1 .. Buffered /\ Buffered \in Nat /\ stream.read \in Nat
        /\ call.rows \in Seq(Rows) /\ cursor.batch \in Seq(Rows)
        /\ Len(cursor.batch) \in Nat /\ cursor.index \in 0 .. Len(cursor.batch)
        /\ Buffered = Len(cursor.batch) - cursor.index
    BY <1>1, Facts, TakeInRange DEF Buffered
  <1>3. base \in Nat /\ Stream!Last \in 0 .. base /\ Rises(call.rows, Stream!Last, base)
    BY <1>1, <1>2 DEF Rising, Placed
  <1>4. /\ cursor'.batch = cursor.batch /\ cursor'.index = cursor.index + Take
        /\ stream' = stream /\ query' = query
    BY <1>1 DEF TakeBuffered, Advanced, Answer, IInv, TypeOK, CursorType
  <1>5. /\ taken \in Seq(Rows) /\ Len(taken) = Take
        /\ \A k \in 1 .. Len(taken) : taken[k] = <<query, base + k>>
    <2>1. \A k \in cursor.index + 1 .. cursor.index + Take : cursor.batch[k] \in Rows
      <3>1. ASSUME NEW k \in cursor.index + 1 .. cursor.index + Take
            PROVE  k \in 1 .. Len(cursor.batch)
        BY <1>2
      <3> QED
        BY <1>2, <3>1, ElementOfSeq
    <2>2. cursor.index + 1 \in Int /\ cursor.index + Take \in Int /\ Take \in Nat
          /\ (cursor.index + Take) - (cursor.index + 1) + 1 = Take
          /\ cursor.index + 1 <= cursor.index + Take
      <3>1. cursor.index \in Nat /\ Take \in Nat /\ Take >= 1
        BY <1>2
      <3> QED
        BY <3>1
    <2> HIDE DEF taken
    <2>3. /\ taken \in Seq(Rows)
          /\ Len(taken) = Take
          /\ \A k \in 1 .. Take : taken[k] = cursor.batch[(cursor.index + 1) + k - 1]
      <3>1. /\ taken \in Seq(Rows)
            /\ Len(taken) = IF cursor.index + 1 <= cursor.index + Take
                            THEN (cursor.index + Take) - (cursor.index + 1) + 1 ELSE 0
            /\ \A k \in 1 .. (cursor.index + Take) - (cursor.index + 1) + 1 :
                   taken[k] = cursor.batch[(cursor.index + 1) + k - 1]
        BY <2>1, <2>2, SubSeqProperties DEF taken
      <3> QED
        BY <2>2, <3>1
    <2>4. ASSUME NEW k \in 1 .. Take PROVE taken[k] = <<query, base + k>>
      <3>1. (cursor.index + 1) + k - 1 = cursor.index + k
            /\ cursor.index + k \in (cursor.index + 1) .. Len(cursor.batch)
            /\ (stream.read - Len(cursor.batch)) + (cursor.index + k) = base + k
        <4>1. /\ cursor.index \in Nat /\ Len(cursor.batch) \in Nat /\ k \in Nat /\ k >= 1
              /\ cursor.index + k <= Len(cursor.batch) /\ stream.read \in Nat
          <5>1. Take \in Nat /\ Take <= Len(cursor.batch) - cursor.index /\ k <= Take
            BY <1>2
          <5>2. k \in Nat /\ k >= 1
            BY <1>2
          <5> QED
            BY <1>2, <5>1, <5>2
        <4>2. base = stream.read - (Len(cursor.batch) - cursor.index)
          BY <1>2
        <4> HIDE DEF base
        <4>3. (cursor.index + 1) + k - 1 = cursor.index + k
          BY <4>1
        <4>4. cursor.index + k \in (cursor.index + 1) .. Len(cursor.batch)
          BY <4>1
        <4>5. (stream.read - Len(cursor.batch)) + (cursor.index + k) = base + k
          BY <4>1, <4>2
        <4> QED
          BY <4>3, <4>4, <4>5, Zenon
      <3>2. cursor.batch[cursor.index + k]
               = <<query, (stream.read - Len(cursor.batch)) + (cursor.index + k)>>
        BY <1>1, <3>1 DEF Placed
      <3> QED
        BY <2>3, <3>1, <3>2
    <2> QED
      BY <2>3, <2>4
  <1>6. rows \in Seq(Rows) /\ Rises(rows, Stream!Last, base + Take)
    <2> HIDE DEF taken, base
    <2> QED
      BY <1>2, <1>3, <1>5, RisesOn
  <1>7. Buffered' = Buffered - Take /\ base + Take = stream.read - Buffered'
    BY <1>2, <1>4 DEF Buffered
  <1>8. Placed'
    <2>1. \A k \in (cursor.index + Take + 1) .. Len(cursor.batch) :
              k \in (cursor.index + 1) .. Len(cursor.batch)
      BY <1>2
    <2>2. Buffered' <= stream.read
      BY <1>1, <1>2, <1>7 DEF Placed
    <2> HIDE DEF base
    <2> QED
      BY <1>1, <1>4, <2>1, <2>2 DEF Placed
  <1>9. Stream!Last <= stream.read - Buffered'
    BY <1>2, <1>3, <1>7
  <1>10. CASE call.op = "one"
    <2>1. Answer(rows) /\ stream' = stream
      BY <1>10 DEF TakeBuffered
    <2>2. ~(Len(rows) < call.want)
      <3>1. Len(call.rows) = 0 /\ call.want = 1
        BY <1>1, <1>10, EmptySeq DEF IInv, Shapes
      <3>2. Len(rows) = Len(call.rows) + Len(taken)
        BY <1>2, <1>5, ConcatProperties
      <3> HIDE DEF rows, taken
      <3> QED
        BY <1>2, <1>5, <3>1, <3>2
    <2>3. ended' => ended
      BY <1>10, <2>1, <2>2 DEF Answer
    <2>4. Rises(rows, Stream!Last, stream.read - Buffered')
      BY <1>6, <1>7
    <2> HIDE DEF rows, base
    <2> QED
      BY <1>6, <1>8, <1>9, <2>1, <2>3, <2>4, Delivered
  <1>11. CASE call.op # "one"
    <2>1. call' = [call EXCEPT !.rows = rows] /\ SeenUnchanged
      BY <1>11 DEF TakeBuffered, SeenUnchanged
    <2>2. call'.rows = rows
      <3> HIDE DEF rows
      <3> QED
        BY <1>1, <2>1 DEF IInv, TypeOK, CallType
    <2>3. Stream!Last' = Stream!Last /\ Stream!Last \in 0 .. stream.read - Buffered'
      <3>1. Stream!Last' = Stream!Last
        BY <2>1 DEF Stream!Last, SeenUnchanged
      <3>2. base + Take \in Int /\ \A x \in 0 .. base : x \in 0 .. base + Take
        BY <1>2, <1>3
      <3> HIDE DEF base
      <3> QED
        BY <1>3, <1>7, <3>1, <3>2
    <2>4. Rises(call.rows, Stream!Last, stream.read - Buffered)'
      <3>1. Rises(rows, Stream!Last, stream.read - Buffered')
        BY <1>6, <1>7
      <3> HIDE DEF rows
      <3> QED
        BY <1>4, <2>2, <2>3, <3>1 DEF Rises
    <2>5. Finished'
      BY <1>1, <1>4, <2>1 DEF Finished, SeenUnchanged
    <2>6. Rising'
      BY <1>4, <1>8, <2>3, <2>4 DEF Rising
    <2> QED
      BY <2>1, <2>5, <2>6 DEF RInv
  <1> QED
    BY <1>10, <1>11

\* A call that returns what it has, and leaves the buffer.
LEMMA ReturningRises ==
    ASSUME RInv, IInv', Answer(call.rows), stream' = stream,
           cursor'.batch = cursor.batch, cursor'.index = cursor.index,
           ended' => ended \/ (stream.read = total /\ Buffered = 0)
    PROVE  Stream!Deliver /\ RInv'
  <1>1. Rising /\ call.rows \in Seq(Rows) /\ stream.read \in Nat /\ Buffered \in Nat
    BY Facts DEF RInv
  <1>2. Buffered' = Buffered /\ query' = query
    BY DEF Buffered, Answer
  <1>3. Placed'
    BY <1>1, <1>2 DEF Rising, Placed
  <1>4. /\ Stream!Last <= stream.read - Buffered'
        /\ Rises(call.rows, Stream!Last, stream.read - Buffered')
    BY <1>1, <1>2 DEF Rising
  <1>5. ended' => ended \/ (stream.read = total /\ Buffered' = 0)
    BY <1>2
  <1> QED
    BY <1>1, <1>3, <1>4, <1>5, Delivered

\* A call that raises: rows are skipped, and the buffer was used up.
LEMMA RaisingRises ==
    ASSUME RInv, IInv', Raise, NeedsBatch, NEW n \in Nat,
           stream' = [stream EXCEPT !.read = @ + n],
           NEW opened, cursor' = [cursor EXCEPT !.open = opened]
    PROVE  Stream!Raise /\ RInv'
  <1>1. Rising /\ Finished /\ IInv
    BY DEF RInv
  <1>2. /\ cursor'.batch = cursor.batch /\ cursor'.index = cursor.index
        /\ stream'.read = stream.read + n /\ stream'.described = stream.described
    BY <1>1 DEF IInv, TypeOK, CursorType, StreamType
  <1>3. /\ query' = query /\ total' = total /\ got' = got /\ ended' = ended
        /\ failed' = TRUE /\ call'.rows = <<>>
    BY DEF Raise, NoCall
  <1>4. /\ Buffered = 0 /\ Buffered' = 0 /\ stream.read \in Nat
        /\ Len(cursor.batch) \in Nat /\ cursor.index \in 0 .. Len(cursor.batch)
        /\ Len(cursor.batch) - cursor.index = 0
    BY <1>1, <1>2, Facts DEF NeedsBatch, Buffered
  <1>5. Placed'
    BY <1>2, <1>4 DEF Placed
  <1>6. Stream!Last' \in 0 .. stream'.read - Buffered'
    <2>1. Stream!Last' = Stream!Last
      BY <1>3 DEF Stream!Last
    <2>2. Stream!Last \in 0 .. stream.read
      BY <1>1, <1>4 DEF Rising
    <2> QED
      BY <1>2, <1>4, <2>1, <2>2
  <1>7. Rising'
    <2>1. Len(<<>>) = 0
      OBVIOUS
    <2> QED
      BY <1>3, <1>5, <1>6, <2>1 DEF Rising, Rises
  <1>8. Finished'
    BY <1>1, <1>2, <1>3 DEF Finished
  <1>9. Stream!Raise
    BY DEF Raise, Stream!Raise
  <1> QED
    BY <1>7, <1>8, <1>9 DEF RInv

\* A statement starts anew, or what is left of the last result may follow what
\* was delivered of it.
LEMMA ExecutingRises ==
    ASSUME RInv, IInv', NEW n \in 0 .. MaxRows, Execute(n)
    PROVE  Stream!Execute /\ RInv'
  <1>1. IInv /\ Rising /\ Finished
    BY DEF RInv
  <1>2. /\ statement' = statement + 1 /\ ended' = FALSE /\ cursor' = Reset
        /\ call' = call /\ call.rows = <<>>
    BY <1>1, ExecuteCases
  <1>3. /\ cursor'.index = 0 /\ Len(cursor'.batch) = 0 /\ Buffered' = 0
    BY <1>2 DEF Reset, Buffered
  <1>4. /\ stream.read \in Nat /\ Buffered \in Nat /\ MaxRows \in Nat
        /\ Stream!Last \in 0 .. (stream.read - Buffered)
    BY <1>1, Facts DEF Rising
  <1>5. Stream!Execute /\ Stream!Last' \in 0 .. stream'.read /\ stream'.read \in Nat /\ Finished'
    <2>1. CASE /\ query' = statement' /\ got' = <<>>
               /\ total' \in 0 .. MaxRows /\ failed' \in BOOLEAN
               /\ stream' \in StreamType /\ stream'.read = 0
               /\ stream'.described = FALSE => total' = 0
      <3>1. Stream!Execute
        BY <1>2, <1>4, <2>1 DEF Stream!Execute
      <3>2. Stream!Last' \in 0 .. stream'.read /\ stream'.read \in Nat
        BY <2>1 DEF Stream!Last
      <3>3. stream'.described \in BOOLEAN
        BY <2>1 DEF StreamType
      <3>4. Finished'
        BY <1>2, <2>1, <3>3 DEF Finished
      <3> QED
        BY <3>1, <3>2, <3>4
    <2>2. CASE failed' = TRUE /\ UNCHANGED <<query, total, got, stream>>
      <3>1. Stream!Execute
        BY <1>2, <2>2 DEF Stream!Execute
      <3>2. Stream!Last' = Stream!Last
        BY <2>2 DEF Stream!Last
      <3>3. Stream!Last' \in 0 .. stream'.read /\ stream'.read \in Nat
        BY <1>4, <2>2, <3>2
      <3>4. Finished'
        BY <1>1, <1>2, <2>2 DEF Finished
      <3> QED
        BY <3>1, <3>3, <3>4
    <2> QED
      BY <1>1, <2>1, <2>2, ExecuteCases
  <1>6. Placed'
    BY <1>3, <1>5 DEF Placed
  <1>7. Rising'
    <2>1. Len(call'.rows) = 0
      BY <1>2
    <2>2. Rises(call.rows, Stream!Last, stream.read - Buffered)'
      BY <2>1 DEF Rises
    <2>3. stream'.read - Buffered' = stream'.read
      BY <1>3, <1>5
    <2> QED
      BY <1>5, <1>6, <2>2, <2>3 DEF Rising
  <1> QED
    BY <1>5, <1>7 DEF RInv

\* A batch that follows what was read before.
LEMMA ReadingRises ==
    ASSUME RInv, IInv', NEW n \in Nat, ReadBatch(n)
    PROVE  SeenUnchanged /\ RInv'
  <1> DEFINE batch == Run(stream.read + 1, stream.read + n)
  <1>1. IInv /\ Rising /\ Finished
    BY DEF RInv
  <1>2. /\ SeenUnchanged /\ call' = call
        /\ cursor' = [open |-> TRUE, batch |-> batch, index |-> 0]
        /\ Buffered = 0 /\ stream.read \in Nat /\ n \in Nat
    BY <1>1, Facts DEF ReadBatch, NeedsBatch, Filled, SeenUnchanged
  <1>3. stream'.read = stream.read + n /\ stream'.described = stream.described
    BY <1>1 DEF ReadBatch, IInv, TypeOK, StreamType
  <1>4. Len(batch) = n /\ \A k \in 1 .. n : batch[k] = <<query, stream.read + k>>
    <2>1. /\ stream.read + 1 \in Nat /\ stream.read + n \in Nat
          /\ stream.read + 1 <= (stream.read + n) + 1
          /\ (stream.read + n) - (stream.read + 1) + 1 = n
      BY <1>2
    <2>2. /\ Len(batch) = (stream.read + n) - (stream.read + 1) + 1
          /\ \A k \in 1 .. ((stream.read + n) - (stream.read + 1) + 1) :
                 batch[k] = <<query, (stream.read + 1) + k - 1>>
      BY <2>1, RunIsSeq
    <2> HIDE DEF batch
    <2>3. Len(batch) = n /\ \A k \in 1 .. n : batch[k] = <<query, (stream.read + 1) + k - 1>>
      BY <2>1, <2>2
    <2>4. \A k \in 1 .. n : (stream.read + 1) + k - 1 = stream.read + k
      BY <1>2
    <2> QED
      BY <2>3, <2>4
  <1> HIDE DEF batch
  <1>5. /\ cursor'.batch = batch /\ cursor'.index = 0 /\ Buffered' = n
        /\ stream'.read - Buffered' = stream.read
    BY <1>2, <1>3, <1>4 DEF Buffered
  <1>6. Placed'
    <2>1. \A k \in 1 .. n : (stream'.read - n) + k = stream.read + k
      BY <1>2, <1>3
    <2>2. Buffered' <= stream'.read
      BY <1>2, <1>3, <1>5
    <2>3. ASSUME NEW k \in (0 + 1) .. n
          PROVE  batch[k] = <<query', (stream'.read - n) + k>>
      <3>1. k \in 1 .. n /\ query' = query
        BY <1>2 DEF SeenUnchanged
      <3> QED
        BY <1>4, <2>1, <3>1
    <2> QED
      BY <1>4, <1>5, <2>2, <2>3 DEF Placed
  <1>7. /\ Stream!Last' = Stream!Last /\ Stream!Last \in 0 .. stream.read
        /\ Rises(call.rows, Stream!Last, stream.read)
    <2>1. Stream!Last' = Stream!Last
      BY <1>2 DEF Stream!Last, SeenUnchanged
    <2>2. stream.read - Buffered = stream.read
      BY <1>2
    <2> QED
      BY <1>1, <2>1, <2>2 DEF Rising
  <1>8. Rising'
    BY <1>2, <1>5, <1>6, <1>7 DEF Rising, Rises, SeenUnchanged
  <1>9. Finished'
    BY <1>1, <1>2, <1>3 DEF Finished, SeenUnchanged
  <1> QED
    BY <1>2, <1>8, <1>9 DEF RInv

\* Nothing but the reader's state, or a new call.
LEMMA OthersRise ==
    ASSUME RInv, IInv', SeenUnchanged, stream'.read = stream.read,
           stream'.described = stream.described,
           cursor'.batch = cursor.batch, cursor'.index = cursor.index,
           call'.rows = call.rows \/ call'.rows = <<>>
    PROVE  RInv'
  <1>1. Rising /\ Finished
    BY DEF RInv
  <1>2. Buffered' = Buffered
    BY DEF Buffered
  <1>3. Placed'
    BY <1>1, <1>2 DEF Rising, Placed, SeenUnchanged
  <1>4. Stream!Last' = Stream!Last
    BY DEF Stream!Last, SeenUnchanged
  <1>5. Rises(call.rows, Stream!Last, stream.read - Buffered)'
    <2>1. CASE call'.rows = call.rows
      BY <1>1, <1>2, <1>4, <2>1 DEF Rising, Rises, SeenUnchanged
    <2>2. CASE call'.rows = <<>>
      BY <2>2, EmptySeq DEF Rises
    <2> QED
      BY <2>1, <2>2
  <1>6. Rising'
    BY <1>1, <1>2, <1>3, <1>4, <1>5 DEF Rising
  <1>7. Finished'
    BY <1>1 DEF Finished, SeenUnchanged
  <1> QED
    BY <1>6, <1>7 DEF RInv

LEMMA StepImplements ==
    ASSUME RInv, [Next]_vars
    PROVE  (Stream!Next \/ SeenUnchanged) /\ RInv'
  <1>1. IInv /\ IInv' /\ Rising /\ Finished
    BY Inductive DEF RInv
  <1>2. ASSUME NEW n \in 0 .. MaxRows, Execute(n)
        PROVE  Stream!Execute /\ RInv'
    BY <1>1, <1>2, ExecutingRises
  <1>3. CASE FetchOne \/ FetchAll \/ \E size \in Sizes : FetchMany(size)
    <2>1. /\ call'.rows = <<>> /\ SeenUnchanged /\ stream' = stream /\ cursor' = cursor
      BY <1>3 DEF FetchOne, FetchAll, FetchMany, Fetch, SeenUnchanged
    <2> QED
      BY <1>1, <2>1, OthersRise
  <1>4. CASE TakeBuffered
    BY <1>1, <1>4, TakingRises DEF Stream!Next
  <1>5. CASE FetchManyReturns
    <2>1. /\ Answer(call.rows) /\ stream' = stream
          /\ cursor'.batch = cursor.batch /\ cursor'.index = cursor.index
      BY <1>5 DEF FetchManyReturns
    <2>2. ended' => ended
      <3>1. call.op = "many" /\ Len(call.rows) >= call.want
        BY <1>5 DEF FetchManyReturns, Satisfied
      <3>2. call.want \in Nat /\ Len(call.rows) \in Nat
        BY <1>1, LenProperties, Facts DEF IInv, TypeOK, CallType
      <3>3. call.op # "all" /\ ~(Len(call.rows) < call.want)
        BY <3>1, <3>2
      <3>4. ended' = (ended \/ call.op = "all" \/ Len(call.rows) < call.want)
        BY <2>1 DEF Answer
      <3> QED
        BY <3>3, <3>4, Zenon
    <2> QED
      BY <1>1, <2>1, <2>2, ReturningRises DEF Stream!Next
  <1>6. CASE NoResult
    <2>1. /\ Answer(call.rows) /\ stream' = stream /\ Buffered = 0 /\ ~stream.described
          /\ cursor'.batch = cursor.batch /\ cursor'.index = cursor.index
      BY <1>6 DEF NoResult, NeedsBatch
    <2>2. stream.read = total
      BY <1>1, <2>1, Facts DEF Finished
    <2> QED
      BY <1>1, <2>1, <2>2, ReturningRises DEF Stream!Next
  <1>7. CASE StreamEnds
    <2>1. /\ Answer(call.rows) /\ stream' = stream /\ Buffered = 0 /\ stream.read = total
          /\ cursor'.batch = cursor.batch /\ cursor'.index = cursor.index
      BY <1>1, <1>7 DEF StreamEnds, EndOfStream, NeedsBatch, IInv, TypeOK, CursorType
    <2> QED
      BY <1>1, <2>1, ReturningRises DEF Stream!Next
  <1>8. CASE ReadBlank
    <2>1. /\ SeenUnchanged /\ call' = call
          /\ stream'.read = stream.read /\ stream'.described = stream.described
          /\ cursor'.batch = cursor.batch /\ cursor'.index = cursor.index
      BY <1>1, <1>8 DEF ReadBlank, SeenUnchanged, IInv, TypeOK, CursorType, StreamType
    <2> QED
      BY <1>1, <2>1, OthersRise
  <1>9. ASSUME NEW n \in 1 .. MaxRows, ReadBatch(n)
        PROVE  SeenUnchanged /\ RInv'
    <2>1. n \in Nat
      OBVIOUS
    <2> QED
      BY <1>1, <1>9, <2>1, ReadingRises
  <1>10. ASSUME NEW n \in 0 .. MaxRows, ReadRaises(n)
         PROVE  Stream!Raise /\ RInv'
    <2>1. PICK opened \in {cursor.open, TRUE} : cursor' = [cursor EXCEPT !.open = opened]
      BY <1>10 DEF ReadRaises
    <2>2. Raise /\ NeedsBatch /\ stream' = [stream EXCEPT !.read = @ + n] /\ n \in Nat
      BY <1>10 DEF ReadRaises
    <2> QED
      BY <1>1, <2>1, <2>2, RaisingRises
  <1>11. ASSUME NEW n \in 0 .. MaxRows, ConversionRaises(n)
         PROVE  Stream!Raise /\ RInv'
    <2>1. /\ Raise /\ NeedsBatch /\ stream' = [stream EXCEPT !.read = @ + n] /\ n \in Nat
          /\ cursor' = [cursor EXCEPT !.open = TRUE]
      BY <1>11 DEF ConversionRaises
    <2> QED
      BY <1>1, <2>1, RaisingRises
  <1>12. CASE UNCHANGED vars
    <2>1. SeenUnchanged /\ stream' = stream /\ cursor' = cursor /\ call' = call
      BY <1>12 DEF vars, SeenUnchanged
    <2> QED
      BY <1>1, <2>1, OthersRise
  <1> QED
    BY <1>2, <1>3, <1>4, <1>5, <1>6, <1>7, <1>8, <1>9, <1>10, <1>11, <1>12
    DEF Next, Progress, Stream!Next

\* The cursor keeps the promise of RowStream: whatever the batches and wherever a
\* call raises, the application sees rows of one result in order, each once, and
\* an end only where the result ends; and the result is that of its statement,
\* unless execute() raised (MonetDBCursor).
THEOREM CursorImplements == Spec => Implements
  <1>1. Init => Stream!Init /\ RInv
    <2> SUFFICES ASSUME Init PROVE Stream!Init /\ RInv
      OBVIOUS
    <2>1. Stream!Init
      BY DEF Init, Stream!Init
    <2>2. Buffered = 0 /\ Len(call.rows) = 0 /\ Len(cursor.batch) = 0 /\ stream.read = 0
          /\ cursor.index = 0
      BY DEF Init, Reset, NoCall, Buffered
    <2>3. Stream!Last = 0
      BY DEF Init, Stream!Last
    <2>4. Rising
      BY <2>2, <2>3 DEF Rising, Placed, Rises
    <2>5. Finished
      BY DEF Init, Finished
    <2> QED
      BY <2>1, <2>4, <2>5, Initially DEF RInv
  <1>2. RInv /\ [Next]_vars => RInv' /\ [Stream!Next]_Stream!vars
    BY StepImplements DEF SeenUnchanged, Stream!vars
  <1> QED
    BY <1>1, <1>2, PTL DEF Spec, Implements, Stream!Spec
=============================================================================
