--------------------------- MODULE ExecutableProofs ---------------------------
(***************************************************************************)
(* Proofs about EventFileReader, for every chunk size and every file: what *)
(* the chunks deliver, and when the analysis ends or refuses the file.     *)
(* Then about Executable, of which the reader is a part: finding the       *)
(* analyzers and reading the file touch nothing of each other, so that     *)
(* every behaviour of the executable is one of each, with stuttering.      *)
(***************************************************************************)
EXTENDS Executable, AnalyzerRulesProofs

(* The reader.                                                             *)

\* A file's signatures are a sequence, with a length that the bound respects.
LEMMA SignaturesType ==
    ASSUME NEW g \in Signatures
    PROVE  Len(g) \in 0 .. MaxRecords /\ DOMAIN g = 1 .. Len(g)
<1>1. PICK n \in 0 .. MaxRecords : g \in [1 .. n -> BOOLEAN]
  BY DEF Signatures
<1>2. n \in Nat
  BY MaxRecordsAssumption
<1>3. g \in Seq(BOOLEAN) /\ Len(g) = n
  BY <1>1, <1>2
<1> QED
  BY <1>1, <1>3

-----------------------------------------------------------------------------
(* The strengthening: where the cursor stands in the file.                 *)

\* What the constructor's initializers leave.
NewInv ==
    phase = "new" =>
        /\ position = 0
        /\ bufferCap = BufferCap
        /\ handled = <<>>

\* All chunks so far were full.
FullChunks(n) == \E k \in 0 .. n : n = k * BufferCap

\* The chunk holds the bufferCap records before position, and what has been
\* handled is what lies before the cursor.  Only the last chunk is short, and
\* behind it nothing can be read.
ChunkInv ==
    phase \in {"opened", "reading"} =>
        /\ bufferCursor <= bufferCap
        /\ bufferCap <= position
        /\ Len(handled) = position - bufferCap + bufferCursor
        /\ \A i \in 0 .. bufferCap - 1 : buffer[i] = position - bufferCap + i + 1
        /\ IF isDoneReading
             THEN position = file.readable
             ELSE bufferCap = BufferCap /\ FullChunks(position)

PositionInv == position <= file.readable /\ file.readable <= Len(file.good)

IInv == /\ TypeOK /\ NewInv /\ ChunkInv /\ PositionInv
        /\ HandledInOrder /\ DoneSawEverything /\ CorruptJustified

\* The initial state.
LEMMA InitIInv == Init => IInv
<1> SUFFICES ASSUME Init PROVE IInv
  OBVIOUS
<1> USE BufferCapAssumption, MaxRecordsAssumption
<1>1. file \in Files /\ file.readable <= Len(file.good) /\ file.readable \in Nat
  <2>1. <<>> \in Signatures
    <3>1. <<>> \in [1 .. 0 -> BOOLEAN] /\ 0 \in 0 .. MaxRecords
      OBVIOUS
    <3> QED
      BY <3>1 DEF Signatures
  <2>2. file = [header |-> 0, good |-> <<>>, readable |-> 0]
    BY DEF Init, NoFile
  <2> QED
    BY <2>1, <2>2 DEF Files, HeaderFields
<1>2. TypeOK
  <2>1. /\ phase \in {"new", "opened", "reading", "done", "corrupt", "aborted"}
        /\ position \in 0 .. MaxRecords
        /\ bufferCap \in 0 .. BufferCap /\ bufferCursor \in 0 .. BufferCap
    <3>1. phase = "new" /\ position = 0 /\ bufferCap = BufferCap /\ bufferCursor = BufferCap
      BY DEF Init
    <3> QED
      BY <3>1
  <2>2. buffer \in [0 .. BufferCap - 1 -> 0 .. MaxRecords]
    BY DEF Init, NoRecord
  <2>3. handled \in Seq(1 .. MaxRecords)
    BY DEF Init
  <2>4. isDoneReading \in BOOLEAN
    BY Zenon DEF Init
  <2> QED
    BY <1>1, <2>1, <2>2, <2>3, <2>4 DEF TypeOK
<1> QED
  BY <1>1, <1>2 DEF Init, IInv, NewInv, ChunkInv, PositionInv, HandledInOrder,
                    DoneSawEverything, CorruptJustified

\* Reading a chunk of f, when all that was read before it has been handled.
LEMMA ReadNextChunkIInv ==
    ASSUME NEW f \in Files, f.readable <= Len(f.good), position <= f.readable,
           TypeOK, ReadNextChunk(f), FullChunks(position),
           bufferCap = BufferCap, Len(handled) = position,
           phase' \in {"opened", "reading"}, file' = f, handled' = handled
    PROVE  TypeOK' /\ ChunkInv' /\ PositionInv'
<1> USE BufferCapAssumption, MaxRecordsAssumption
<1> DEFINE n == IF f.readable - position < bufferCap
                THEN f.readable - position ELSE bufferCap
<1>1. /\ f.readable \in 0 .. MaxRecords /\ position \in 0 .. MaxRecords
      /\ position <= f.readable
  BY DEF TypeOK, Files
<1>2. n \in 0 .. BufferCap /\ n <= f.readable - position
  BY <1>1
<1>3. /\ position' = position + n
      /\ bufferCap' = n
      /\ bufferCursor' = 0
      /\ isDoneReading' = (n < bufferCap)
      /\ buffer' = [i \in DOMAIN buffer |-> IF i < n THEN position + i + 1 ELSE buffer[i]]
  BY <1>2 DEF ReadNextChunk, ChunkSize, IsLastChunk, FirstSlot
<1>4. DOMAIN buffer = 0 .. BufferCap - 1
  BY DEF TypeOK
<1> HIDE DEF n
<1>5. buffer' \in [0 .. BufferCap - 1 -> 0 .. MaxRecords]
  <2>1. ASSUME NEW i \in 0 .. BufferCap - 1
        PROVE  (IF i < n THEN position + i + 1 ELSE buffer[i]) \in 0 .. MaxRecords
    BY <1>1, <1>2 DEF TypeOK
  <2> QED
    BY <1>3, <1>4, <2>1
<1>6. TypeOK'
  <2>1. /\ position' \in 0 .. MaxRecords /\ bufferCap' \in 0 .. BufferCap
        /\ bufferCursor' \in 0 .. BufferCap
    BY <1>1, <1>2, <1>3
  <2>2. isDoneReading' \in BOOLEAN
    BY <1>1, <1>2, <1>3
  <2>3. phase' \in {"new", "opened", "reading", "done", "corrupt", "aborted"}
    OBVIOUS
  <2>4. handled' \in Seq(1 .. MaxRecords) /\ file' \in Files
    BY DEF TypeOK
  <2> QED
    BY <1>5, <2>1, <2>2, <2>3, <2>4 DEF TypeOK
<1>7. PositionInv'
  BY <1>1, <1>2, <1>3 DEF PositionInv
<1>8. ChunkInv'
  <2>1. \A i \in 0 .. n - 1 : buffer'[i] = position + i + 1
    BY <1>2, <1>3, <1>4
  <2>2. isDoneReading' => position' = file'.readable
    <3>1. isDoneReading' => n < bufferCap
      BY <1>3
    <3>2. n < bufferCap => n = f.readable - position
      BY DEF n
    <3> QED
      BY <1>1, <1>2, <1>3, <3>1, <3>2
  <2>3. ~isDoneReading' => n = BufferCap
    BY <1>1, <1>3 DEF n
  <2>4. ~isDoneReading' => FullChunks(position')
    <3>1. SUFFICES ASSUME ~isDoneReading' PROVE FullChunks(position')
      OBVIOUS
    <3>2. PICK k \in 0 .. position : position = k * BufferCap
      BY DEF FullChunks
    <3>3. position' = position + BufferCap
      BY <1>3, <2>3, <3>1
    <3>4. (k + 1) * BufferCap = k * BufferCap + BufferCap
      BY <1>1
    <3>5. k + 1 \in 0 .. position' /\ position' = (k + 1) * BufferCap
      BY <1>1, <3>2, <3>3, <3>4
    <3> QED
      BY <3>5 DEF FullChunks
  <2> QED
    BY <1>1, <1>2, <1>3, <2>1, <2>2, <2>3, <2>4 DEF ChunkInv
<1> QED
  BY <1>6, <1>7, <1>8

LEMMA OpenIInv ==
    ASSUME IInv, NEW f \in ReadableFiles, Open(f) PROVE IInv'
<1> USE BufferCapAssumption, MaxRecordsAssumption
<1>1. f \in Files /\ f.readable <= Len(f.good) /\ f.readable \in Nat
  BY DEF ReadableFiles, Files
<1>2. phase = "new" /\ file' = f /\ handled' = handled
  BY DEF Open
<1>3. /\ position = 0 /\ bufferCap = BufferCap /\ handled = <<>>
      /\ position <= f.readable
  BY <1>1, <1>2 DEF IInv, NewInv
<1>4. HandledInOrder'
  BY <1>2, <1>3 DEF HandledInOrder
<1>5. CASE f.header < HeaderFields
  <2>1. /\ phase' = "aborted"
        /\ UNCHANGED <<position, buffer, bufferCap, bufferCursor, isDoneReading>>
    BY <1>5 DEF Open
  <2>2. TypeOK'
    BY <1>1, <1>2, <2>1 DEF IInv, TypeOK
  <2>3. PositionInv'
    BY <1>1, <1>2, <1>3, <2>1 DEF PositionInv
  <2> QED
    BY <1>4, <2>1, <2>2, <2>3 DEF IInv, NewInv, ChunkInv, DoneSawEverything, CorruptJustified
<1>6. CASE ~(f.header < HeaderFields)
  <2>1. ReadNextChunk(f) /\ phase' = "opened"
    BY <1>6 DEF Open
  <2>2. FullChunks(position)
    BY <1>3 DEF FullChunks
  <2>3. Len(handled) = position
    BY <1>3
  <2>4. TypeOK' /\ ChunkInv' /\ PositionInv'
    BY <1>1, <1>2, <1>3, <2>1, <2>2, <2>3, ReadNextChunkIInv DEF IInv
  <2> QED
    BY <1>4, <2>1, <2>4 DEF IInv, NewInv, DoneSawEverything, CorruptJustified
<1> QED
  BY <1>5, <1>6

LEMMA NothingToDoIInv ==
    ASSUME IInv, NothingToDo PROVE IInv'
BY DEF NothingToDo, IInv, TypeOK, NewInv, ChunkInv, PositionInv, HandledInOrder,
       DoneSawEverything, CorruptJustified

LEMMA StartUpIInv ==
    ASSUME IInv, StartUp PROVE IInv'
BY DEF StartUp, IInv, TypeOK, NewInv, ChunkInv, PositionInv, HandledInOrder,
       DoneSawEverything, CorruptJustified

LEMMA RefillIInv ==
    ASSUME IInv, Refill PROVE IInv'
<1> USE BufferCapAssumption, MaxRecordsAssumption
<1>1. ~isDoneReading /\ bufferCursor = bufferCap
  BY DEF Refill, Done
<1>2. /\ ReadNextChunk(file) /\ phase' = "reading" /\ UNCHANGED <<file, handled>>
      /\ bufferCap = BufferCap /\ FullChunks(position)
  BY <1>1 DEF Refill, IInv, ChunkInv
<1>3. Len(handled) = position
  BY <1>1 DEF Refill, IInv, ChunkInv, TypeOK
<1>4. file \in Files /\ file.readable <= Len(file.good) /\ position <= file.readable
  BY DEF IInv, TypeOK, PositionInv
<1>5. TypeOK' /\ ChunkInv' /\ PositionInv'
  BY <1>2, <1>3, <1>4, ReadNextChunkIInv DEF IInv
<1> QED
  BY <1>2, <1>5 DEF IInv, NewInv, HandledInOrder, DoneSawEverything, CorruptJustified

\* The record under the cursor is the one after those handled.
LEMMA CursorRecord ==
    ASSUME IInv, phase = "reading", bufferCursor < bufferCap
    PROVE  /\ buffer[bufferCursor] = Len(handled) + 1
           /\ Len(handled) + 1 \in 1 .. file.readable
           /\ file.readable \in 0 .. MaxRecords
           /\ Len(file.good) \in 0 .. MaxRecords
<1> USE BufferCapAssumption, MaxRecordsAssumption
<1>1. /\ file.readable \in 0 .. MaxRecords
      /\ Len(file.good) \in 0 .. MaxRecords
  BY SignaturesType DEF IInv, TypeOK, Files
<1>2. Len(handled) \in Nat
  BY DEF IInv, TypeOK
<1>3. bufferCursor \in 0 .. bufferCap - 1 /\ bufferCap \in Nat /\ position \in Nat
  BY DEF IInv, TypeOK
<1> QED
  BY <1>1, <1>2, <1>3, SMTT(30) DEF IInv, ChunkInv, PositionInv

LEMMA TakeIInv ==
    ASSUME IInv, Take PROVE IInv'
<1> USE BufferCapAssumption, MaxRecordsAssumption
<1> DEFINE r == Len(handled) + 1
<1>1. /\ phase = "reading" /\ bufferCursor < bufferCap
      /\ bufferCursor' = bufferCursor + 1
      /\ UNCHANGED <<file, position, buffer, bufferCap, isDoneReading>>
  BY DEF Take
<1>2. /\ buffer[bufferCursor] = r
      /\ r \in 1 .. file.readable
      /\ file.readable \in 0 .. MaxRecords
      /\ Len(file.good) \in 0 .. MaxRecords
  BY <1>1, CursorRecord
<1>3. bufferCursor' \in 0 .. BufferCap /\ bufferCursor' <= bufferCap
  BY <1>1 DEF IInv, TypeOK
<1>4. PositionInv'
  BY <1>1 DEF IInv, PositionInv
<1>5. CASE Signed(r)
  <2>1. handled' = Append(handled, r) /\ phase' = "reading"
    BY <1>1, <1>2, <1>5 DEF Take
  <2>2. r \in 1 .. MaxRecords
    BY <1>2
  <2>3. handled \in Seq(1 .. MaxRecords)
    BY DEF IInv, TypeOK
  <2>4. /\ handled' \in Seq(1 .. MaxRecords)
        /\ Len(handled') = r
    BY <2>1, <2>2, <2>3
  <2>5. TypeOK'
    BY <1>1, <1>3, <2>1, <2>4 DEF IInv, TypeOK
  <2>6. ChunkInv'
    <3>1. /\ bufferCap <= position
          /\ Len(handled) = position - bufferCap + bufferCursor
          /\ \A i \in 0 .. bufferCap - 1 : buffer[i] = position - bufferCap + i + 1
          /\ IF isDoneReading
               THEN position = file.readable
               ELSE bufferCap = BufferCap /\ FullChunks(position)
      BY <1>1 DEF IInv, ChunkInv
    <3>2. position \in Nat /\ bufferCap \in Nat /\ bufferCursor \in Nat
      BY DEF IInv, TypeOK
    <3>3. Len(handled') = position - bufferCap + (bufferCursor + 1)
      BY <2>4, <3>1, <3>2
    <3> QED
      BY <1>1, <1>3, <3>1, <3>3 DEF ChunkInv
  <2>7. HandledInOrder'
    BY <2>1, <2>2, <2>3, <2>4 DEF IInv, HandledInOrder
  <2> QED
    BY <1>4, <2>1, <2>5, <2>6, <2>7 DEF IInv, NewInv, DoneSawEverything, CorruptJustified
<1>6. CASE ~Signed(r)
  <2>1. handled' = handled /\ phase' = IF Tolerated THEN "done" ELSE "corrupt"
    BY <1>1, <1>2, <1>6 DEF Take
  <2>2. ~file.good[r]
    BY <1>2, <1>6 DEF Signed, NoRecord
  <2>3. TypeOK'
    BY <1>1, <1>3, <2>1 DEF IInv, TypeOK
  <2>4. Tolerated => r = file.readable
    BY <1>1 DEF Tolerated, IInv, ChunkInv, TypeOK
  <2>5. DoneSawEverything'
    <3>1. SUFFICES ASSUME phase' = "done"
                   PROVE  Len(handled) = file.readable - 1 /\ ~file.good[file.readable]
      BY <1>1, <2>1 DEF DoneSawEverything
    <3>2. r = file.readable
      BY <2>1, <2>4, <3>1
    <3>3. Len(handled) \in Nat
      BY DEF IInv, TypeOK
    <3> QED
      BY <2>2, <3>2, <3>3
  <2>6. CorruptJustified'
    <3>1. SUFFICES ASSUME phase' = "corrupt"
                   PROVE  r < file.readable \/ IsMultiple(r)
      BY <1>1, <1>2, <2>1, <2>2 DEF CorruptJustified
    <3>2. ~Tolerated
      BY <2>1, <3>1
    <3>3. /\ position \in 0 .. MaxRecords /\ bufferCap \in Nat /\ bufferCursor \in Nat
          /\ position <= file.readable
      BY DEF IInv, TypeOK, PositionInv
    <3>4. Len(handled) = position - bufferCap + bufferCursor
      BY <1>1 DEF IInv, ChunkInv
    <3>5. r = position - bufferCap + bufferCursor + 1
      BY <3>3, <3>4
    <3>6. CASE bufferCursor + 1 = bufferCap
      <4>1. r = position
        BY <3>5, <3>6, <3>3
      <4>2. FullChunks(position)
        BY <1>1, <3>2, <3>6 DEF Tolerated, IInv, ChunkInv
      <4>3. IsMultiple(position)
        BY <3>3, <4>2 DEF FullChunks, IsMultiple
      <4> QED
        BY <4>1, <4>3
    <3>7. CASE bufferCursor + 1 # bufferCap
      BY <1>1, <1>2, <3>5, <3>7, <3>3
    <3> QED
      BY <3>6, <3>7
  <2>7. HandledInOrder'
    BY <2>1 DEF IInv, HandledInOrder
  <2> QED
    BY <1>4, <2>1, <2>3, <2>5, <2>6, <2>7 DEF IInv, NewInv, ChunkInv
<1> QED
  BY <1>5, <1>6

LEMMA FinishIInv ==
    ASSUME IInv, Finish PROVE IInv'
<1> USE BufferCapAssumption, MaxRecordsAssumption
<1>1. Len(handled) = file.readable
  BY DEF Finish, Done, IInv, ChunkInv, TypeOK, Files
<1> QED
  BY <1>1 DEF Finish, IInv, TypeOK, NewInv, ChunkInv, PositionInv, HandledInOrder,
              DoneSawEverything, CorruptJustified

\* Every step preserves the invariant.
LEMMA NextIInv == IInv /\ [Next]_vars => IInv'
<1> SUFFICES ASSUME IInv, [Next]_vars PROVE IInv'
  OBVIOUS
<1>1. CASE \E f \in ReadableFiles : Open(f)
  BY <1>1, OpenIInv
<1>2. CASE Refill
  BY <1>2, RefillIInv
<1>3. CASE Take
  BY <1>3, TakeIInv
<1>4. CASE Finish
  BY <1>4, FinishIInv
<1>5. CASE UNCHANGED vars
  BY <1>5 DEF vars, IInv, TypeOK, NewInv, ChunkInv, PositionInv, HandledInOrder,
              DoneSawEverything, CorruptJustified
<1>6. CASE NothingToDo
  BY <1>6, NothingToDoIInv
<1>7. CASE StartUp
  BY <1>7, StartUpIInv
<1> QED
  BY <1>1, <1>2, <1>3, <1>4, <1>5, <1>6, <1>7 DEF Next

-----------------------------------------------------------------------------
\* The inductive invariant of the reader: where its cursor stands in the file.
THEOREM Invariance == Spec => []IInv
<1>1. Init => IInv
  BY InitIInv
<1>2. IInv /\ [Next]_vars => IInv'
  BY NextIInv
<1> QED
  BY <1>1, <1>2, PTL DEF Spec

\* Every variable keeps its type; position and cursors stay in range.
THEOREM TypeCorrect == Spec => []TypeOK
<1>1. IInv => TypeOK
  BY DEF IInv
<1> QED
  BY <1>1, Invariance, PTL

\* The records are handed on in file order, none twice and none left out, for
\* every chunk size and every file.
THEOREM ReadsInOrder == Spec => []HandledInOrder
<1>1. IInv => HandledInOrder
  BY DEF IInv
<1> QED
  BY <1>1, Invariance, PTL

\* An analysis that ends normally has seen the whole file, but perhaps a last
\* record without signature.
THEOREM SeesEverything == Spec => []DoneSawEverything
<1>1. IInv => DoneSawEverything
  BY DEF IInv
<1> QED
  BY <1>1, Invariance, PTL

\* A file is refused as corrupt only if the next record carries no signature, and
\* is not the last, or is the last and fills a chunk.
THEOREM RefusesOnlyCorrupt == Spec => []CorruptJustified
<1>1. IInv => CorruptJustified
  BY DEF IInv
<1> QED
  BY <1>1, Invariance, PTL

-----------------------------------------------------------------------------
(* The main function.                                                      *)

\* A step of the executable is a step of the search or leaves it alone, and a step
\* of the reader or leaves it alone.
LEMMA ExecStep ==
    ASSUME [ExecNext]_execVars
    PROVE  [Next]_vars /\ [SearchNext]_searchVars
<1>1. CASE FindAnalyzers
  BY <1>1 DEF FindAnalyzers
<1>2. CASE RunAnalysis
  <2>1. UNCHANGED searchVars
    BY <1>2 DEF RunAnalysis
  <2>2. \/ \E f \in ReadableFiles : Open(f)
        \/ NothingToDo \/ StartUp \/ Refill \/ Take \/ Finish
    BY <1>2 DEF RunAnalysis
  <2> QED
    BY <2>1, <2>2 DEF Next
<1>3. CASE UNCHANGED execVars
  BY <1>3 DEF execVars
<1> QED
  BY <1>1, <1>2, <1>3 DEF ExecNext

\* The executable reads a file as EventFileReader specifies.
THEOREM ExecutableReads == ExecSpec => Spec
<1>1. ExecInit => Init
  BY DEF ExecInit
<1>2. [ExecNext]_execVars => [Next]_vars
  BY ExecStep
<1> QED
  BY <1>1, <1>2, PTL DEF ExecSpec, Spec

\* The executable looks for analyzers as AnalyzerRules specifies.
THEOREM ExecutableSearches == ExecSpec => SearchSpec
<1>1. ExecInit => SearchInit
  BY DEF ExecInit
<1>2. [ExecNext]_execVars => [SearchNext]_searchVars
  BY ExecStep
<1> QED
  BY <1>1, <1>2, PTL DEF ExecSpec, SearchSpec

\* Every invariant of the reader and of the search is one of the executable: events
\* are handled in file order and none is missed, "corrupt" is said of corrupt
\* files only, the tables are right and the last rule decides.
THEOREM ExecutableCorrect ==
    ExecSpec => [](/\ HandledInOrder /\ DoneSawEverything /\ CorruptJustified
                   /\ TableCorrect /\ LastRuleDecides)
<1>1. ExecSpec => Spec /\ SearchSpec
  BY ExecutableReads, ExecutableSearches
<1> QED
  BY <1>1, ReadsInOrder, SeesEverything, RefusesOnlyCorrupt, TableIsCorrect,
     LastRuleIsDecisive, PTL
=============================================================================
