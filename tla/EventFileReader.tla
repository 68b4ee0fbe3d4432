---------------------------- MODULE EventFileReader ----------------------------
(***************************************************************************)
(* Reading a dump file back (executable/src): the EventFileReader, which   *)
(* reads the header and then chunks of buffer_cap records, and the loop of *)
(* run_analysis that hands one event after the other to the environment.   *)
(*                                                                         *)
(* A file is what a reader can tell of it: how many header fields are      *)
(* complete, which complete records carry the signature, and how many      *)
(* records the stream delivers before its end or an I/O error.  The bytes  *)
(* of a record cut off at the end are never counted by fread and left out. *)
(***************************************************************************)
EXTENDS Integers, Sequences

CONSTANTS
    BufferCap,      \* the constructor's buffer_cap
    MaxRecords      \* bound: records in a file

ASSUME BufferCapAssumption == BufferCap \in Nat \ {0}
ASSUME MaxRecordsAssumption == MaxRecords \in Nat

HeaderFields == 6   \* freads of read_header
NoRecord == 0       \* content of a buffer slot nothing was read into

VARIABLES
    file,           \* the file: see Files
    phase,          \* "new", "opened", "reading", "done", "corrupt" or "aborted"
    position,       \* records taken from the stream
    buffer,         \* [0 .. BufferCap - 1 -> record number]
    bufferCap,      \* buffer_cap, which the last chunk shrinks
    bufferCursor,   \* buffer_cursor
    isDoneReading,  \* is_done_reading_file
    handled         \* records handed to Environment::handle_event

vars == <<file, phase, position, buffer, bufferCap, bufferCursor, isDoneReading,
          handled>>

Signatures == UNION {[1 .. n -> BOOLEAN] : n \in 0 .. MaxRecords}

Files == [header : 0 .. HeaderFields, good : Signatures, readable : 0 .. MaxRecords]

\* What a reader may be given.
ReadableFiles == {f \in Files : f.readable <= Len(f.good)}

NoFile == [header |-> 0, good |-> <<>>, readable |-> 0]

Init ==
    /\ file = NoFile
    /\ phase = "new"
    /\ position = 0
    /\ buffer = [i \in 0 .. BufferCap - 1 |-> NoRecord]
    /\ bufferCap = BufferCap
    /\ bufferCursor = BufferCap
    /\ isDoneReading = FALSE
    /\ handled = <<>>

Done == isDoneReading /\ bufferCursor = bufferCap

-----------------------------------------------------------------------------
\* Mutation: a chunk is taken for the last one only when it is empty.
IsLastChunkEmpty(n) == n = 0

\* A short count is taken for the end of the file, whatever caused it.
IsLastChunk(n) == n < bufferCap

\* Mutations: the size of the last chunk is ignored, or counted one too high.
ChunkSizeIgnored(n) == bufferCap
ChunkSizeOneMore(n) == n + 1

ChunkSize(n) == IF IsLastChunk(n) THEN n ELSE bufferCap

\* Mutation: the cursor stays behind the old chunk.
FirstSlotKept == bufferCursor

FirstSlot == 0

\* read_next_chunk; the slots beyond what was read keep their old records.
ReadNextChunk(f) ==
    LET left == f.readable - position
        n == IF left < bufferCap THEN left ELSE bufferCap
    IN  /\ buffer' = [i \in DOMAIN buffer |->
                          IF i < n THEN position + i + 1 ELSE buffer[i]]
        /\ position' = position + n
        /\ isDoneReading' = IsLastChunk(n)
        /\ bufferCap' = ChunkSize(n)
        /\ bufferCursor' = FirstSlot

\* The constructor: an unreadable header aborts, else the first chunk is read.
Open(f) ==
    /\ phase = "new"
    /\ file' = f
    /\ IF f.header < HeaderFields
         THEN /\ phase' = "aborted"
              /\ UNCHANGED <<position, buffer, bufferCap, bufferCursor, isDoneReading>>
         ELSE /\ phase' = "opened"
              /\ ReadNextChunk(f)
    /\ UNCHANGED handled

\* run_analysis between the header and the loop: without analyzers there is
\* nothing to do and it aborts, else the environment is started up.
NothingToDo ==
    /\ phase = "opened"
    /\ phase' = "aborted"
    /\ UNCHANGED <<file, position, buffer, bufferCap, bufferCursor, isDoneReading,
                   handled>>

StartUp ==
    /\ phase = "opened"
    /\ phase' = "reading"
    /\ UNCHANGED <<file, position, buffer, bufferCap, bufferCursor, isDoneReading,
                   handled>>

\* read() at the end of a chunk that is not the last.
Refill ==
    /\ phase = "reading"
    /\ ~Done
    /\ bufferCursor = bufferCap
    /\ ReadNextChunk(file)
    /\ UNCHANGED <<file, phase, handled>>

\* Mutation: any bad record ends the analysis as if it were the last.
TolerateAll == TRUE

\* A record without signature is forgiven when nothing follows it, as far as
\* the reader knows after it moved its cursor.
Tolerated == isDoneReading /\ bufferCursor + 1 = bufferCap

\* Event::make: the slots of a new buffer are zero and carry no signature.
Signed(r) == r # NoRecord /\ file.good[r]

\* read() within a chunk, and what run_analysis does with the event.
Take ==
    /\ phase = "reading"
    /\ bufferCursor < bufferCap
    /\ LET r == buffer[bufferCursor]
       IN  IF Signed(r)
             THEN /\ handled' = Append(handled, r)
                  /\ UNCHANGED phase
             ELSE /\ phase' = IF Tolerated THEN "done" ELSE "corrupt"
                  /\ UNCHANGED handled
    /\ bufferCursor' = bufferCursor + 1
    /\ UNCHANGED <<file, position, buffer, bufferCap, isDoneReading>>

\* The loop ends and the environment is shut down.
Finish ==
    /\ phase = "reading"
    /\ Done
    /\ phase' = "done"
    /\ UNCHANGED <<file, position, buffer, bufferCap, bufferCursor, isDoneReading,
                   handled>>

Next == (\E f \in ReadableFiles : Open(f)) \/ NothingToDo \/ StartUp \/ Refill \/ Take \/ Finish

Spec == Init /\ [][Next]_vars
FairSpec == Spec /\ WF_vars(Next)

-----------------------------------------------------------------------------
(* Properties *)

Records == Len(file.good)
Ended == phase \in {"done", "corrupt", "aborted"}

TypeOK ==
    /\ file \in Files
    /\ phase \in {"new", "opened", "reading", "done", "corrupt", "aborted"}
    /\ position \in 0 .. MaxRecords
    /\ buffer \in [0 .. BufferCap - 1 -> 0 .. MaxRecords]
    /\ bufferCap \in 0 .. BufferCap
    /\ bufferCursor \in 0 .. BufferCap
    /\ isDoneReading \in BOOLEAN
    /\ handled \in Seq(1 .. MaxRecords)

\* The analyzers see the records of the file in file order, each once, from the
\* first on: no chunk is skipped, repeated, or mixed with the leftovers of an
\* earlier one, at any ratio of file length to chunk size.
HandledInOrder == \A i \in DOMAIN handled : handled[i] = i

\* An analysis that ends normally has seen every record that could be read,
\* except a last one without signature.
DoneSawEverything ==
    phase = "done" =>
        \/ Len(handled) = file.readable
        \/ Len(handled) = file.readable - 1 /\ ~file.good[file.readable]

IsMultiple(n) == \E k \in 0 .. MaxRecords : n = k * BufferCap

\* "Dump file is corrupt" is only said of a file in which the next record carries no
\* signature, and some record follows it; or none does, but the file ends with a
\* full chunk, so that the reader cannot know.
CorruptJustified ==
    LET next == Len(handled) + 1
    IN  phase = "corrupt" =>
            /\ next <= file.readable /\ ~file.good[next]
            /\ next < file.readable \/ IsMultiple(next)

\* Reading ends, one way or another, for every file.
AlwaysEnds == <>Ended

-----------------------------------------------------------------------------
(* What the code says of itself and does not do.                           *)

\* "It's ok for the last event to be corrupt": a file whose only bad record is
\* its last is not refused.
LastMayBeCorrupt ==
    phase = "corrupt" => \E i \in 1 .. Records - 1 : ~file.good[i]
=============================================================================
