------------------------------ MODULE Symbolizer ------------------------------
(***************************************************************************)
(* The stack trace symbolizer (executable/src/stacktrace_symbolizer*.cpp): *)
(* the analysis asks a child process, addr2line on Linux and atos on macOS, *)
(* for the names of the addresses of a stack trace.  The question goes     *)
(* through one pipe and is written blocking; the answer comes through      *)
(* another, is read without blocking, and counted in lines.  A call that   *)
(* has waited long enough gives up and leaves the rest of its answer in    *)
(* the pipes.                                                              *)
(*                                                                         *)
(* A trace is told apart by its event; an address is one of its frames; a  *)
(* line is one of the lines the tool prints for an address.  The tool      *)
(* flushes its output after each address, in one piece.                    *)
(***************************************************************************)
EXTENDS Integers, Sequences

CONSTANTS
    Traces,         \* the stack traces
    Frames,         \* [Traces -> number of addresses that are not 0]
    Tools,          \* the implementations of StacktraceSymbolizer in question
    StdinRoom,      \* capacity of the child's stdin, in addresses
    StdoutRoom,     \* capacity of the child's stdout, in lines
    MaxFailures     \* reads without result before a call gives up (20000)

ASSUME TracesAssumption == Traces # {}
ASSUME FramesAssumption == Frames \in [Traces -> Nat]
ASSUME ToolsAssumption == Tools \subseteq {"addr2line", "atos", "none"}
ASSUME RoomAssumption ==
    /\ StdinRoom \in Nat /\ StdoutRoom \in Nat
    /\ \A t \in Traces : Frames[t] <= StdinRoom
ASSUME MaxFailuresAssumption == MaxFailures \in Nat \ {0}

VARIABLES
    tool,       \* the implementation that this build and command line select
    parent,     \* the analysis: "new", "idle", "writing", "reading", "gone" or "dead"
    asked,      \* the trace of the current or of the last call
    lines,      \* what the call has read
    failures,   \* num_consecutive_read_failures
    outcome,    \* of the last call: "none", "trace", "failed" or "no binary"
    child,      \* "none", "running" or "dead"
    stdin,      \* addresses on their way to the child
    stdout,     \* lines on their way back
    owed        \* history: lines that calls have given up on and not yet come

callVars == <<asked, lines, failures, outcome>>
pipeVars == <<stdin, stdout>>
symVars == <<tool, parent, callVars, child, pipeVars, owed>>

-----------------------------------------------------------------------------
\* The addresses that symbolize_stacktrace writes: one line each for addr2line,
\* on a single line for atos.
Addresses(t) == [i \in 1 .. Frames[t] |-> <<t, i>>]

\* addr2line is sent nothing for an empty trace, atos an empty line.
Addr2lineWrites(t) == Frames[t] > 0

AtosWrites(t) == TRUE

Writes(t) == IF tool = "addr2line" THEN Addr2lineWrites(t) ELSE AtosWrites(t)

\* The addresses and the lines there may be.
Address == Traces \X (Nat \ {0})
Line == Address \X {1, 2}

\* Lines for one address: the function and the place, or one line with both.
LinesPerAddress == IF tool = "addr2line" THEN 2 ELSE 1
Answer(a) == [k \in 1 .. LinesPerAddress |-> <<a, k>>]

\* Mutation: as many lines as addresses are expected of either tool.
ExpectsOneEach(n) == n

Addr2lineExpects(n) == 2 * n

AtosExpects(n) == n

\* num_lines_expected
Expected(t) == IF tool = "addr2line" THEN Addr2lineExpects(Frames[t])
               ELSE AtosExpects(Frames[t])

\* Every line of the trace, in order.
OwnLines(t) ==
    [i \in 1 .. LinesPerAddress * Frames[t] |->
        << <<t, ((i - 1) \div LinesPerAddress) + 1>>, ((i - 1) % LinesPerAddress) + 1 >>]

-----------------------------------------------------------------------------
SymInit ==
    /\ tool \in Tools
    /\ parent = "new"
    /\ asked = CHOOSE t \in Traces : TRUE
    /\ lines = <<>> /\ failures = 0 /\ outcome = "none"
    /\ child = "none" /\ stdin = <<>> /\ stdout = <<>>
    /\ owed = 0

\* StacktraceSymbolizer::create without a binary: nothing is started.
CreateNull ==
    /\ parent = "new" /\ tool = "none"
    /\ parent' = "idle"
    /\ UNCHANGED <<tool, callVars, child, pipeVars, owed>>

\* The constructors: pipes, fork, and in the parent a non-blocking stdout.  Any
\* of these may fail and abort.  The child's dup2 and execv, which abort the
\* child, are among the ways it dies.
Create ==
    /\ parent = "new" /\ tool # "none"
    /\ \/ parent' = "idle" /\ child' = "running"
       \/ parent' = "dead" /\ UNCHANGED child
    /\ UNCHANGED <<tool, callVars, pipeVars, owed>>

\* NullStacktraceSymbolizer
NoBinary(t) ==
    /\ parent = "idle" /\ tool = "none"
    /\ asked' = t
    /\ outcome' = "no binary"
    /\ UNCHANGED <<tool, parent, lines, failures, child, pipeVars, owed>>

BeginCall(t) ==
    /\ parent = "idle" /\ tool # "none"
    /\ parent' = "writing"
    /\ asked' = t /\ lines' = <<>> /\ failures' = 0 /\ outcome' = "none"
    /\ UNCHANGED <<tool, child, pipeVars, owed>>

HasRoom(t) == Len(stdin) + Frames[t] <= StdinRoom

\* The write, which waits for room; a question is short enough to be written
\* at once.
WriteCommand ==
    /\ parent = "writing"
    /\ Writes(asked) => child = "running" /\ HasRoom(asked)
    /\ parent' = "reading"
    /\ stdin' = stdin \o Addresses(asked)
    /\ UNCHANGED <<tool, callVars, child, stdout, owed>>

\* Nobody reads the pipe any more: SIGPIPE, or an error and abort().
BrokenPipe ==
    /\ parent = "writing" /\ Writes(asked) /\ child = "dead"
    /\ parent' = "dead"
    /\ UNCHANGED <<tool, callVars, child, pipeVars, owed>>

\* Mutation: the call returns one line early.
CompleteOneShort(n) == n + 1 = Expected(asked)

Complete(n) == n = Expected(asked)

\* A line comes; the call returns with the last one it expects.  A trace without
\* addresses expects none, and no line is the last one.
ReadLine ==
    /\ parent = "reading" /\ stdout # <<>>
    /\ lines' = Append(lines, Head(stdout))
    /\ stdout' = Tail(stdout)
    /\ failures' = 0
    /\ IF Complete(Len(lines) + 1)
         THEN parent' = "idle" /\ outcome' = "trace"
         ELSE UNCHANGED <<parent, outcome>>
    /\ UNCHANGED <<tool, asked, child, stdin, owed>>

\* Mutation: the end of the file is not counted as a failure.
CountsUnlessEof == child = "running"

\* EAGAIN, and the end of the file, which leaves errno at 0.
CountsAsFailure == TRUE

\* Mutation: one read too many.
GivesUpLate(n) == n > MaxFailures

GivesUp(n) == n = MaxFailures

\* A read without result; the call gives up after MaxFailures of them in a row.
ReadFails ==
    /\ parent = "reading" /\ stdout = <<>>
    /\ CountsAsFailure
    /\ failures' = failures + 1
    /\ IF GivesUp(failures + 1)
         THEN /\ parent' = "idle" /\ outcome' = "failed"
              /\ owed' = owed + Expected(asked) - Len(lines)
         ELSE UNCHANGED <<parent, outcome, owed>>
    /\ UNCHANGED <<tool, asked, lines, child, pipeVars>>

\* Any other error of read: abort().
ReadAborts ==
    /\ parent = "reading"
    /\ parent' = "dead"
    /\ UNCHANGED <<tool, callVars, child, pipeVars, owed>>

\* The destructor: the child is killed and the pipes are closed.
DestroySymbolizer ==
    /\ parent = "idle"
    /\ parent' = "gone"
    /\ child' = IF child = "none" THEN "none" ELSE "dead"
    /\ stdin' = <<>> /\ stdout' = <<>>
    /\ UNCHANGED <<tool, callVars, owed>>

-----------------------------------------------------------------------------
(* The child: external.  It may take any time over an answer, and may end. *)

ChildAnswers ==
    /\ child = "running" /\ stdin # <<>>
    /\ Len(stdout) + LinesPerAddress <= StdoutRoom
    /\ stdout' = stdout \o Answer(Head(stdin))
    /\ stdin' = Tail(stdin)
    /\ UNCHANGED <<tool, parent, callVars, child, owed>>

ChildEnds ==
    /\ child = "running"
    /\ child' = "dead"
    /\ UNCHANGED <<tool, parent, callVars, pipeVars, owed>>

-----------------------------------------------------------------------------
\* The steps of a call that has begun; an abort is never obliged.
CallStep == WriteCommand \/ BrokenPipe \/ ReadLine \/ ReadFails

ChildStep == ChildAnswers \/ ChildEnds

SymNext ==
    \/ CreateNull \/ Create
    \/ \E t \in Traces : NoBinary(t) \/ BeginCall(t)
    \/ CallStep \/ ReadAborts
    \/ ChildStep
    \/ DestroySymbolizer

SymSpec == SymInit /\ [][SymNext]_symVars

-----------------------------------------------------------------------------
(* Properties *)

InCall == parent \in {"writing", "reading"}

SymTypeOK ==
    /\ tool \in Tools
    /\ parent \in {"new", "idle", "writing", "reading", "gone", "dead"}
    /\ asked \in Traces
    /\ lines \in Seq(Line)
    /\ failures \in 0 .. MaxFailures
    /\ outcome \in {"none", "trace", "failed", "no binary"}
    /\ child \in {"none", "running", "dead"}
    /\ stdin \in Seq(Address)
    /\ stdout \in Seq(Line)
    /\ owed \in Nat

\* The lines that the child's answers to all it was asked will come to.
InFlight == LinesPerAddress * Len(stdin) + Len(stdout)

\* Between calls the pipes hold exactly what earlier calls gave up on: a call that
\* returns a trace leaves as many lines behind as it found, so that what was
\* late once stays in front of every later answer; and without a call that gave
\* up, nothing is left over.  An empty trace, which reads until nothing comes, is
\* all that can catch up.
NeverCaughtUp == parent = "idle" => InFlight = owed

\* While no line is owed, a trace that is printed is that of the event it was asked
\* for, complete and in order, whatever the child did in the meantime.
OwnTrace == owed = 0 /\ outcome = "trace" => lines = OwnLines(asked)

\* The child's stdin is full and the child does not read: write() waits, for ever if
\* the child itself waits for room in its stdout, which nobody reads meanwhile.
Blocked == parent = "writing" /\ child = "running" /\ ~HasRoom(asked)

\* The analysis and the child never wait for each other, however many traces are
\* asked for, until a call has given up: only late answers fill the pipes.
WaitsOnlyBehindLate == Blocked => owed > 0
=============================================================================
