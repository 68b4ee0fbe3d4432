-------------------------------- MODULE Reports --------------------------------
(***************************************************************************)
(* The reports of the analyzers (executable/src/report.cpp and the parts   *)
(* of environment.cpp they use).  A report keeps a handle of the event of  *)
(* each section; when it is sent, usually by its destructor, it adds       *)
(* sections for its notes, asks the symbolizer for the stack trace of      *)
(* every section in turn, and is written in one piece.  Its sections are   *)
(* destroyed after that.  Its level and descriptions, on which only the    *)
(* wording and the exit status depend, are left out.                       *)
(*                                                                         *)
(* An analyzer does nothing else while it builds a report.  The handles it *)
(* and the database keep are Kept; those of the sections are Sections.     *)
(* The set of noted events, which only keeps what is noted alive until the *)
(* sections do, is left out.                                               *)
(***************************************************************************)
EXTENDS Symbolizer, EventHandles

CONSTANTS
    Kept,           \* handles outside of reports: fields, parameters, map entries
    Sections,       \* sequence of the handles of a report's sections
    MaxReports      \* bound: reports in one analysis

SectionHandles == {Sections[i] : i \in 1 .. Len(Sections)}

ASSUME EventsAssumption == Traces = Events
ASSUME ReportHandlesAssumption ==
    /\ Sections \in Seq(Handles)
    /\ Handles = Kept \cup SectionHandles
    /\ Kept \cap SectionHandles = {}
    /\ \A i, j \in 1 .. Len(Sections) : Sections[i] = Sections[j] => i = j
ASSUME MaxReportsAssumption == MaxReports \in Nat

VARIABLES
    report,     \* "none", "open", "noting", "sending" or "sent"
    size,       \* its sections
    text,       \* the sections written to builder so far: see Paragraph
    reports     \* reports created

reportVars == <<report, size, text, reports>>
vars == <<symVars, handleVars, reportVars>>

Init ==
    /\ SymInit /\ HandlesInit
    /\ report = "none" /\ size = 0 /\ text = <<>> /\ reports = 0

-----------------------------------------------------------------------------
\* Between reports the reader, the environment, the database and the analyzers
\* use their handles.
ClientStep ==
    /\ report = "none" /\ parent = "idle"
    /\ \E h \in Kept :
           \/ \E e \in Events : Make(h, e)
           \/ MakeNull(h)
           \/ \E o \in Kept : CopyConstruct(h, o) \/ MoveConstruct(h, o)
           \/ \E o \in Kept : CopyAssign(h, o) \/ MoveAssign(h, o)
           \/ Destroy(h)
    /\ UNCHANGED <<symVars, reportVars>>

\* create_report
CreateReport ==
    /\ report = "none" /\ parent = "idle"
    /\ reports < MaxReports
    /\ \E h \in Kept : ptr[h] \in Events
    /\ report' = "open" /\ size' = 0 /\ text' = <<>>
    /\ reports' = reports + 1
    /\ UNCHANGED <<symVars, handleVars>>

\* emplace_back of a section with a copy of the handle.
Emplace(h) ==
    /\ size < Len(Sections)
    /\ ptr[h] \in Events
    /\ CopyConstruct(Sections[size + 1], h)
    /\ size' = size + 1

AddSection(h) ==
    /\ report = "open"
    /\ Emplace(h)
    /\ UNCHANGED <<symVars, report, text, reports>>

\* send() of a report that is not sent yet.
Send ==
    /\ report = "open"
    /\ report' = "noting"
    /\ UNCHANGED <<symVars, handleVars, size, text, reports>>

\* A note: the create event of an object or a thread of one of the sections, which
\* the database has.
AddNote(h) ==
    /\ report = "noting" /\ size > 0
    /\ Emplace(h)
    /\ UNCHANGED <<symVars, report, text, reports>>

NotesDone ==
    /\ report = "noting"
    /\ report' = "sending"
    /\ UNCHANGED <<symVars, handleVars, size, text, reports>>

\* The section whose stack trace is asked for next, or was last.
Current == Sections[Len(text) + 1]

\* What builder receives of a section: its event, and what came of the call.
Paragraph == [event |-> ptr[Current], outcome |-> outcome', lines |-> lines',
              owed |-> owed']

\* symbolize_stacktrace of a section.
SymbolizeSection ==
    /\ report = "sending" /\ parent = "idle" /\ Len(text) < size
    /\ BeginCall(ptr[Current])
    /\ UNCHANGED <<handleVars, reportVars>>

\* The same without a binary, in one step.
SkipSection ==
    /\ report = "sending" /\ parent = "idle" /\ Len(text) < size
    /\ NoBinary(ptr[Current])
    /\ text' = Append(text, Paragraph)
    /\ UNCHANGED <<handleVars, report, size, reports>>

\* A step of the call; when it returns, the section is complete.
InSection ==
    /\ CallStep
    /\ text' = IF parent' = "idle" THEN Append(text, Paragraph) ELSE text
    /\ UNCHANGED <<handleVars, report, size, reports>>

\* Environment::send_report: the text is complete and goes to report_stream.
SendReport ==
    /\ report = "sending" /\ parent = "idle" /\ Len(text) = size
    /\ report' = "sent"
    /\ UNCHANGED <<symVars, handleVars, size, text, reports>>

\* The rest of ~Report, whichever section it begins with.
DropSection ==
    /\ report = "sent" /\ size > 0
    /\ Destroy(Sections[size])
    /\ size' = size - 1
    /\ UNCHANGED <<symVars, report, text, reports>>

ReportDestroyed ==
    /\ report = "sent" /\ size = 0
    /\ report' = "none" /\ text' = <<>>
    /\ UNCHANGED <<symVars, handleVars, size, reports>>

-----------------------------------------------------------------------------
\* The constructor and destructor of the environment, and the child process.
EnvironmentStep ==
    /\ \/ CreateNull \/ Create
       \/ report = "none" /\ DestroySymbolizer
    /\ UNCHANGED <<handleVars, reportVars>>

Abort == ReadAborts /\ UNCHANGED <<handleVars, reportVars>>
Child == ChildStep /\ UNCHANGED <<handleVars, reportVars>>

\* What a report does once it is created.
ReportStep ==
    \/ Send \/ NotesDone
    \/ SymbolizeSection \/ SkipSection \/ InSection
    \/ SendReport \/ DropSection \/ ReportDestroyed

Next ==
    \/ EnvironmentStep \/ Abort \/ Child
    \/ ClientStep
    \/ CreateReport
    \/ \E h \in Kept : AddSection(h) \/ AddNote(h)
    \/ ReportStep

Spec == Init /\ [][Next]_vars

\* The analysis is one thread that runs; nothing is assumed of the child.
FairSpec == Spec /\ WF_vars(ReportStep)

-----------------------------------------------------------------------------
(* Properties *)

Paragraphs == [event : Events, outcome : {"trace", "failed", "no binary"},
               lines : Seq(Line), owed : Nat]

TypeOK ==
    /\ SymTypeOK /\ HandlesTypeOK
    /\ report \in {"none", "open", "noting", "sending", "sent"}
    /\ size \in 0 .. Len(Sections)
    /\ text \in Seq(Paragraphs)
    /\ reports \in 0 .. MaxReports

\* A report has, under each of its events, the stack trace of that event, whole and
\* in order, the note that there is no binary, or the remark that it failed,
\* unless an earlier call of the analysis has given up on lines still to come.
ReportOwnTraces ==
    \A i \in DOMAIN text :
        text[i].outcome = "trace" /\ text[i].owed = 0 =>
            text[i].lines = OwnLines(text[i].event)

\* A report is written and gone in the end, whether the child
\* answers, is slow, or has died, or the analysis itself ends on a broken pipe;
\* only a child that lives and neither reads nor answers can keep it, and only
\* behind late answers: see WaitsOnlyBehindLate.
ReportsEnd ==
    report # "none" ~> report = "none" \/ parent = "dead" \/ Blocked
=============================================================================
