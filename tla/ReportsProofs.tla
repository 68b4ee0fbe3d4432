---------------------------- MODULE ReportsProofs ----------------------------
(***************************************************************************)
(* Proofs about Reports, for every set of events, every finite set of      *)
(* handles and every report: the composition implements its two parts, so  *)
(* that what is proved of them holds in it, and every paragraph of a       *)
(* report has the trace of its own event.                                  *)
(***************************************************************************)
EXTENDS Reports, SymbolizerProofs, EventHandlesProofs

\* The strengthening: the sections of a report hold an event each, and a call asks
\* for that of the section it was made for.
ReportInv ==
    /\ report \in {"none", "open", "noting", "sending", "sent"}
    /\ size \in 0 .. Len(Sections)
    /\ report = "none" => size = 0
    /\ reports \in 0 .. MaxReports
    /\ text \in Seq(Paragraphs)
    /\ \A i \in 1 .. size : ptr[Sections[i]] \in Events
    /\ InCall => /\ report = "sending" /\ Len(text) < size
                 /\ asked = ptr[Sections[Len(text) + 1]]
    /\ ReportOwnTraces

RInv == SymInv /\ Sound(ptr, cell) /\ ReportInv

LEMMA ReportTypes ==
    ASSUME RInv
    PROVE  /\ Len(Sections) \in Nat /\ size \in Nat /\ size <= Len(Sections)
           /\ text \in Seq(Paragraphs) /\ Len(text) \in Nat
           /\ DOMAIN text = 1 .. Len(text)
<1>1. Len(Sections) \in Nat
  BY ReportHandlesAssumption
<1>2. size \in 0 .. Len(Sections) /\ text \in Seq(Paragraphs)
  BY DEF RInv, ReportInv
<1>3. Len(text) \in Nat /\ DOMAIN text = 1 .. Len(text)
  BY <1>2, LenProperties
<1> QED
  BY <1>1, <1>2, <1>3

\* The next section's handle is alive while there is one.
LEMMA CurrentEvent ==
    ASSUME RInv, Len(text) < size
    PROVE  ptr[Current] \in Events
<1>1. Len(text) + 1 \in 1 .. size
  BY ReportTypes
<1> QED
  BY <1>1 DEF RInv, ReportInv, Current

\* A step of the composition is one of the symbolizer or leaves it alone.
LEMMA SymbolizerStep ==
    ASSUME RInv, [Next]_vars
    PROVE  [SymNext]_symVars
<1>1. CASE EnvironmentStep \/ Abort \/ Child
  BY <1>1 DEF EnvironmentStep, Abort, Child, SymNext
<1>2. CASE SymbolizeSection \/ SkipSection
  <2>1. Len(text) < size
    BY <1>2 DEF SymbolizeSection, SkipSection
  <2>2. ptr[Current] \in Traces
    BY <2>1, CurrentEvent, EventsAssumption
  <2>3. BeginCall(ptr[Current]) \/ NoBinary(ptr[Current])
    BY <1>2 DEF SymbolizeSection, SkipSection
  <2> QED
    BY <2>2, <2>3 DEF SymNext
<1>3. CASE InSection
  BY <1>3 DEF InSection, SymNext
<1>4. CASE ClientStep \/ CreateReport \/ \E h \in Kept : AddSection(h) \/ AddNote(h)
  BY <1>4 DEF ClientStep, CreateReport, AddSection, AddNote
<1>5. CASE Send \/ NotesDone \/ SendReport \/ DropSection \/ ReportDestroyed
  BY <1>5 DEF Send, NotesDone, SendReport, DropSection, ReportDestroyed
<1>6. CASE UNCHANGED vars
  BY <1>6 DEF vars
<1> QED
  BY <1>1, <1>2, <1>3, <1>4, <1>5, <1>6 DEF Next, ReportStep

\* A step of the composition is an operation on a handle or leaves all alone.
LEMMA HandleStep ==
    ASSUME RInv, [Next]_vars
    PROVE  [HandlesNext]_handleVars
<1>1. CASE ClientStep
  <2>1. Kept \subseteq Handles
    BY ReportHandlesAssumption
  <2>2. PICK h \in Kept :
            \/ \E e \in Events : Make(h, e)
            \/ MakeNull(h)
            \/ \E o \in Kept : CopyConstruct(h, o) \/ MoveConstruct(h, o)
            \/ \E o \in Kept : CopyAssign(h, o) \/ MoveAssign(h, o)
            \/ Destroy(h)
    BY <1>1 DEF ClientStep
  <2>3. h \in Handles /\ HandleOp(h)
    BY <2>1, <2>2 DEF HandleOp
  <2> QED
    BY <2>3 DEF HandlesNext
<1>2. ASSUME NEW h \in Kept, Emplace(h)
      PROVE  HandlesNext
  <2>1. size + 1 \in 1 .. Len(Sections)
    BY <1>2, ReportTypes DEF Emplace
  <2>2. Sections[size + 1] \in Handles /\ h \in Handles
    BY <2>1, ReportHandlesAssumption
  <2>3. CopyConstruct(Sections[size + 1], h)
    BY <1>2 DEF Emplace
  <2> QED
    BY <2>2, <2>3 DEF HandlesNext, HandleOp
<1>3. CASE \E h \in Kept : AddSection(h) \/ AddNote(h)
  BY <1>2, <1>3 DEF AddSection, AddNote
<1>4. CASE DropSection
  <2>1. size \in 1 .. Len(Sections)
    BY <1>4, ReportTypes DEF DropSection
  <2>2. Sections[size] \in Handles /\ Destroy(Sections[size])
    BY <1>4, <2>1, ReportHandlesAssumption DEF DropSection
  <2> QED
    BY <2>2 DEF HandlesNext, HandleOp
<1>5. CASE EnvironmentStep \/ Abort \/ Child \/ CreateReport
  BY <1>5 DEF EnvironmentStep, Abort, Child, CreateReport
<1>6. CASE Send \/ NotesDone \/ SymbolizeSection \/ SkipSection \/ InSection \/ SendReport
           \/ ReportDestroyed
  BY <1>6 DEF Send, NotesDone, SymbolizeSection, SkipSection, InSection, SendReport,
              ReportDestroyed
<1>7. CASE UNCHANGED vars
  BY <1>7 DEF vars
<1> QED
  BY <1>1, <1>3, <1>4, <1>5, <1>6, <1>7 DEF Next, ReportStep

-----------------------------------------------------------------------------
(* The reports themselves.                                                 *)

\* No step changes the implementation, on which the lines of a trace depend.
LEMMA SameLines ==
    ASSUME [SymNext]_symVars
    PROVE  tool' = tool /\ \A t : OwnLines(t)' = OwnLines(t)
<1>1. tool' = tool
  BY DEF SymNext, CreateNull, Create, NoBinary, BeginCall, CallStep, WriteCommand, BrokenPipe,
         ReadLine, ReadFails, ReadAborts, ChildStep, ChildAnswers, ChildEnds,
         DestroySymbolizer, symVars
<1> QED
  BY <1>1 DEF OwnLines, LinesPerAddress

\* Between calls: the environment, the child, and the report's beginning and end.
LEMMA OutsideCallsInv ==
    ASSUME RInv, [SymNext]_symVars,
           \/ EnvironmentStep \/ Abort \/ Child
           \/ CreateReport \/ Send \/ NotesDone \/ SendReport \/ ReportDestroyed
           \/ UNCHANGED vars
    PROVE  ReportInv'
<1> USE SameLines DEF RInv, ReportInv, ReportOwnTraces, InCall
<1>1. CASE EnvironmentStep \/ Abort
  BY <1>1 DEF EnvironmentStep, CreateNull, Create, DestroySymbolizer, Abort, ReadAborts,
              handleVars, reportVars
<1>2. CASE Child
  BY <1>2 DEF Child, ChildStep, ChildAnswers, ChildEnds, callVars, handleVars, reportVars
<1>3. CASE CreateReport
  <2>1. /\ report' = "open" /\ size' = 0 /\ text' = <<>> /\ parent' = "idle"
        /\ reports' = reports + 1 /\ reports < MaxReports
    BY <1>3 DEF CreateReport, symVars
  <2>2. reports' \in 0 .. MaxReports
    BY <2>1, MaxReportsAssumption
  <2>3. <<>> \in Seq(Paragraphs) /\ DOMAIN <<>> = {} /\ 0 \in 0 .. Len(Sections)
    BY ReportHandlesAssumption
  <2> QED
    BY <2>1, <2>2, <2>3
<1>4. CASE Send \/ NotesDone \/ SendReport
  BY <1>4 DEF Send, NotesDone, SendReport, symVars, callVars, handleVars
<1>5. CASE ReportDestroyed
  <2>1. /\ report = "sent" /\ report' = "none" /\ text' = <<>> /\ size = 0
        /\ parent' = parent /\ UNCHANGED <<ptr, size, reports>>
    BY <1>5 DEF ReportDestroyed, symVars, handleVars
  <2>2. <<>> \in Seq(Paragraphs) /\ DOMAIN <<>> = {}
    OBVIOUS
  <2> QED
    BY <2>1, <2>2
<1>6. CASE UNCHANGED vars
  BY <1>6 DEF vars, symVars, callVars, handleVars, reportVars
<1> QED
  BY <1>1, <1>2, <1>3, <1>4, <1>5, <1>6

\* Between reports the handles of sections are not touched.
LEMMA ClientInv ==
    ASSUME RInv, [SymNext]_symVars, ClientStep
    PROVE  ReportInv'
<1>1. /\ report = "none" /\ parent = "idle"
      /\ UNCHANGED <<parent, asked, report, size, text, reports>>
  BY DEF ClientStep, symVars, callVars, reportVars
<1>2. size = 0
  BY <1>1 DEF RInv, ReportInv
<1>3. size' = 0
  BY <1>1, <1>2
<1>4. \A i \in 1 .. size' : ptr'[Sections[i]] \in Events
  BY <1>3
<1> QED
  BY <1>1, <1>4, SameLines DEF RInv, ReportInv, ReportOwnTraces, InCall

\* A new section is a copy of a handle that has an event; the others stay.
LEMMA EmplaceInv ==
    ASSUME RInv, [SymNext]_symVars, NEW h \in Kept, AddSection(h) \/ AddNote(h)
    PROVE  ReportInv'
<1> DEFINE s == Sections[size + 1]
<1>1. /\ report \in {"open", "noting"} /\ Emplace(h)
      /\ UNCHANGED <<parent, asked, report, text, reports>>
  BY DEF AddSection, AddNote, symVars, callVars
<1>2. /\ size < Len(Sections) /\ size' = size + 1 /\ ptr[h] \in Events
      /\ ptr' = [ptr EXCEPT ![s] = ptr[h]]
  BY <1>1 DEF Emplace, CopyConstruct
<1>3. Len(Sections) \in Nat /\ size \in Nat
  BY ReportTypes
<1>4. size' \in 0 .. Len(Sections)
  BY <1>2, <1>3
<1>5. ptr \in [Handles -> Events \cup {Null, Dead}]
  BY DEF RInv, Sound, Typed
<1>6. ASSUME NEW i \in 1 .. size' PROVE ptr'[Sections[i]] \in Events
  <2>1. i \in 1 .. Len(Sections) /\ size + 1 \in 1 .. Len(Sections)
    BY <1>2, <1>3
  <2>2. Sections[i] \in Handles /\ s \in Handles
    BY <2>1, ReportHandlesAssumption
  <2>3. CASE i = size + 1
    BY <1>2, <1>5, <2>2, <2>3
  <2>4. CASE i # size + 1
    <3>1. i \in 1 .. size
      BY <1>2, <1>3, <2>4
    <3>2. ptr[Sections[i]] \in Events
      BY <3>1 DEF RInv, ReportInv
    <3>3. Sections[i] \in SectionHandles /\ s \in SectionHandles
      BY <2>1 DEF SectionHandles
    <3>4. Sections[i] # s
      BY <2>1, <2>4, ReportHandlesAssumption
    <3> QED
      BY <1>2, <1>5, <2>2, <3>2, <3>4
  <2> QED
    BY <2>3, <2>4
<1>7. ~InCall
  BY <1>1 DEF RInv, ReportInv
<1> QED
  BY <1>1, <1>4, <1>6, <1>7, SameLines DEF RInv, ReportInv, ReportOwnTraces, InCall

\* A call is made for a section.
LEMMA SymbolizeInv ==
    ASSUME RInv, [SymNext]_symVars, SymbolizeSection
    PROVE  ReportInv'
BY SameLines DEF SymbolizeSection, BeginCall, handleVars, reportVars, RInv, ReportInv,
                 ReportOwnTraces, InCall, Current

\* What appending a paragraph does.
LEMMA AppendParagraph ==
    ASSUME NEW t \in Seq(Paragraphs), NEW q \in Paragraphs
    PROVE  /\ Append(t, q) \in Seq(Paragraphs)
           /\ Len(Append(t, q)) = Len(t) + 1
           /\ \A i \in 1 .. Len(t) : Append(t, q)[i] = t[i]
           /\ Append(t, q)[Len(t) + 1] = q
  BY AppendProperties

\* An index of a longer sequence is the last one or one of the shorter.
LEMMA LastOrEarlier == \A k \in Nat : \A j \in 1 .. k + 1 : j # k + 1 => j \in 1 .. k
OBVIOUS

\* A paragraph is added to the text.
LEMMA AppendInv ==
    ASSUME RInv, SymInv', [SymNext]_symVars,
           report = "sending", Len(text) < size, parent' = "idle",
           outcome' \in {"trace", "failed", "no binary"},
           outcome' = "trace" => asked' = ptr[Current],
           text' = Append(text, Paragraph),
           UNCHANGED <<ptr, report, size, reports>>
    PROVE  ReportInv'
<1> DEFINE p == Paragraph
           n == Len(text) + 1
<1>1. text \in Seq(Paragraphs) /\ Len(text) \in Nat
  BY ReportTypes
<1>2. ptr[Current] \in Events
  BY CurrentEvent
<1>3. lines' \in Seq(Line) /\ owed' \in Nat
  BY DEF SymInv, SymTypeOK
<1>4. p \in Paragraphs
  BY <1>2, <1>3 DEF Paragraph, Paragraphs
<1>5. p.outcome = "trace" /\ p.owed = 0 => p.lines = OwnLines(p.event)
  <2>1. /\ p.outcome = outcome' /\ p.owed = owed' /\ p.lines = lines'
        /\ p.event = ptr[Current]
    BY DEF Paragraph
  <2>2. owed' = 0 /\ outcome' = "trace" => lines' = OwnLines(asked)'
    BY DEF SymInv, OwnTrace
  <2>3. OwnLines(asked)' = OwnLines(asked')
    BY SameLines DEF OwnLines, LinesPerAddress
  <2> QED
    BY <2>1, <2>2, <2>3
<1> HIDE DEF p
<1>6. text' = Append(text, p)
  BY DEF p
<1>7. /\ text' \in Seq(Paragraphs) /\ Len(text') = n
      /\ text'[n] = p /\ \A i \in 1 .. Len(text) : text'[i] = text[i]
  <2>1. /\ Append(text, p) \in Seq(Paragraphs)
        /\ Len(Append(text, p)) = Len(text) + 1
        /\ \A i \in 1 .. Len(text) : Append(text, p)[i] = text[i]
        /\ Append(text, p)[Len(text) + 1] = p
    BY <1>1, <1>4, AppendParagraph, Zenon
  <2> QED
    BY <1>6, <2>1, Zenon
<1>8. ReportOwnTraces'
  <2>1. DOMAIN text' = 1 .. n
    BY <1>7, LenProperties
  <2>2. \A i : OwnLines(text[i].event)' = OwnLines(text'[i].event)
    BY SameLines DEF OwnLines, LinesPerAddress
  <2>3. SUFFICES ASSUME NEW i \in 1 .. n, text'[i].outcome = "trace", text'[i].owed = 0
                 PROVE  text'[i].lines = OwnLines(text'[i].event)
    BY <2>1, <2>2 DEF ReportOwnTraces
  <2>4. CASE i = n
    BY <1>5, <1>7, <2>3, <2>4
  <2>5. CASE i # n
    <3>1. i \in 1 .. Len(text) /\ i \in DOMAIN text
      <4>1. i \in 1 .. Len(text)
        BY <2>5, ReportTypes, LastOrEarlier, Zenon
      <4> QED
        BY <4>1, ReportTypes
    <3>2. text[i].outcome = "trace" /\ text[i].owed = 0 => text[i].lines = OwnLines(text[i].event)
      BY <3>1 DEF RInv, ReportInv, ReportOwnTraces
    <3> QED
      BY <1>7, <2>3, <3>1, <3>2
  <2> QED
    BY <2>4, <2>5
<1> QED
  BY <1>7, <1>8 DEF RInv, ReportInv, InCall

\* A paragraph without a binary, and a step of a call.
LEMMA CallStepInv ==
    ASSUME RInv, SymInv', [SymNext]_symVars, SkipSection \/ InSection
    PROVE  ReportInv'
<1>1. CASE SkipSection
  BY <1>1, AppendInv DEF SkipSection, NoBinary, handleVars
<1>2. CASE InSection
  <2>1. CallStep /\ UNCHANGED <<ptr, report, size, reports>>
    BY <1>2 DEF InSection, handleVars
  <2>2. InCall /\ asked' = asked
    BY <2>1 DEF CallStep, WriteCommand, BrokenPipe, ReadLine, ReadFails, callVars, InCall
  <2>3. /\ report = "sending" /\ Len(text) < size /\ asked = ptr[Current]
    BY <2>2 DEF RInv, ReportInv, Current
  <2>4. CASE parent' = "idle"
    <3>1. text' = Append(text, Paragraph)
      BY <1>2, <2>4 DEF InSection
    <3>2. outcome' \in {"trace", "failed"}
      BY <2>1, <2>2, <2>4
         DEF CallStep, WriteCommand, BrokenPipe, ReadLine, ReadFails, InCall
    <3> QED
      BY <2>1, <2>2, <2>3, <2>4, <3>1, <3>2, AppendInv
  <2>5. CASE parent' # "idle"
    <3>1. text' = text
      BY <1>2, <2>5 DEF InSection
    <3> QED
      BY <2>1, <2>2, <2>3, <3>1, SameLines DEF RInv, ReportInv, ReportOwnTraces, Current
  <2> QED
    BY <2>4, <2>5
<1> QED
  BY <1>1, <1>2

\* The last section goes, and the others keep their handles.
LEMMA DropInv ==
    ASSUME RInv, [SymNext]_symVars, DropSection
    PROVE  ReportInv'
<1> DEFINE s == Sections[size]
<1>1. /\ report = "sent" /\ size > 0 /\ size' = size - 1
      /\ ptr' = [ptr EXCEPT ![s] = Dead]
      /\ UNCHANGED <<parent, asked, report, text, reports>>
  BY DEF DropSection, Destroy, symVars, callVars
<1>2. Len(Sections) \in Nat /\ size \in 1 .. Len(Sections)
  BY <1>1, ReportTypes
<1>3. size' \in 0 .. Len(Sections)
  BY <1>1, <1>2
<1>4. ptr \in [Handles -> Events \cup {Null, Dead}]
  BY DEF RInv, Sound, Typed
<1>5. ASSUME NEW i \in 1 .. size' PROVE ptr'[Sections[i]] \in Events
  <2>1. i \in 1 .. Len(Sections) /\ i \in 1 .. size /\ i # size
    BY <1>1, <1>2
  <2>2. Sections[i] \in Handles /\ Sections[i] # s
    BY <1>2, <2>1, ReportHandlesAssumption
  <2>3. ptr[Sections[i]] \in Events
    BY <2>1 DEF RInv, ReportInv
  <2> QED
    BY <1>1, <1>4, <2>2, <2>3
<1>6. ~InCall
  BY <1>1 DEF RInv, ReportInv
<1> QED
  BY <1>1, <1>3, <1>5, <1>6, SameLines DEF RInv, ReportInv, ReportOwnTraces, InCall

LEMMA InitRInv == Init => RInv
<1> SUFFICES ASSUME Init PROVE RInv
  OBVIOUS
<1>1. SymInv /\ Sound(ptr, cell)
  BY SymInitInv, HandlesInitSound DEF Init
<1>2. /\ report = "none" /\ size = 0 /\ text = <<>> /\ reports = 0 /\ parent = "new"
  BY DEF Init, SymInit
<1>3. /\ size \in 0 .. Len(Sections) /\ reports \in 0 .. MaxReports
      /\ <<>> \in Seq(Paragraphs) /\ DOMAIN <<>> = {}
  BY <1>2, ReportHandlesAssumption, MaxReportsAssumption
<1> QED
  BY <1>1, <1>2, <1>3 DEF RInv, ReportInv, ReportOwnTraces, InCall

\* Every step preserves the invariant.
LEMMA NextRInv == RInv /\ [Next]_vars => RInv'
<1> SUFFICES ASSUME RInv, [Next]_vars PROVE RInv'
  OBVIOUS
<1>1. [SymNext]_symVars
  BY SymbolizerStep
<1>2. SymInv'
  BY <1>1, SymNextInv DEF RInv
<1>3. Sound(ptr, cell)'
  <2>1. CASE HandlesNext
    BY <2>1, HandleOpSound DEF HandlesNext, RInv
  <2>2. CASE UNCHANGED handleVars
    BY <2>2 DEF handleVars, RInv
  <2> QED
    BY <2>1, <2>2, HandleStep
<1>4. ReportInv'
  BY <1>1, <1>2, OutsideCallsInv, ClientInv, EmplaceInv, SymbolizeInv, CallStepInv, DropInv
     DEF Next, ReportStep
<1> QED
  BY <1>2, <1>3, <1>4 DEF RInv

-----------------------------------------------------------------------------
\* The inductive invariant of the composition.
THEOREM Invariance == Spec => []RInv
<1>1. Init => RInv
  BY InitRInv
<1>2. RInv /\ [Next]_vars => RInv'
  BY NextRInv
<1> QED
  BY <1>1, <1>2, PTL DEF Spec

\* What the reports do to the symbolizer is what the symbolizer allows.
THEOREM ImplementsSymbolizer == Spec => SymSpec
<1>1. Init => SymInit
  BY DEF Init
<1>2. RInv /\ [Next]_vars => [SymNext]_symVars
  BY SymbolizerStep
<1> QED
  BY <1>1, <1>2, Invariance, PTL DEF Spec, SymSpec

\* What the reports and the other clients do to handles is a sequence of the
\* operations of Event.
THEOREM ImplementsHandles == Spec => HandlesSpec
<1>1. Init => HandlesInit
  BY DEF Init
<1>2. RInv /\ [Next]_vars => [HandlesNext]_handleVars
  BY HandleStep
<1> QED
  BY <1>1, <1>2, Invariance, PTL DEF Spec, HandlesSpec

\* Every variable keeps its type.
THEOREM TypeCorrect == Spec => []TypeOK
<1>1. RInv => TypeOK
  <2> SUFFICES ASSUME RInv PROVE TypeOK
    OBVIOUS
  <2>1. SymTypeOK /\ HandlesTypeOK
    BY SoundIsRefExact DEF RInv, SymInv
  <2> QED
    BY <2>1 DEF RInv, ReportInv, TypeOK
<1> QED
  BY <1>1, Invariance, PTL

\* An event lives as long as the database, an analyzer or a section of a report has
\* it, and no longer.
THEOREM ReportsKeepCounts == Spec => []RefExact
<1>1. RInv => RefExact
  BY SoundIsRefExact DEF RInv
<1> QED
  BY <1>1, Invariance, PTL

\* What the calls of one report leave in the pipes is what they gave up on, for
\* the next report as well.
THEOREM ReportsStayLate == Spec => []NeverCaughtUp
<1>1. RInv => NeverCaughtUp
  BY DEF RInv, SymInv, CountInv, NeverCaughtUp
<1> QED
  BY <1>1, Invariance, PTL

\* Every section of a report has the stack trace of its own event, as long as no
\* call has given up.
THEOREM ReportsOwnTraces == Spec => []ReportOwnTraces
<1>1. RInv => ReportOwnTraces
  BY DEF RInv, ReportInv
<1> QED
  BY <1>1, Invariance, PTL

\* No report waits to write a question as long as no call has given up.
THEOREM ReportsNeverWait == Spec => []WaitsOnlyBehindLate
  BY ImplementsSymbolizer, NeverWaits, PTL
=============================================================================
