--------------------------- MODULE SymbolizerProofs ---------------------------
(***************************************************************************)
(* Proofs about Symbolizer, for every set of traces of any lengths, every  *)
(* size of the pipes and every number of failures after which a call gives *)
(* up: what calls leave in the pipes, and whose lines a call returns.      *)
(***************************************************************************)
EXTENDS Symbolizer, SequenceTheorems, TLAPS

\* What is expected is what the tool prints.
LEMMA ExpectedIsAnswered ==
    ASSUME NEW t \in Traces
    PROVE  /\ Frames[t] \in Nat
           /\ LinesPerAddress \in {1, 2}
           /\ Expected(t) \in Nat
           /\ Expected(t) = LinesPerAddress * Frames[t]
BY FramesAssumption DEF LinesPerAddress, Expected, Addr2lineExpects, AtosExpects

LEMMA AddressesType ==
    ASSUME NEW t \in Traces
    PROVE  /\ Addresses(t) \in Seq(Address)
           /\ Len(Addresses(t)) = Frames[t]
           /\ \A i \in 1 .. Frames[t] : Addresses(t)[i] = <<t, i>>
BY FramesAssumption DEF Addresses, Address

LEMMA AnswerType ==
    ASSUME NEW a \in Address
    PROVE  /\ Answer(a) \in Seq(Line)
           /\ Len(Answer(a)) = LinesPerAddress
           /\ \A k \in 1 .. LinesPerAddress : Answer(a)[k] = <<a, k>>
BY DEF Answer, Line, LinesPerAddress

\* The lines of the address after the first m are its answer, in its order.
OwnLine(t, i) ==
    << <<t, ((i - 1) \div LinesPerAddress) + 1>>, ((i - 1) % LinesPerAddress) + 1 >>

\* When s of f addresses are unanswered, their lines and those that came are all.
LEMMA LinesBefore ==
    ASSUME NEW s \in Nat, NEW o \in Nat, NEW l \in Nat, NEW f \in Nat,
           NEW lpa \in {1, 2}, lpa * s + o = lpa * f - l
    PROVE  l + o = lpa * (f - s)
<1>1. CASE lpa = 1
  BY <1>1
<1>2. CASE lpa = 2
  BY <1>2
<1> QED
  BY <1>1, <1>2

LEMMA OwnLineOfAnswer ==
    ASSUME NEW t, NEW m \in Nat, NEW k \in 1 .. LinesPerAddress
    PROVE  OwnLine(t, LinesPerAddress * m + k) = << <<t, m + 1>>, k >>
<1>1. CASE LinesPerAddress = 1
  <2>1. k = 1 /\ LinesPerAddress * m + k = m + 1
    BY <1>1
  <2>2. (m + 1 - 1) \div 1 = m /\ (m + 1 - 1) % 1 = 0
    OBVIOUS
  <2> QED
    BY <1>1, <2>1, <2>2 DEF OwnLine
<1>2. CASE LinesPerAddress = 2
  <2>1. LinesPerAddress * m + k - 1 = 2 * m + (k - 1) /\ k - 1 \in {0, 1}
    BY <1>2
  <2>2. (2 * m + (k - 1)) \div 2 = m /\ (2 * m + (k - 1)) % 2 = k - 1
    BY <2>1
  <2>3. m + 1 = m + 1 /\ (k - 1) + 1 = k
    BY <1>2
  <2> QED
    BY <1>2, <2>1, <2>2, <2>3 DEF OwnLine
<1> QED
  BY <1>1, <1>2 DEF LinesPerAddress

-----------------------------------------------------------------------------
(* The strengthening.                                                      *)

\* The lines in flight are those given up on and, within a call, those of its
\* question that it has not read.
CountInv ==
    /\ parent \in {"new", "idle", "writing"} => InFlight = owed
    /\ parent = "reading" => InFlight = owed + Expected(asked) - Len(lines)

CallInv ==
    InCall => /\ failures < MaxFailures /\ outcome = "none"
              /\ parent = "writing" => lines = <<>>

\* With nothing owed, the lines read, those on the way and the answers to the
\* addresses on the way are the lines of the trace.
OwnInv ==
    parent = "reading" /\ owed = 0 =>
        /\ \A i \in 1 .. Len(lines) : lines[i] = OwnLine(asked, i)
        /\ \A i \in 1 .. Len(stdout) : stdout[i] = OwnLine(asked, Len(lines) + i)
        /\ \A i \in 1 .. Len(stdin) :
               stdin[i] = <<asked, Frames[asked] - Len(stdin) + i>>

SymInv == SymTypeOK /\ CountInv /\ CallInv /\ OwnInv /\ OwnTrace

LEMMA InFlightType ==
    ASSUME SymTypeOK
    PROVE  /\ InFlight \in Nat /\ Len(stdin) \in Nat /\ Len(stdout) \in Nat
           /\ Len(lines) \in Nat
           /\ InFlight = 0 => stdin = <<>> /\ stdout = <<>>
<1>1. Len(stdin) \in Nat /\ Len(stdout) \in Nat /\ Len(lines) \in Nat
  <2>1. stdin \in Seq(Address) /\ stdout \in Seq(Line) /\ lines \in Seq(Line)
    BY DEF SymTypeOK
  <2> QED
    BY <2>1, LenProperties
<1>2. InFlight \in Nat /\ (InFlight = 0 => Len(stdin) = 0 /\ Len(stdout) = 0)
  <2>1. CASE LinesPerAddress = 1
    BY <1>1, <2>1 DEF InFlight
  <2>2. CASE LinesPerAddress = 2
    BY <1>1, <2>2 DEF InFlight
  <2> QED
    BY <2>1, <2>2 DEF LinesPerAddress
<1>3. (Len(stdin) = 0 => stdin = <<>>) /\ (Len(stdout) = 0 => stdout = <<>>)
  BY EmptySeq DEF SymTypeOK
<1> QED
  BY <1>1, <1>2, <1>3

LEMMA SymInitInv == SymInit => SymInv
<1> SUFFICES ASSUME SymInit PROVE SymInv
  OBVIOUS
<1>1. /\ parent = "new" /\ lines = <<>> /\ failures = 0 /\ outcome = "none"
      /\ stdin = <<>> /\ stdout = <<>> /\ owed = 0
  BY DEF SymInit
<1>2. asked \in Traces
  BY TracesAssumption DEF SymInit
<1>3. SymTypeOK
  BY <1>1, <1>2, MaxFailuresAssumption DEF SymInit, SymTypeOK
<1>4. InFlight = owed
  BY <1>1 DEF InFlight, LinesPerAddress
<1> QED
  BY <1>1, <1>3, <1>4 DEF SymInv, CountInv, CallInv, InCall, OwnInv, OwnTrace

-----------------------------------------------------------------------------
(* One lemma for each action.                                              *)

LEMMA CreateInv ==
    ASSUME SymInv, CreateNull \/ Create
    PROVE  SymInv'
<1>1. /\ parent = "new" /\ parent' \in {"idle", "dead"}
      /\ child' \in {"none", "running", "dead"}
      /\ UNCHANGED <<tool, asked, lines, failures, outcome, stdin, stdout, owed>>
  BY DEF CreateNull, Create, callVars, pipeVars, SymInv, SymTypeOK
<1> QED
  BY <1>1 DEF SymInv, SymTypeOK, CountInv, InFlight, LinesPerAddress, CallInv, InCall,
              OwnInv, OwnTrace, OwnLines

LEMMA NoBinaryInv ==
    ASSUME SymInv, NEW t \in Traces, NoBinary(t)
    PROVE  SymInv'
BY DEF NoBinary, pipeVars, SymInv, SymTypeOK, CountInv, InFlight, LinesPerAddress,
       CallInv, InCall, OwnInv, OwnTrace

LEMMA BeginCallInv ==
    ASSUME SymInv, NEW t \in Traces, BeginCall(t)
    PROVE  SymInv'
<1>1. /\ parent = "idle" /\ parent' = "writing" /\ asked' = t /\ lines' = <<>>
      /\ failures' = 0 /\ outcome' = "none"
      /\ UNCHANGED <<tool, child, stdin, stdout, owed>>
  BY DEF BeginCall, pipeVars
<1>2. SymTypeOK'
  <2>1. 0 \in 0 .. MaxFailures /\ <<>> \in Seq(Line)
    BY MaxFailuresAssumption
  <2>2. failures' \in 0 .. MaxFailures /\ lines' \in Seq(Line)
    BY <1>1, <2>1
  <2>3. asked' \in Traces
    BY <1>1
  <2> QED
    BY <1>1, <2>2, <2>3 DEF SymInv, SymTypeOK
<1> QED
  BY <1>1, <1>2, MaxFailuresAssumption
     DEF SymInv, CountInv, InFlight, LinesPerAddress, CallInv, InCall, OwnInv, OwnTrace

LEMMA WriteCommandInv ==
    ASSUME SymInv, WriteCommand
    PROVE  SymInv'
<1>1. /\ parent = "writing" /\ parent' = "reading"
      /\ stdin' = stdin \o Addresses(asked)
      /\ UNCHANGED <<tool, asked, lines, failures, outcome, child, stdout, owed>>
  BY DEF WriteCommand, callVars
<1>2. asked \in Traces /\ stdin \in Seq(Address) /\ lines = <<>>
  BY <1>1 DEF SymInv, SymTypeOK, CallInv, InCall
<1>3. /\ stdin' \in Seq(Address)
      /\ Len(stdin') = Len(stdin) + Frames[asked]
      /\ Len(stdin) \in Nat /\ Frames[asked] \in Nat
  <2>1. Addresses(asked) \in Seq(Address) /\ Len(Addresses(asked)) = Frames[asked]
    BY <1>2, AddressesType
  <2>2. Frames[asked] \in Nat /\ Len(stdin) \in Nat
    BY <1>2, ExpectedIsAnswered
  <2> QED
    BY <1>1, <1>2, <2>1, <2>2, ConcatProperties
<1>4. SymTypeOK'
  BY <1>1, <1>3 DEF SymInv, SymTypeOK
<1>5. CountInv'
  <2>1. InFlight = owed /\ InFlight \in Nat /\ Len(stdout) \in Nat
    BY <1>1, InFlightType DEF SymInv, CountInv
  <2>2. LinesPerAddress' = LinesPerAddress /\ Expected(asked)' = Expected(asked)
    BY <1>1 DEF LinesPerAddress, Expected
  <2>3. InFlight' = InFlight + LinesPerAddress * Frames[asked]
    <3>1. InFlight' = LinesPerAddress * (Len(stdin) + Frames[asked]) + Len(stdout)
      BY <1>1, <1>3, <2>2 DEF InFlight
    <3>2. CASE LinesPerAddress = 1
      BY <1>3, <2>1, <3>1, <3>2 DEF InFlight
    <3>3. CASE LinesPerAddress = 2
      BY <1>3, <2>1, <3>1, <3>3 DEF InFlight
    <3> QED
      BY <3>2, <3>3 DEF LinesPerAddress
  <2>4. Len(lines') = 0
    BY <1>1, <1>2
  <2> QED
    BY <1>1, <1>2, <2>1, <2>2, <2>3, <2>4, ExpectedIsAnswered DEF CountInv
<1>6. OwnInv'
  <2>1. SUFFICES ASSUME owed = 0
                 PROVE  /\ \A i \in 1 .. Len(lines') : lines'[i] = OwnLine(asked, i)'
                        /\ \A i \in 1 .. Len(stdout') :
                               stdout'[i] = OwnLine(asked, Len(lines) + i)'
                        /\ \A i \in 1 .. Len(stdin') :
                               stdin'[i] = <<asked, Frames[asked] - Len(stdin') + i>>
    BY <1>1 DEF OwnInv
  <2>2. stdin = <<>> /\ stdout = <<>>
    BY <1>1, <2>1, InFlightType DEF SymInv, CountInv
  <2>3. stdin' = Addresses(asked)
    BY <1>1, <1>2, <2>2, AddressesType, ConcatEmptySeq
  <2>4. \A i \in 1 .. Len(stdin') : stdin'[i] = <<asked, Frames[asked] - Len(stdin') + i>>
    <3>1. Len(stdin') = Frames[asked]
      BY <1>2, <2>3, AddressesType
    <3>2. \A i \in 1 .. Frames[asked] : Frames[asked] - Frames[asked] + i = i
      BY <1>3
    <3> QED
      BY <1>2, <2>3, <3>1, <3>2, AddressesType
  <2> QED
    BY <1>1, <1>2, <2>2, <2>4
<1> QED
  BY <1>1, <1>4, <1>5, <1>6 DEF SymInv, CallInv, InCall, OwnTrace

\* An end of the analysis.
LEMMA DeadInv ==
    ASSUME SymInv, BrokenPipe \/ ReadAborts
    PROVE  SymInv'
<1>1. /\ parent' = "dead"
      /\ UNCHANGED <<tool, asked, lines, failures, outcome, child, stdin, stdout, owed>>
  BY DEF BrokenPipe, ReadAborts, callVars, pipeVars
<1> QED
  BY <1>1 DEF SymInv, SymTypeOK, CountInv, CallInv, InCall, OwnInv, OwnTrace, OwnLines,
              LinesPerAddress

\* The line read is the next of the trace, and the last one completes it.
LEMMA ReadLineInv ==
    ASSUME SymInv, ReadLine
    PROVE  SymInv'
<1> DEFINE n == Len(lines) + 1
<1>1. /\ parent = "reading" /\ stdout # <<>>
      /\ lines' = Append(lines, Head(stdout)) /\ stdout' = Tail(stdout) /\ failures' = 0
      /\ UNCHANGED <<tool, asked, child, stdin, owed>>
  BY DEF ReadLine
<1>2. /\ stdout \in Seq(Line) /\ lines \in Seq(Line) /\ asked \in Traces
      /\ outcome = "none" /\ Len(stdin) \in Nat /\ stdin \in Seq(Address)
  BY <1>1 DEF SymInv, SymTypeOK, CallInv, InCall
<1>3. /\ stdout' \in Seq(Line) /\ Len(stdout') = Len(stdout) - 1
      /\ Len(stdout) \in Nat \ {0} /\ Head(stdout) = stdout[1] /\ Head(stdout) \in Line
      /\ \A i \in 1 .. Len(stdout') : stdout'[i] = stdout[i + 1]
  BY <1>1, <1>2
<1>4. /\ lines' \in Seq(Line) /\ Len(lines') = n /\ Len(lines) \in Nat
      /\ lines'[n] = stdout[1] /\ \A i \in 1 .. Len(lines) : lines'[i] = lines[i]
  BY <1>1, <1>2, <1>3
<1>5. \/ n = Expected(asked) /\ parent' = "idle" /\ outcome' = "trace"
      \/ n # Expected(asked) /\ UNCHANGED <<parent, outcome>>
  BY DEF ReadLine, Complete
<1>6. SymTypeOK'
  <2>1. 0 \in 0 .. MaxFailures
    BY MaxFailuresAssumption
  <2>2. failures' \in 0 .. MaxFailures
    BY <1>1, <2>1
  <2>3. /\ parent' \in {"new", "idle", "writing", "reading", "gone", "dead"}
        /\ outcome' \in {"none", "trace", "failed", "no binary"}
    BY <1>1, <1>2, <1>5
  <2>4. lines' \in Seq(Line) /\ stdout' \in Seq(Line)
    BY <1>3, <1>4
  <2> QED
    BY <1>1, <2>2, <2>3, <2>4 DEF SymInv, SymTypeOK
<1>7. LinesPerAddress' = LinesPerAddress /\ Expected(asked)' = Expected(asked)
  BY <1>1 DEF LinesPerAddress, Expected
<1>8. InFlight = owed + Expected(asked) - Len(lines) /\ owed \in Nat /\ Expected(asked) \in Nat
  BY <1>1, <1>2, ExpectedIsAnswered DEF SymInv, SymTypeOK, CountInv
<1>9. CountInv'
  <2>1. InFlight' = InFlight - 1
    <3>1. LinesPerAddress \in {1, 2}
      BY DEF LinesPerAddress
    <3> QED
      BY <1>1, <1>2, <1>3, <1>7, <3>1 DEF InFlight
  <2>2. InFlight' = owed + Expected(asked) - n
    BY <1>4, <1>8, <2>1
  <2>3. CASE parent' = "idle"
    <3>1. n = Expected(asked)
      BY <1>1, <1>5, <2>3
    <3> QED
      BY <1>1, <1>8, <2>2, <2>3, <3>1 DEF CountInv
  <2>4. CASE parent' = "reading"
    BY <1>1, <1>4, <1>7, <2>2, <2>4 DEF CountInv
  <2> QED
    BY <1>1, <1>5, <2>3, <2>4
<1>10. CallInv'
  BY <1>1, <1>2, <1>5, MaxFailuresAssumption DEF CallInv, InCall
<1>11. ASSUME owed = 0
       PROVE  /\ \A i \in 1 .. n : lines'[i] = OwnLine(asked, i)
              /\ \A i \in 1 .. Len(stdout') : stdout'[i] = OwnLine(asked, n + i)
              /\ \A i \in 1 .. Len(stdin) :
                     stdin[i] = <<asked, Frames[asked] - Len(stdin) + i>>
  <2>1. /\ \A i \in 1 .. Len(lines) : lines[i] = OwnLine(asked, i)
        /\ \A i \in 1 .. Len(stdout) : stdout[i] = OwnLine(asked, Len(lines) + i)
        /\ \A i \in 1 .. Len(stdin) :
               stdin[i] = <<asked, Frames[asked] - Len(stdin) + i>>
    BY <1>1, <1>11 DEF SymInv, OwnInv
  <2>2. lines'[n] = OwnLine(asked, n)
    BY <1>3, <1>4, <2>1
  <2>3. ASSUME NEW i \in 1 .. Len(stdout') PROVE stdout'[i] = OwnLine(asked, n + i)
    <3>1. i + 1 \in 1 .. Len(stdout) /\ Len(lines) + (i + 1) = n + i
      BY <1>3, <1>4
    <3> QED
      BY <1>3, <2>1, <3>1
  <2>4. ASSUME NEW i \in 1 .. n PROVE lines'[i] = OwnLine(asked, i)
    <3>1. i = n \/ i \in 1 .. Len(lines)
      BY <1>4
    <3> QED
      BY <1>4, <2>1, <2>2, <3>1
  <2> QED
    BY <2>1, <2>3, <2>4
<1>12. OwnInv'
  BY <1>1, <1>4, <1>7, <1>11 DEF OwnInv, OwnLine
<1>13. OwnTrace'
  <2>1. SUFFICES ASSUME owed = 0, outcome' = "trace"
                 PROVE  lines' = OwnLines(asked)'
    BY <1>1 DEF OwnTrace
  <2>2. n = LinesPerAddress * Frames[asked]
    BY <1>2, <1>5, <2>1, ExpectedIsAnswered
  <2>3. OwnLines(asked)' = [i \in 1 .. n |-> OwnLine(asked, i)]
    BY <1>1, <1>7, <2>2 DEF OwnLines, OwnLine
  <2>4. lines' = [i \in 1 .. n |-> lines'[i]]
    BY <1>4
  <2> QED
    BY <1>11, <2>1, <2>3, <2>4
<1> QED
  BY <1>6, <1>9, <1>10, <1>12, <1>13 DEF SymInv

LEMMA ReadFailsInv ==
    ASSUME SymInv, ReadFails
    PROVE  SymInv'
<1>1. /\ parent = "reading" /\ stdout = <<>> /\ failures' = failures + 1
      /\ UNCHANGED <<tool, asked, lines, child, stdin, stdout>>
  BY DEF ReadFails, pipeVars
<1>2. \/ /\ failures + 1 = MaxFailures /\ parent' = "idle" /\ outcome' = "failed"
         /\ owed' = owed + Expected(asked) - Len(lines)
      \/ failures + 1 # MaxFailures /\ UNCHANGED <<parent, outcome, owed>>
  BY DEF ReadFails, GivesUp
<1>3. /\ InFlight = owed + Expected(asked) - Len(lines) /\ InFlight \in Nat
      /\ failures \in Nat /\ failures < MaxFailures /\ MaxFailures \in Nat
      /\ outcome = "none"
  BY <1>1, InFlightType, MaxFailuresAssumption
     DEF SymInv, SymTypeOK, CountInv, CallInv, InCall
<1>4. LinesPerAddress' = LinesPerAddress /\ Expected(asked)' = Expected(asked)
      /\ InFlight' = InFlight
  BY <1>1 DEF LinesPerAddress, Expected, InFlight
<1>5. failures' \in 0 .. MaxFailures
  BY <1>1, <1>3
<1>6. CASE parent' = "idle" /\ outcome' = "failed" /\ owed' = InFlight
  <2>1. SymTypeOK'
    BY <1>1, <1>3, <1>5, <1>6 DEF SymInv, SymTypeOK
  <2> QED
    BY <1>4, <1>6, <2>1 DEF SymInv, CountInv, CallInv, InCall, OwnInv, OwnTrace
<1>7. CASE failures + 1 # MaxFailures /\ UNCHANGED <<parent, outcome, owed>>
  <2>1. SymTypeOK'
    BY <1>1, <1>5, <1>7 DEF SymInv, SymTypeOK
  <2>2. failures' < MaxFailures
    BY <1>1, <1>3, <1>7
  <2>3. OwnInv'
    BY <1>1, <1>4, <1>7 DEF SymInv, OwnInv, OwnLine
  <2>4. OwnTrace' /\ CallInv'
    BY <1>1, <1>3, <1>7, <2>2 DEF OwnTrace, CallInv, InCall
  <2>5. CountInv'
    BY <1>1, <1>4, <1>7 DEF SymInv, CountInv
  <2> QED
    BY <2>1, <2>3, <2>4, <2>5 DEF SymInv
<1> QED
  BY <1>2, <1>3, <1>6, <1>7

LEMMA DestroySymbolizerInv ==
    ASSUME SymInv, DestroySymbolizer
    PROVE  SymInv'
<1>1. /\ parent' = "gone" /\ child' \in {"none", "dead"}
      /\ stdin' = <<>> /\ stdout' = <<>>
      /\ UNCHANGED <<tool, asked, lines, failures, outcome, owed>>
  BY DEF DestroySymbolizer, callVars
<1>2. SymTypeOK'
  <2>1. <<>> \in Seq(Address) /\ <<>> \in Seq(Line)
    OBVIOUS
  <2>2. stdin' \in Seq(Address) /\ stdout' \in Seq(Line)
    BY <1>1, <2>1
  <2> QED
    BY <1>1, <2>2 DEF SymInv, SymTypeOK
<1>3. CountInv' /\ CallInv' /\ OwnInv'
  BY <1>1 DEF CountInv, CallInv, InCall, OwnInv
<1>4. OwnTrace'
  BY <1>1 DEF SymInv, OwnTrace, OwnLines, LinesPerAddress
<1> QED
  BY <1>2, <1>3, <1>4 DEF SymInv

\* An answer takes an address out of one pipe and puts its lines into the other.
LEMMA ChildAnswersInv ==
    ASSUME SymInv, ChildAnswers
    PROVE  SymInv'
<1> DEFINE a == Head(stdin)
<1>1. /\ stdin # <<>> /\ stdout' = stdout \o Answer(a) /\ stdin' = Tail(stdin)
      /\ UNCHANGED <<tool, parent, asked, lines, failures, outcome, child, owed>>
  BY DEF ChildAnswers, callVars
<1>2. /\ stdout \in Seq(Line) /\ stdin \in Seq(Address) /\ asked \in Traces
      /\ lines \in Seq(Line)
  BY DEF SymInv, SymTypeOK
<1>3. /\ stdin' \in Seq(Address) /\ Len(stdin') = Len(stdin) - 1
      /\ Len(stdin) \in Nat \ {0} /\ a = stdin[1] /\ a \in Address
      /\ \A i \in 1 .. Len(stdin') : stdin'[i] = stdin[i + 1]
  BY <1>1, <1>2
<1>4. LinesPerAddress \in {1, 2}
  BY DEF LinesPerAddress
<1>5. /\ stdout' \in Seq(Line)
      /\ Len(stdout') = Len(stdout) + LinesPerAddress
      /\ Len(stdout) \in Nat /\ Len(lines) \in Nat
      /\ \A i \in 1 .. Len(stdout) + LinesPerAddress :
             stdout'[i] = IF i <= Len(stdout) THEN stdout[i] ELSE Answer(a)[i - Len(stdout)]
  <2>1. Answer(a) \in Seq(Line) /\ Len(Answer(a)) = LinesPerAddress
    BY <1>3, AnswerType
  <2>2. Len(stdout) \in Nat /\ Len(lines) \in Nat
    BY <1>2
  <2> HIDE DEF a
  <2> QED
    BY <1>1, <1>2, <2>1, <2>2, ConcatProperties
<1>6. SymTypeOK'
  BY <1>1, <1>3, <1>5 DEF SymInv, SymTypeOK
<1>7. LinesPerAddress' = LinesPerAddress /\ Expected(asked)' = Expected(asked)
  BY <1>1 DEF LinesPerAddress, Expected
<1>8. InFlight' = InFlight
  BY <1>3, <1>4, <1>5, <1>7 DEF InFlight
<1>9. CountInv' /\ CallInv' /\ OwnTrace'
  BY <1>1, <1>7, <1>8 DEF SymInv, CountInv, CallInv, InCall, OwnTrace, OwnLines
<1>10. OwnInv'
  <2>1. SUFFICES ASSUME parent = "reading", owed = 0
                 PROVE  /\ \A i \in 1 .. Len(lines) : lines[i] = OwnLine(asked, i)
                        /\ \A i \in 1 .. Len(stdout') :
                               stdout'[i] = OwnLine(asked, Len(lines) + i)
                        /\ \A i \in 1 .. Len(stdin') :
                               stdin'[i] = <<asked, Frames[asked] - Len(stdin') + i>>
    BY <1>1, <1>7 DEF OwnInv, OwnLine
  <2>2. /\ \A i \in 1 .. Len(lines) : lines[i] = OwnLine(asked, i)
        /\ \A i \in 1 .. Len(stdout) : stdout[i] = OwnLine(asked, Len(lines) + i)
        /\ \A i \in 1 .. Len(stdin) :
               stdin[i] = <<asked, Frames[asked] - Len(stdin) + i>>
    BY <2>1 DEF SymInv, OwnInv
  <2> DEFINE m == Frames[asked] - Len(stdin)
  <2>3. Frames[asked] \in Nat
    BY <1>2, ExpectedIsAnswered
  <2>4. a = <<asked, m + 1>>
    BY <1>3, <2>2, <2>3
  <2>5. m \in Nat
    BY <1>3, <2>3, <2>4 DEF Address
  <2>6. Len(lines) + Len(stdout) = LinesPerAddress * m
    <3>1. InFlight = Expected(asked) - Len(lines)
      BY <1>2, <2>1, ExpectedIsAnswered DEF SymInv, CountInv
    <3>2. LinesPerAddress * Len(stdin) + Len(stdout)
              = LinesPerAddress * Frames[asked] - Len(lines)
      BY <1>2, <3>1, ExpectedIsAnswered DEF InFlight
    <3>3. Len(stdin) \in Nat /\ Len(stdout) \in Nat /\ Len(lines) \in Nat
      BY <1>3, <1>5
    <3> DEFINE s == Len(stdin)
               o == Len(stdout)
               l == Len(lines)
               f == Frames[asked]
               lpa == LinesPerAddress
    <3> HIDE DEF s, o, l, f, lpa
    <3>4. l + o = lpa * (f - s)
      <4>1. lpa * s + o = lpa * f - l /\ lpa \in {1, 2}
        BY <1>4, <3>2 DEF s, o, l, f, lpa
      <4>2. s \in Nat /\ o \in Nat /\ l \in Nat /\ f \in Nat
        BY <2>3, <3>3 DEF s, o, l, f
      <4> QED
        BY <4>1, <4>2, LinesBefore
    <3> QED
      BY <3>4 DEF s, o, l, f, lpa
  <2>7. ASSUME NEW i \in 1 .. Len(stdout')
        PROVE  stdout'[i] = OwnLine(asked, Len(lines) + i)
    <3>1. CASE i <= Len(stdout)
      <4>1. stdout'[i] = stdout[i] /\ i \in 1 .. Len(stdout)
        BY <1>4, <1>5, <3>1
      <4> QED
        BY <2>2, <4>1
    <3>2. CASE ~(i <= Len(stdout))
      <4> DEFINE k == i - Len(stdout)
      <4>1. k \in 1 .. LinesPerAddress
        BY <1>4, <1>5, <3>2
      <4>2. stdout'[i] = <<a, k>>
        BY <1>3, <1>4, <1>5, <3>2, <4>1, AnswerType
      <4>3. Len(lines) + i = LinesPerAddress * m + k
        BY <1>4, <1>5, <2>5, <2>6
      <4>4. OwnLine(asked, LinesPerAddress * m + k) = << <<asked, m + 1>>, k >>
        BY <2>5, <4>1, OwnLineOfAnswer
      <4> QED
        BY <2>4, <4>2, <4>3, <4>4
    <3> QED
      BY <3>1, <3>2
  <2>8. ASSUME NEW i \in 1 .. Len(stdin')
        PROVE  stdin'[i] = <<asked, Frames[asked] - Len(stdin') + i>>
    <3> DEFINE f == Frames[asked]
    <3>1. i + 1 \in 1 .. Len(stdin) /\ f - Len(stdin) + (i + 1) = f - Len(stdin') + i
      <4>1. f \in Nat /\ i \in Nat /\ i <= Len(stdin) - 1 /\ 1 <= i
        BY <1>3, <2>3
      <4> HIDE DEF f
      <4> QED
        BY <1>3, <4>1
    <3>2. stdin[i + 1] = <<asked, Frames[asked] - Len(stdin) + (i + 1)>>
      BY <2>2, <3>1
    <3> QED
      BY <1>3, <3>1, <3>2
  <2> QED
    BY <2>2, <2>7, <2>8
<1> QED
  BY <1>6, <1>9, <1>10 DEF SymInv

LEMMA ChildEndsInv ==
    ASSUME SymInv, ChildEnds
    PROVE  SymInv'
BY DEF ChildEnds, callVars, pipeVars, SymInv, SymTypeOK, CountInv, InFlight, LinesPerAddress,
       Expected, CallInv, InCall, OwnInv, OwnLine, OwnTrace, OwnLines

\* Every step preserves the invariant.
LEMMA SymNextInv == SymInv /\ [SymNext]_symVars => SymInv'
<1> SUFFICES ASSUME SymInv, [SymNext]_symVars PROVE SymInv'
  OBVIOUS
<1>1. CASE CreateNull \/ Create
  BY <1>1, CreateInv
<1>2. CASE \E t \in Traces : NoBinary(t) \/ BeginCall(t)
  BY <1>2, NoBinaryInv, BeginCallInv
<1>3. CASE CallStep \/ ReadAborts
  BY <1>3, WriteCommandInv, DeadInv, ReadLineInv, ReadFailsInv DEF CallStep
<1>4. CASE ChildStep
  BY <1>4, ChildAnswersInv, ChildEndsInv DEF ChildStep
<1>5. CASE DestroySymbolizer
  BY <1>5, DestroySymbolizerInv
<1>6. CASE UNCHANGED symVars
  BY <1>6 DEF symVars, callVars, pipeVars, SymInv, SymTypeOK, CountInv, InFlight,
              LinesPerAddress, Expected, CallInv, InCall, OwnInv, OwnLine, OwnTrace, OwnLines
<1> QED
  BY <1>1, <1>2, <1>3, <1>4, <1>5, <1>6 DEF SymNext

-----------------------------------------------------------------------------
\* The inductive invariant of the symbolizer: every line in flight is accounted
\* for, and while none is owed the pipes hold the rest of the trace asked for.
THEOREM SymInvariance == SymSpec => []SymInv
<1>1. SymInit => SymInv
  BY SymInitInv
<1>2. SymInv /\ [SymNext]_symVars => SymInv'
  BY SymNextInv
<1> QED
  BY <1>1, <1>2, PTL DEF SymSpec

\* A call that returns a trace leaves as many lines in the pipes as it found: what
\* was late once is in front of every later answer.
THEOREM LinesStayLate == SymSpec => []NeverCaughtUp
<1>1. SymInv => NeverCaughtUp
  BY DEF SymInv, CountInv, NeverCaughtUp
<1> QED
  BY <1>1, SymInvariance, PTL

\* While no call has given up, a trace is that of the event it was asked for,
\* complete and in order.
THEOREM ReturnsOwnTrace == SymSpec => []OwnTrace
<1>1. SymInv => OwnTrace
  BY DEF SymInv
<1> QED
  BY <1>1, SymInvariance, PTL

\* As long as no call has given up, the pipes are empty when a question is written,
\* and it has room.
LEMMA InvNeverWaits == SymInv => WaitsOnlyBehindLate
<1>0. SymInv => owed \in Nat
  BY DEF SymInv, SymTypeOK
<1> SUFFICES ASSUME SymInv, parent = "writing", owed = 0 PROVE HasRoom(asked)
  BY <1>0 DEF WaitsOnlyBehindLate, Blocked
<1>1. InFlight = 0
  BY DEF SymInv, CountInv
<1>2. Len(stdin) = 0
  BY <1>1, InFlightType DEF SymInv
<1>3. asked \in Traces /\ Frames[asked] \in Nat /\ Frames[asked] <= StdinRoom
  BY FramesAssumption, RoomAssumption DEF SymInv, SymTypeOK
<1> QED
  BY <1>2, <1>3 DEF HasRoom

\* While no call has given up, the analysis and the child never wait for each other.
THEOREM NeverWaits == SymSpec => []WaitsOnlyBehindLate
  BY InvNeverWaits, SymInvariance, PTL
=============================================================================
