------------------------------ MODULE Executable ------------------------------
(***************************************************************************)
(* The main function (executable/src/main.cpp): the analyzers are found,   *)
(* then the dump file is opened and its events are read.                   *)
(***************************************************************************)
EXTENDS EventFileReader, AnalyzerRules

execVars == <<vars, searchVars>>

ExecInit == Init /\ SearchInit

FindAnalyzers == SearchNext /\ UNCHANGED vars

\* analyzers.empty(), negated
Enough == loaded > 0

RunAnalysis ==
    /\ search = "done"
    /\ \/ \E f \in ReadableFiles : Open(f)
       \/ ~Enough /\ NothingToDo
       \/ Enough /\ StartUp
       \/ Refill \/ Take \/ Finish
    /\ UNCHANGED searchVars

ExecNext == FindAnalyzers \/ RunAnalysis

ExecSpec == ExecInit /\ [][ExecNext]_execVars
ExecFairSpec == ExecSpec /\ WF_execVars(ExecNext)
=============================================================================
