----------------------------- MODULE MCExecutable -----------------------------
(* TLC instances of Executable. *)
EXTENDS Executable, MCAnalyzerRules
=============================================================================
