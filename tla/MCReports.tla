------------------------------- MODULE MCReports -------------------------------
(* TLC instances of Reports. *)
EXTENDS Reports, TLC

CONSTANTS e1, e2, e3, s1, s2

\* Events with two, one and no addresses in their stack traces.
MCFrames == e1 :> 2 @@ e2 :> 1 @@ e3 :> 0

MCSections == <<s1, s2>>
=============================================================================
