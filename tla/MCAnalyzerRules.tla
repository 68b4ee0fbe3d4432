---------------------------- MODULE MCAnalyzerRules ----------------------------
(* TLC instances of AnalyzerRules. *)
EXTENDS AnalyzerRules

Strings(set, n) == UNION {[1 .. m -> set] : m \in 0 .. n}

MCNames == Strings({"a", "-"}, 3)

\* No rule, every rule of up to four characters, every two rules of up to two.
MCCommandLines ==
    {<<>>} \cup {<<r>> : r \in Strings(Char, 4)}
    \cup {<<r, s>> : r, s \in Strings(Char, 2)}

\* Without what nobody would write: analyzers and rules that are empty.
MCPlainNames == MCNames \ {<<>>}
MCPlainCommandLines == {<<r>> : r \in Strings({"*", "a"}, 4) \ {<<>>}}
=============================================================================
