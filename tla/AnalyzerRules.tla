----------------------------- MODULE AnalyzerRules -----------------------------
(***************************************************************************)
(* Finding the analyzers (executable/src/find_analyzers.cpp, options.cpp): *)
(* every shared object of the search paths has a name, and the rules of    *)
(* the command line, tried from the last to the first, say whether it is   *)
(* loaded.  A rule is matched by a table that is filled cell by cell.      *)
(*                                                                         *)
(* A name and a rule are sequences of characters, of which "*" and "-"     *)
(* have a meaning in rules.                                                *)
(***************************************************************************)
EXTENDS Integers, Sequences

CONSTANTS
    Char,           \* the characters, "*" and "-" among them
    Names,          \* names of analyzers in the search paths
    CommandLines,   \* values of --analyzer, one sequence of rules each
    MaxFound        \* bound: shared objects in the search paths

ASSUME CharAssumption == {"*", "-"} \subseteq Char
ASSUME NamesAssumption == Names \subseteq Seq(Char)
ASSUME CommandLinesAssumption == CommandLines \subseteq Seq(Seq(Char))
ASSUME MaxFoundAssumption == MaxFound \in Nat

VARIABLES
    search,     \* "scanning", "choosing", "filling" or "done"
    arguments,  \* the values of --analyzer in the order of the command line
    name,       \* the name of the shared object at hand
    rule,       \* index in the reversed rules of the one at hand
    dp,         \* the table: [0 .. rule.size() -> [0 .. name.size() -> BOOLEAN]]
    row, col,   \* i and j, the indexes of the two loops
    enabled,    \* the verdict on the shared object, at the moment it is reached
    found,      \* shared objects looked at
    loaded      \* analyzers.size()

tableVars == <<dp, row, col>>
searchVars == <<search, arguments, name, rule, tableVars, enabled, found, loaded>>

-----------------------------------------------------------------------------
\* analyzer_name_rules: the default is to enable everything.
Given == IF arguments = <<>> THEN << <<"*">> >> ELSE arguments

\* Mutation: the rules are tried in the order of the command line.
RulesInOrder == Given

\* std::reverse
Rules == [i \in 1 .. Len(Given) |-> Given[Len(Given) + 1 - i]]

Negative(r) == r # <<>> /\ Head(r) = "-"

\* What is left of a rule when its sign is removed.
Pattern(r) == IF Negative(r) THEN Tail(r) ELSE r

\* Rules that match nothing: the empty one, and a sign alone.
Void(r) == r = <<>> \/ Pattern(r) = <<>>

P == Pattern(Rules[rule])

\* Mutation: the table has no row for the empty beginning of the rule.
FirstTableShort(p, n) ==
    [i \in 0 .. Len(p) - 1 |-> [j \in 0 .. Len(n) |->
        j = 0 /\ (i = 0 \/ (i = 1 /\ p[1] = "*"))]]

\* The table before the loops: the first column is set for one "*" only.
FirstTable(p, n) ==
    [i \in 0 .. Len(p) |-> [j \in 0 .. Len(n) |->
        j = 0 /\ (i = 0 \/ (i = 1 /\ p[1] = "*"))]]

\* Mutation: "*" stands for at least one character.
CellOneOrMore(p, n, i, j) ==
    \/ p[i + 1] = "*" /\ (dp[i][j] \/ dp[i + 1][j])
    \/ p[i + 1] = n[j + 1] /\ dp[i][j]

Cell(p, n, i, j) ==
    \/ p[i + 1] = "*" /\ (dp[i][j] \/ dp[i + 1][j] \/ dp[i][j + 1])
    \/ p[i + 1] = n[j + 1] /\ dp[i][j]

-----------------------------------------------------------------------------
SearchInit ==
    /\ search = "scanning"
    /\ arguments \in CommandLines
    /\ name = <<>> /\ rule = 0 /\ dp = <<>> /\ row = 0 /\ col = 0
    /\ enabled = TRUE
    /\ found = 0 /\ loaded = 0

\* The next file of a directory that is a shared object with an analyzer in it;
\* all others are passed over.
FindAnalyzer(n) ==
    /\ search = "scanning"
    /\ found < MaxFound
    /\ search' = "choosing"
    /\ name' = n /\ rule' = 1
    /\ found' = found + 1
    /\ UNCHANGED <<arguments, tableVars, enabled, loaded>>

\* A verdict: the handle is kept or closed.
Judge(verdict) ==
    /\ search' = "scanning"
    /\ enabled' = verdict
    /\ loaded' = IF verdict THEN loaded + 1 ELSE loaded
    /\ UNCHANGED <<arguments, name, rule, tableVars, found>>

\* No rule is left.
NoRuleMatches ==
    /\ search = "choosing" /\ rule > Len(Rules)
    /\ Judge(TRUE)

SkipVoidRule ==
    /\ search = "choosing" /\ rule <= Len(Rules)
    /\ Void(Rules[rule])
    /\ rule' = rule + 1
    /\ UNCHANGED <<search, arguments, name, tableVars, enabled, found, loaded>>

BeginTable ==
    /\ search = "choosing" /\ rule <= Len(Rules)
    /\ ~Void(Rules[rule])
    /\ search' = "filling"
    /\ dp' = FirstTable(P, name)
    /\ row' = 0 /\ col' = 0
    /\ UNCHANGED <<arguments, name, rule, enabled, found, loaded>>

\* The body of the inner loop.
FillCell ==
    /\ search = "filling" /\ row < Len(P) /\ col < Len(name)
    /\ dp' = [dp EXCEPT ![row + 1][col + 1] = Cell(P, name, row, col)]
    /\ col' = col + 1
    /\ UNCHANGED <<search, arguments, name, rule, row, enabled, found, loaded>>

NextRow ==
    /\ search = "filling" /\ row < Len(P) /\ col = Len(name)
    /\ row' = row + 1 /\ col' = 0
    /\ UNCHANGED <<search, arguments, name, rule, dp, enabled, found, loaded>>

TableDone == search = "filling" /\ row = Len(P)

\* The rule matches: its sign is the verdict.
RuleMatches ==
    /\ TableDone /\ dp[Len(P)][Len(name)]
    /\ Judge(~Negative(Rules[rule]))

RuleDiffers ==
    /\ TableDone /\ ~dp[Len(P)][Len(name)]
    /\ search' = "choosing"
    /\ rule' = rule + 1
    /\ UNCHANGED <<arguments, name, tableVars, enabled, found, loaded>>

\* The search paths are exhausted; the rules and the last name are not used again.
EndSearch ==
    /\ search = "scanning"
    /\ search' = "done"
    /\ arguments' = <<>>
    /\ name' = <<>> /\ rule' = 0 /\ dp' = <<>> /\ row' = 0 /\ col' = 0
    /\ enabled' = TRUE
    /\ UNCHANGED <<found, loaded>>

SearchNext ==
    \/ \E n \in Names : FindAnalyzer(n)
    \/ NoRuleMatches \/ SkipVoidRule \/ BeginTable
    \/ FillCell \/ NextRow \/ RuleMatches \/ RuleDiffers
    \/ EndSearch

SearchSpec == SearchInit /\ [][SearchNext]_searchVars

-----------------------------------------------------------------------------
(* What a rule means: the name can be cut into pieces, one for each        *)
(* character of the pattern, of any length for "*" and otherwise the       *)
(* character itself.  g[i] is where the pieces of the first i end.         *)

Cuts(a, b) ==
    {g \in [0 .. a -> 0 .. b] :
        g[0] = 0 /\ g[a] = b /\ \A i, j \in 0 .. a : i <= j => g[i] <= g[j]}

Piece(p, n, g, i) == p[i] = "*" \/ (g[i] = g[i - 1] + 1 /\ p[i] = n[g[i]])

\* The first b characters of the name fit the first a of the pattern.
Fits(p, a, n, b) == \E g \in Cuts(a, b) : \A i \in 1 .. a : Piece(p, n, g, i)

\* Two "*" at the beginning, of which the first column knows only one.
DoubleStar(p) == Len(p) > 1 /\ p[1] = "*" /\ p[2] = "*"

\* What the code makes of a pattern: it fits, but for two or more "*" at the
\* beginning, which stand for at least one character.
Accepts(p, a, n, b) ==
    IF DoubleStar(p) /\ a > 1 THEN b > 0 /\ Fits(p, a, Tail(n), b - 1)
    ELSE Fits(p, a, n, b)

\* The rows and columns of the table that hold their final value.
Filled(i, j) == i <= row \/ j = 0 \/ (i = row + 1 /\ j <= col)

(* Properties *)

SearchTypeOK ==
    /\ search \in {"scanning", "choosing", "filling", "done"}
    /\ arguments \in CommandLines \cup {<<>>}
    /\ name \in Names \cup {<<>>}
    /\ rule \in 0 .. Len(Given) + 1
    /\ row \in Nat /\ col \in Nat
    /\ search = "filling" =>
           /\ rule \in 1 .. Len(Given) /\ row <= Len(P) /\ col <= Len(name)
           /\ dp \in [0 .. Len(P) -> [0 .. Len(name) -> BOOLEAN]]
    /\ enabled \in BOOLEAN
    /\ found \in 0 .. MaxFound /\ loaded \in 0 .. found

\* A cell that is filled says whether the code's meaning of the rule so far accepts
\* the name so far, for every rule and name, empty names and stars in a row
\* included.
TableCorrect ==
    search = "filling" =>
        \A i \in 0 .. Len(P), j \in 0 .. Len(name) :
            Filled(i, j) => (dp[i][j] <=> Accepts(P, i, name, j))

\* The name at hand is accepted by a rule that is not empty.
Matches(r) == ~Void(r) /\ Accepts(Pattern(r), Len(Pattern(r)), name, Len(name))

Matching == {k \in 1 .. Len(Given) : Matches(Given[k])}

\* "The last rule to match an analyzer determines whether the analyzer is enabled
\* or disabled", whatever empty rules, signs alone and stars are among them.  Of
\* an analyzer that none matches see UnmatchedIsDisabled.
LastRuleDecides ==
    search = "scanning" /\ found > 0 =>
        \A k \in Matching :
            (\A m \in Matching : m <= k) => (enabled <=> ~Negative(Given[k]))

-----------------------------------------------------------------------------
(* What the help text of the executable says and the code does not do.     *)

\* "If no rule matches an analyzer name, that analyzer is not enabled."
UnmatchedIsDisabled ==
    search = "scanning" /\ found > 0 /\ Matching = {} => ~enabled
=============================================================================
