------------------------- MODULE AnalyzerRulesProofs -------------------------
(***************************************************************************)
(* Proofs about AnalyzerRules, for every alphabet, every name, every       *)
(* command line and any number of shared objects: the table that the code  *)
(* fills says which names a rule accepts, and the last that does decides.  *)
(***************************************************************************)
EXTENDS AnalyzerRules, SequenceTheorems, TLAPS

(* What it means to fit, from one length to the next.                      *)

\* Nothing of a pattern is used: nothing of the name is.
LEMMA FitsNothing ==
    ASSUME NEW p, NEW n, NEW b \in Nat
    PROVE  Fits(p, 0, n, b) <=> b = 0
<1>1. ASSUME Fits(p, 0, n, b) PROVE b = 0
  BY <1>1 DEF Fits, Cuts
<1>2. ASSUME b = 0 PROVE Fits(p, 0, n, b)
  <2> DEFINE g == [i \in 0 .. 0 |-> 0]
  <2>1. g \in Cuts(0, b)
    BY <1>2 DEF Cuts
  <2>2. \A i \in 1 .. 0 : Piece(p, n, g, i)
    OBVIOUS
  <2> QED
    BY <2>1, <2>2 DEF Fits
<1> QED
  BY <1>1, <1>2

\* Nothing of the name is used: the pattern is stars.
LEMMA FitsEmptyName ==
    ASSUME NEW p, NEW n, NEW a \in Nat
    PROVE  Fits(p, a, n, 0) <=> \A i \in 1 .. a : p[i] = "*"
<1>1. ASSUME Fits(p, a, n, 0), NEW i \in 1 .. a PROVE p[i] = "*"
  <2>1. PICK g \in Cuts(a, 0) : \A j \in 1 .. a : Piece(p, n, g, j)
    BY <1>1 DEF Fits
  <2>2. i - 1 \in 0 .. a /\ i \in 0 .. a
    OBVIOUS
  <2>3. g[i - 1] = 0 /\ g[i] = 0
    BY <2>1, <2>2 DEF Cuts
  <2>4. g[i] # g[i - 1] + 1
    BY <2>3
  <2> QED
    BY <2>1, <2>4 DEF Piece
<1>2. ASSUME \A i \in 1 .. a : p[i] = "*" PROVE Fits(p, a, n, 0)
  <2> DEFINE g == [i \in 0 .. a |-> 0]
  <2>1. g \in Cuts(a, 0)
    BY DEF Cuts
  <2>2. \A i \in 1 .. a : Piece(p, n, g, i)
    BY <1>2 DEF Piece
  <2> QED
    BY <2>1, <2>2 DEF Fits
<1> QED
  BY <1>1, <1>2

\* Cuts of a pattern without its last character.
LEMMA CutsShorter ==
    ASSUME NEW p, NEW n, NEW a \in Nat, NEW b \in Nat,
           NEW g \in Cuts(a + 1, b), \A i \in 1 .. a + 1 : Piece(p, n, g, i)
    PROVE  g[a] \in 0 .. b /\ Fits(p, a, n, g[a])
<1> DEFINE h == [i \in 0 .. a |-> g[i]]
<1>1. /\ g \in [0 .. a + 1 -> 0 .. b] /\ g[0] = 0
      /\ \A i, j \in 0 .. a + 1 : i <= j => g[i] <= g[j]
  BY DEF Cuts
<1>2. a \in 0 .. a + 1 /\ g[a] \in 0 .. b
  BY <1>1
<1>3. \A i \in 0 .. a : h[i] = g[i] /\ g[i] \in 0 .. g[a]
  BY <1>1, <1>2
<1>4. h \in Cuts(a, g[a])
  <2>1. h \in [0 .. a -> 0 .. g[a]]
    BY <1>3
  <2>2. h[0] = 0 /\ h[a] = g[a]
    BY <1>1, <1>3
  <2>3. \A i, j \in 0 .. a : i <= j => h[i] <= h[j]
    BY <1>1, <1>3
  <2> QED
    BY <2>1, <2>2, <2>3 DEF Cuts
<1>5. \A i \in 1 .. a : Piece(p, n, h, i)
  <2> TAKE i \in 1 .. a
  <2>1. h[i] = g[i] /\ h[i - 1] = g[i - 1]
    BY <1>3
  <2>2. Piece(p, n, g, i)
    OBVIOUS
  <2> QED
    BY <2>1, <2>2 DEF Piece
<1> QED
  BY <1>2, <1>4, <1>5 DEF Fits

\* Cuts of a pattern with one more character, whose piece ends at c.
LEMMA CutsLonger ==
    ASSUME NEW p, NEW n, NEW a \in Nat, NEW b \in Nat, NEW c \in Nat, b <= c,
           Fits(p, a, n, b),
           p[a + 1] = "*" \/ (c = b + 1 /\ p[a + 1] = n[c])
    PROVE  Fits(p, a + 1, n, c)
<1>1. PICK g \in Cuts(a, b) : \A i \in 1 .. a : Piece(p, n, g, i)
  BY DEF Fits
<1> DEFINE h == [i \in 0 .. a + 1 |-> IF i = a + 1 THEN c ELSE g[i]]
<1>2. /\ g \in [0 .. a -> 0 .. b] /\ g[0] = 0 /\ g[a] = b
      /\ \A i, j \in 0 .. a : i <= j => g[i] <= g[j]
  BY DEF Cuts
<1>3. h[a + 1] = c /\ \A i \in 0 .. a : h[i] = g[i] /\ g[i] \in 0 .. b
  BY <1>2
<1>4. h \in Cuts(a + 1, c)
  <2>1. h \in [0 .. a + 1 -> 0 .. c]
    <3>1. ASSUME NEW i \in 0 .. a + 1
          PROVE  (IF i = a + 1 THEN c ELSE g[i]) \in 0 .. c
      <4>1. CASE i = a + 1
        BY <4>1
      <4>2. CASE i # a + 1
        <5>1. i \in 0 .. a
          BY <4>2
        <5>2. g[i] \in 0 .. b
          BY <1>3, <5>1
        <5> QED
          BY <4>2, <5>2
      <4> QED
        BY <4>1, <4>2
    <3> QED
      BY <3>1
  <2>2. h[0] = 0
    BY <1>2, <1>3
  <2>3. ASSUME NEW i \in 0 .. a + 1, NEW j \in 0 .. a + 1, i <= j
        PROVE  h[i] <= h[j]
    <3>1. CASE j = a + 1
      <4>1. CASE i = a + 1
        BY <1>3, <3>1, <4>1
      <4>2. CASE i # a + 1
        <5>1. i \in 0 .. a
          BY <4>2
        <5>2. h[i] \in 0 .. b /\ h[j] = c
          BY <1>3, <3>1, <5>1
        <5> QED
          BY <5>2
      <4> QED
        BY <4>1, <4>2
    <3>2. CASE j # a + 1
      <4>1. i \in 0 .. a /\ j \in 0 .. a
        BY <2>3, <3>2
      <4>2. h[i] = g[i] /\ h[j] = g[j]
        BY <1>3, <4>1
      <4> QED
        BY <1>2, <2>3, <4>1, <4>2
    <3> QED
      BY <3>1, <3>2
  <2> QED
    BY <1>3, <2>1, <2>2, <2>3 DEF Cuts
<1>5. ASSUME NEW i \in 1 .. a + 1 PROVE Piece(p, n, h, i)
  <2>1. CASE i = a + 1
    <3>1. h[i] = c /\ h[i - 1] = b
      BY <1>2, <1>3, <2>1
    <3> QED
      BY <2>1, <3>1 DEF Piece
  <2>2. CASE i # a + 1
    <3>1. i \in 1 .. a
      BY <2>2
    <3>2. h[i] = g[i] /\ h[i - 1] = g[i - 1]
      BY <1>3, <3>1
    <3>3. Piece(p, n, g, i)
      BY <1>1, <3>1
    <3> QED
      BY <3>2, <3>3 DEF Piece
  <2> QED
    BY <2>1, <2>2
<1> QED
  BY <1>4, <1>5 DEF Fits

\* The cell of a star, from its three neighbours.
LEMMA FitsStar ==
    ASSUME NEW p, NEW n, NEW a \in Nat, NEW b \in Nat, p[a + 1] = "*"
    PROVE  Fits(p, a + 1, n, b + 1) <=>
               Fits(p, a, n, b) \/ Fits(p, a + 1, n, b) \/ Fits(p, a, n, b + 1)
<1>0. b + 1 \in Nat /\ b <= b + 1
  OBVIOUS
<1>1. ASSUME Fits(p, a + 1, n, b + 1)
      PROVE  Fits(p, a + 1, n, b) \/ Fits(p, a, n, b + 1)
  <2>1. PICK g \in Cuts(a + 1, b + 1) : \A i \in 1 .. a + 1 : Piece(p, n, g, i)
    BY <1>1 DEF Fits
  <2>2. g[a] \in 0 .. b + 1 /\ Fits(p, a, n, g[a])
    BY <1>0, <2>1, CutsShorter
  <2>3. CASE g[a] = b + 1
    BY <2>2, <2>3
  <2>4. CASE g[a] # b + 1
    <3>1. g[a] \in Nat /\ g[a] <= b
      BY <2>2, <2>4
    <3> QED
      BY <1>0, <2>2, <3>1, CutsLonger
  <2> QED
    BY <2>3, <2>4
<1>2. ASSUME Fits(p, a, n, b) PROVE Fits(p, a + 1, n, b + 1)
  BY <1>0, <1>2, CutsLonger
<1>3. ASSUME Fits(p, a, n, b + 1) PROVE Fits(p, a + 1, n, b + 1)
  BY <1>0, <1>3, CutsLonger
<1>4. ASSUME Fits(p, a + 1, n, b) PROVE Fits(p, a + 1, n, b + 1)
  <2>1. PICK g \in Cuts(a + 1, b) : \A i \in 1 .. a + 1 : Piece(p, n, g, i)
    BY <1>4 DEF Fits
  <2>2. g[a] \in 0 .. b /\ Fits(p, a, n, g[a])
    BY <1>0, <2>1, CutsShorter
  <2>3. g[a] \in Nat /\ g[a] <= b + 1
    BY <2>2
  <2> QED
    BY <1>0, <2>2, <2>3, CutsLonger
<1> QED
  BY <1>1, <1>2, <1>3, <1>4

\* The cell of any other character, from the one before both.
LEMMA FitsCharacter ==
    ASSUME NEW p, NEW n, NEW a \in Nat, NEW b \in Nat, p[a + 1] # "*"
    PROVE  Fits(p, a + 1, n, b + 1) <=> p[a + 1] = n[b + 1] /\ Fits(p, a, n, b)
<1>0. b + 1 \in Nat /\ b <= b + 1
  OBVIOUS
<1>1. ASSUME Fits(p, a + 1, n, b + 1)
      PROVE  p[a + 1] = n[b + 1] /\ Fits(p, a, n, b)
  <2>1. PICK g \in Cuts(a + 1, b + 1) : \A i \in 1 .. a + 1 : Piece(p, n, g, i)
    BY <1>1 DEF Fits
  <2>2. g[a] \in 0 .. b + 1 /\ Fits(p, a, n, g[a])
    BY <1>0, <2>1, CutsShorter
  <2>3. g[a + 1] = b + 1
    BY <2>1 DEF Cuts
  <2>4. a + 1 \in 1 .. a + 1 /\ a + 1 - 1 = a
    OBVIOUS
  <2>5. Piece(p, n, g, a + 1)
    BY <2>1, <2>4
  <2>6. g[a + 1] = g[a] + 1 /\ p[a + 1] = n[g[a + 1]]
    BY <2>4, <2>5 DEF Piece
  <2>7. g[a] = b
    BY <2>2, <2>3, <2>6
  <2> QED
    BY <2>2, <2>3, <2>6, <2>7
<1>2. ASSUME p[a + 1] = n[b + 1], Fits(p, a, n, b)
      PROVE  Fits(p, a + 1, n, b + 1)
  BY <1>0, <1>2, CutsLonger
<1> QED
  BY <1>1, <1>2

-----------------------------------------------------------------------------
(* What the code accepts, from one length to the next.                     *)

\* Two stars fit whatever there is.
LEMMA StarsFit ==
    ASSUME NEW p, NEW n, NEW b \in Nat, p[1] = "*"
    PROVE  Fits(p, 1, n, b) /\ (p[2] = "*" => Fits(p, 2, n, b))
<1>1. Fits(p, 0, n, 0)
  BY FitsNothing
<1>2. Fits(p, 0 + 1, n, b)
  BY <1>1, CutsLonger
<1>3. ASSUME p[2] = "*" PROVE Fits(p, 1 + 1, n, b)
  <2>1. 1 \in Nat /\ b <= b /\ p[1 + 1] = "*" /\ Fits(p, 1, n, b)
    BY <1>2, <1>3
  <2> QED
    BY <2>1, CutsLonger
<1> QED
  BY <1>2, <1>3

LEMMA AcceptsStar ==
    ASSUME NEW p, NEW n, NEW a \in Nat, NEW b \in Nat, p[a + 1] = "*"
    PROVE  Accepts(p, a + 1, n, b + 1) <=>
               Accepts(p, a, n, b) \/ Accepts(p, a + 1, n, b) \/ Accepts(p, a, n, b + 1)
<1>1. CASE ~DoubleStar(p) \/ a = 0
  BY <1>1, FitsStar DEF Accepts
<1>2. CASE DoubleStar(p) /\ a = 1
  <2>1. Fits(p, 2, Tail(n), b) /\ Fits(p, 1, n, b + 1)
    BY <1>2, StarsFit DEF DoubleStar
  <2>2. Accepts(p, a + 1, n, b + 1) /\ Accepts(p, a, n, b + 1)
    BY <1>2, <2>1 DEF Accepts
  <2> QED
    BY <2>2
<1>3. CASE DoubleStar(p) /\ a > 1
  <2> DEFINE m == Tail(n)
  <2>1. /\ Accepts(p, a + 1, n, b + 1) <=> Fits(p, a + 1, m, b)
        /\ Accepts(p, a, n, b + 1) <=> Fits(p, a, m, b)
        /\ Accepts(p, a + 1, n, b) <=> b > 0 /\ Fits(p, a + 1, m, b - 1)
        /\ Accepts(p, a, n, b) <=> b > 0 /\ Fits(p, a, m, b - 1)
    BY <1>3 DEF Accepts
  <2> HIDE DEF m
  <2>2. CASE b = 0
    <3>1. Fits(p, a + 1, m, 0) <=> Fits(p, a, m, 0)
      <4>1. \A i \in 1 .. a + 1 : i = a + 1 \/ i \in 1 .. a
        OBVIOUS
      <4>2. a + 1 \in Nat /\ \A i \in 1 .. a : i \in 1 .. a + 1
        OBVIOUS
      <4> QED
        BY <4>1, <4>2, FitsEmptyName
    <3> QED
      BY <2>1, <2>2, <3>1
  <2>3. CASE b # 0
    <3>1. b - 1 \in Nat /\ b - 1 + 1 = b
      BY <2>3
    <3>2. Fits(p, a + 1, m, b - 1 + 1) <=>
              Fits(p, a, m, b - 1) \/ Fits(p, a + 1, m, b - 1) \/ Fits(p, a, m, b - 1 + 1)
      BY <3>1, FitsStar
    <3> QED
      BY <2>1, <2>3, <3>1, <3>2
  <2> QED
    BY <2>2, <2>3
<1> QED
  BY <1>1, <1>2, <1>3

LEMMA AcceptsCharacter ==
    ASSUME NEW p, NEW n \in Seq(Char), NEW a \in Nat, NEW b \in Nat, b < Len(n),
           p[a + 1] # "*"
    PROVE  Accepts(p, a + 1, n, b + 1) <=> p[a + 1] = n[b + 1] /\ Accepts(p, a, n, b)
<1>1. CASE ~DoubleStar(p)
  <2>1. \A c, d \in Nat : Accepts(p, c, n, d) <=> Fits(p, c, n, d)
    BY <1>1 DEF Accepts
  <2>2. Fits(p, a + 1, n, b + 1) <=> p[a + 1] = n[b + 1] /\ Fits(p, a, n, b)
    BY FitsCharacter
  <2> QED
    BY <2>1, <2>2
<1>2. CASE DoubleStar(p)
  <2>1. a > 1
    BY <1>2 DEF DoubleStar
  <2> DEFINE m == Tail(n)
  <2>2. /\ Accepts(p, a + 1, n, b + 1) <=> Fits(p, a + 1, m, b)
        /\ Accepts(p, a, n, b) <=> b > 0 /\ Fits(p, a, m, b - 1)
    BY <1>2, <2>1 DEF Accepts
  <2>3. b > 0 => m[b] = n[b + 1]
    <3>1. b > 0 => b \in 1 .. Len(n) - 1
      OBVIOUS
    <3> QED
      BY <3>1, HeadTailProperties
  <2> HIDE DEF m
  <2>4. CASE b = 0
    <3>1. ~Fits(p, a + 1, m, 0)
      <4>1. a + 1 \in Nat /\ a + 1 \in 1 .. a + 1
        OBVIOUS
      <4> QED
        BY <4>1, FitsEmptyName
    <3> QED
      BY <2>2, <2>4, <3>1
  <2>5. CASE b # 0
    <3>1. b - 1 \in Nat /\ b - 1 + 1 = b
      BY <2>5
    <3>2. Fits(p, a + 1, m, b - 1 + 1) <=> p[a + 1] = m[b - 1 + 1] /\ Fits(p, a, m, b - 1)
      BY <3>1, FitsCharacter
    <3> QED
      BY <2>2, <2>3, <2>5, <3>1, <3>2
  <2> QED
    BY <2>4, <2>5
<1> QED
  BY <1>1, <1>2

-----------------------------------------------------------------------------
(* The strengthening.                                                      *)

\* No rule tried so far matches the name.
NoneBefore ==
    search \in {"choosing", "filling"} =>
        \A r \in 1 .. rule - 1 : ~Matches(Rules[r])

\* While a verdict is due, one more shared object was found than judged.
VerdictDue ==
    search \in {"choosing", "filling"} =>
        /\ rule \in 1 .. Len(Given) + 1
        /\ loaded < found

SearchInv ==
    /\ SearchTypeOK /\ VerdictDue
    /\ search = "filling" => ~Void(Rules[rule])
    /\ TableCorrect /\ NoneBefore /\ LastRuleDecides

\* The reversed rules are sequences of characters, and so are their patterns.
LEMMA RulesType ==
    ASSUME arguments \in CommandLines \cup {<<>>}
    PROVE  /\ Len(Given) \in Nat /\ Len(Rules) = Len(Given)
           /\ \A k \in 1 .. Len(Given) :
                  /\ Rules[k] = Given[Len(Given) + 1 - k]
                  /\ Rules[k] \in Seq(Char)
                  /\ Pattern(Rules[k]) \in Seq(Char)
                  /\ Len(Pattern(Rules[k])) \in Nat
<1>1. Given \in Seq(Seq(Char))
  BY CharAssumption, CommandLinesAssumption DEF Given
<1>2. Len(Given) \in Nat
  BY <1>1
<1>3. Len(Rules) = Len(Given) /\ \A k \in 1 .. Len(Given) : Rules[k] = Given[Len(Given) + 1 - k]
  BY <1>2 DEF Rules
<1>4. ASSUME NEW k \in 1 .. Len(Given)
      PROVE  /\ Rules[k] \in Seq(Char)
             /\ Pattern(Rules[k]) \in Seq(Char)
             /\ Len(Pattern(Rules[k])) \in Nat
  <2>1. Len(Given) + 1 - k \in 1 .. Len(Given)
    BY <1>2
  <2>2. Rules[k] \in Seq(Char)
    BY <1>1, <1>3, <2>1, ElementOfSeq
  <2>3. Pattern(Rules[k]) \in Seq(Char)
    BY <2>2 DEF Pattern, Negative
  <2> QED
    BY <2>2, <2>3, LenProperties
<1> QED
  BY <1>2, <1>3, <1>4

\* The rule at hand and the name, while the table is filled.
LEMMA TableTypes ==
    ASSUME SearchInv
    PROVE  /\ Len(Given) \in Nat /\ Len(Rules) = Len(Given)
           /\ name \in Seq(Char) /\ Len(name) \in Nat
           /\ rule \in Nat /\ row \in Nat /\ col \in Nat
           /\ rule \in 1 .. Len(Given) => P \in Seq(Char) /\ Len(P) \in Nat
<1>1. arguments \in CommandLines \cup {<<>>} /\ name \in Names \cup {<<>>}
  BY DEF SearchInv, SearchTypeOK
<1>2. name \in Seq(Char)
  <2>1. <<>> \in Seq(Char)
    OBVIOUS
  <2> QED
    BY <1>1, <2>1, NamesAssumption
<1>3. Len(name) \in Nat
  BY <1>2
<1>4. Len(Given) \in Nat /\ Len(Rules) = Len(Given)
  BY <1>1, RulesType
<1>5. rule \in Nat /\ row \in Nat /\ col \in Nat
  BY <1>4 DEF SearchInv, SearchTypeOK
<1>6. rule \in 1 .. Len(Given) => P \in Seq(Char) /\ Len(P) \in Nat
  BY <1>1, RulesType DEF P
<1> QED
  BY <1>2, <1>3, <1>4, <1>5, <1>6

-----------------------------------------------------------------------------
(* The table.                                                              *)

LEMMA FirstTableType ==
    ASSUME NEW p, NEW n, Len(p) \in Nat, Len(n) \in Nat
    PROVE  /\ FirstTable(p, n) \in [0 .. Len(p) -> [0 .. Len(n) -> BOOLEAN]]
           /\ \A i \in 0 .. Len(p), j \in 0 .. Len(n) :
                  FirstTable(p, n)[i][j] <=> j = 0 /\ (i = 0 \/ (i = 1 /\ p[1] = "*"))
<1>1. \A i \in 0 .. Len(p), j \in 0 .. Len(n) :
          (j = 0 /\ (i = 0 \/ (i = 1 /\ p[1] = "*"))) \in BOOLEAN
  OBVIOUS
<1> QED
  BY <1>1, Zenon DEF FirstTable

\* The first row and the first column, as the code sets them.
LEMMA FirstTableCorrect ==
    ASSUME NEW p, NEW n, Len(p) \in Nat, Len(n) \in Nat,
           NEW i \in 0 .. Len(p), NEW j \in 0 .. Len(n), i = 0 \/ j = 0
    PROVE  FirstTable(p, n)[i][j] <=> Accepts(p, i, n, j)
<1>1. FirstTable(p, n)[i][j] <=> j = 0 /\ (i = 0 \/ (i = 1 /\ p[1] = "*"))
  BY FirstTableType
<1>2. CASE i = 0
  <2>1. Fits(p, i, n, j) <=> j = 0
    BY <1>2, FitsNothing
  <2> QED
    BY <1>1, <1>2, <2>1 DEF Accepts
<1>3. CASE i = 1
  <2>1. Fits(p, 1, n, 0) <=> \A k \in 1 .. 1 : p[k] = "*"
    BY FitsEmptyName
  <2> QED
    BY <1>1, <1>3, <2>1 DEF Accepts
<1>4. CASE i > 1
  <2>1. j = 0 /\ i \in Nat /\ 1 \in 1 .. i /\ 2 \in 1 .. i /\ Len(p) > 1
    BY <1>4
  <2>2. Fits(p, i, n, j) <=> \A k \in 1 .. i : p[k] = "*"
    BY <2>1, FitsEmptyName
  <2>3. ~Accepts(p, i, n, j)
    BY <1>4, <2>1, <2>2 DEF Accepts, DoubleStar
  <2> QED
    BY <1>1, <1>4, <2>3
<1> QED
  BY <1>2, <1>3, <1>4

\* A cell is right if its three neighbours are.
LEMMA CellCorrect ==
    ASSUME NEW p, NEW n \in Seq(Char), NEW i \in Nat, NEW j \in Nat, j < Len(n),
           dp[i][j] <=> Accepts(p, i, n, j),
           dp[i + 1][j] <=> Accepts(p, i + 1, n, j),
           dp[i][j + 1] <=> Accepts(p, i, n, j + 1)
    PROVE  Cell(p, n, i, j) <=> Accepts(p, i + 1, n, j + 1)
<1>1. CASE p[i + 1] = "*"
  <2>1. Accepts(p, i + 1, n, j + 1) <=> dp[i][j] \/ dp[i + 1][j] \/ dp[i][j + 1]
    BY <1>1, AcceptsStar
  <2>2. Cell(p, n, i, j) => dp[i][j] \/ dp[i + 1][j] \/ dp[i][j + 1]
    BY DEF Cell
  <2>3. dp[i][j] \/ dp[i + 1][j] \/ dp[i][j + 1] => Cell(p, n, i, j)
    BY <1>1 DEF Cell
  <2> QED
    BY <2>1, <2>2, <2>3
<1>2. CASE p[i + 1] # "*"
  <2>1. Accepts(p, i + 1, n, j + 1) <=> p[i + 1] = n[j + 1] /\ dp[i][j]
    BY <1>2, AcceptsCharacter
  <2>2. Cell(p, n, i, j) <=> p[i + 1] = n[j + 1] /\ dp[i][j]
    BY <1>2 DEF Cell
  <2> QED
    BY <2>1, <2>2
<1> QED
  BY <1>1, <1>2

-----------------------------------------------------------------------------
(* One lemma for each action.                                              *)

LEMMA SearchInitInv == SearchInit => SearchInv
<1> SUFFICES ASSUME SearchInit PROVE SearchInv
  OBVIOUS
<1>1. /\ search = "scanning" /\ arguments \in CommandLines /\ name = <<>>
      /\ rule = 0 /\ row = 0 /\ col = 0 /\ found = 0 /\ loaded = 0
  BY DEF SearchInit
<1>2. enabled \in BOOLEAN
  BY Zenon DEF SearchInit
<1>3. Len(Given) \in Nat
  BY <1>1, RulesType
<1>4. /\ rule \in 0 .. Len(Given) + 1 /\ found \in 0 .. MaxFound /\ loaded \in 0 .. found
  BY <1>1, <1>3, MaxFoundAssumption
<1>5. SearchTypeOK
  BY <1>1, <1>2, <1>4 DEF SearchTypeOK
<1> QED
  BY <1>1, <1>5 DEF SearchInv, VerdictDue, TableCorrect, NoneBefore, LastRuleDecides

LEMMA FindAnalyzerInv ==
    ASSUME SearchInv, NEW n \in Names, FindAnalyzer(n)
    PROVE  SearchInv'
<1>1. /\ search' = "choosing" /\ name' = n /\ rule' = 1 /\ found' = found + 1
      /\ found < MaxFound
      /\ UNCHANGED <<arguments, dp, row, col, enabled, loaded>>
  BY DEF FindAnalyzer, tableVars
<1>2. Len(Given) \in Nat /\ Given' = Given
  BY <1>1, TableTypes DEF Given
<1>3. found \in 0 .. MaxFound /\ loaded \in 0 .. found
  BY DEF SearchInv, SearchTypeOK
<1>4. /\ rule' \in 1 .. Len(Given') + 1 /\ found' \in 0 .. MaxFound /\ loaded' \in 0 .. found'
      /\ loaded' < found'
  BY <1>1, <1>2, <1>3, MaxFoundAssumption
<1>5. rule' \in 0 .. Len(Given') + 1
  BY <1>2, <1>4
<1>6. SearchTypeOK'
  BY <1>1, <1>4, <1>5 DEF SearchInv, SearchTypeOK
<1>7. NoneBefore'
  BY <1>1 DEF NoneBefore
<1> QED
  BY <1>1, <1>4, <1>6, <1>7 DEF SearchInv, VerdictDue, TableCorrect, LastRuleDecides

\* The verdict of a rule that matches, when none before it does, is that of the
\* last rule that matches; when none does, there is no such rule.
LEMMA JudgeInv ==
    ASSUME SearchInv, NEW v \in BOOLEAN, Judge(v),
           search \in {"choosing", "filling"},
           \/ v = TRUE /\ rule > Len(Rules)
           \/ /\ rule \in 1 .. Len(Given) /\ Matches(Rules[rule])
              /\ v = ~Negative(Rules[rule])
    PROVE  SearchInv'
<1>1. /\ search' = "scanning" /\ enabled' = v
      /\ loaded' = IF v THEN loaded + 1 ELSE loaded
      /\ UNCHANGED <<arguments, name, rule, dp, row, col, found>>
  BY DEF Judge, tableVars
<1>2. loaded < found /\ loaded \in 0 .. found /\ found \in 0 .. MaxFound
  BY DEF SearchInv, VerdictDue, SearchTypeOK
<1>3. loaded' \in 0 .. found
  BY <1>1, <1>2, MaxFoundAssumption
<1>4. Given' = Given
  BY <1>1 DEF Given
<1>5. SearchTypeOK'
  BY <1>1, <1>3, <1>4 DEF SearchInv, SearchTypeOK
<1>6. Matching' = Matching
  BY <1>1, <1>4 DEF Matching, Matches
<1>7. \A k \in Matching : (\A m \in Matching : m <= k) => (v <=> ~Negative(Given[k]))
  <2> DEFINE l == Len(Given)
  <2>1. arguments \in CommandLines \cup {<<>>}
    BY DEF SearchInv, SearchTypeOK
  <2>2. /\ l \in Nat /\ Len(Rules) = l
        /\ \A k \in 1 .. l : Rules[k] = Given[l + 1 - k]
    BY <2>1, RulesType
  <2>3. rule \in 1 .. l + 1
    BY DEF SearchInv, VerdictDue
  <2>4. \A r \in 1 .. rule - 1 : ~Matches(Rules[r])
    BY DEF SearchInv, NoneBefore
  <2>5. ASSUME NEW k \in Matching PROVE k \in 1 .. l /\ k <= l + 1 - rule
    <3>1. k \in 1 .. l /\ Matches(Given[k])
      BY DEF Matching
    <3>2. l + 1 - k \in 1 .. l /\ l + 1 - (l + 1 - k) = k
      BY <2>2, <3>1
    <3>3. Matches(Rules[l + 1 - k])
      BY <2>2, <3>1, <3>2
    <3>4. ~(l + 1 - k \in 1 .. rule - 1)
      BY <2>4, <3>3
    <3> QED
      BY <2>2, <2>3, <3>1, <3>4
  <2>6. CASE v = TRUE /\ rule > Len(Rules)
    <3>1. Matching = {}
      BY <2>2, <2>3, <2>5, <2>6
    <3> QED
      BY <2>6, <3>1
  <2>7. CASE /\ rule \in 1 .. l /\ Matches(Rules[rule])
             /\ v = ~Negative(Rules[rule])
    <3> DEFINE K == l + 1 - rule
    <3>1. K \in 1 .. l /\ Given[K] = Rules[rule]
      BY <2>2, <2>7
    <3>2. K \in Matching
      BY <2>7, <3>1 DEF Matching
    <3>3. \A m \in Matching : m \in Int /\ m <= K
      BY <2>5
    <3>4. ASSUME NEW k \in Matching, \A m \in Matching : m <= k PROVE k = K
      <4>1. K <= k /\ k <= K /\ k \in Int /\ K \in Int
        BY <3>1, <3>2, <3>3, <3>4
      <4> QED
        BY <4>1
    <3> HIDE DEF K
    <3>5. v <=> ~Negative(Given[K])
      BY <2>7, <3>1
    <3> QED
      BY <3>2, <3>3, <3>4, <3>5
  <2> QED
    BY <2>6, <2>7
<1>8. LastRuleDecides'
  BY <1>1, <1>4, <1>6, <1>7 DEF LastRuleDecides
<1> QED
  BY <1>1, <1>5, <1>8 DEF SearchInv, VerdictDue, TableCorrect, NoneBefore

LEMMA NoRuleMatchesInv ==
    ASSUME SearchInv, NoRuleMatches
    PROVE  SearchInv'
<1>1. search = "choosing" /\ rule > Len(Rules) /\ Judge(TRUE)
  BY DEF NoRuleMatches
<1> QED
  BY <1>1, JudgeInv

\* The next rule, when the one at hand does not match.
LEMMA NextRuleInv ==
    ASSUME SearchInv, search \in {"choosing", "filling"}, rule \in 1 .. Len(Given),
           ~Matches(Rules[rule]),
           search' = "choosing", rule' = rule + 1,
           UNCHANGED <<arguments, name, dp, row, col, enabled, found, loaded>>
    PROVE  SearchInv'
<1>1. Given' = Given /\ Rules' = Rules /\ \A r : Matches(r)' = Matches(r)
  BY DEF Given, Rules, Matches
<1>2. Len(Given) \in Nat
  BY TableTypes
<1>3. rule' \in 1 .. Len(Given') + 1 /\ rule' \in 0 .. Len(Given') + 1
  BY <1>1, <1>2
<1>4. SearchTypeOK'
  BY <1>3 DEF SearchInv, SearchTypeOK
<1>5. NoneBefore'
  <2>1. \A r \in 1 .. rule - 1 : ~Matches(Rules[r])
    BY DEF SearchInv, NoneBefore
  <2>2. \A r \in 1 .. rule' - 1 : r = rule \/ r \in 1 .. rule - 1
    BY <1>2
  <2>3. \A r \in 1 .. rule' - 1 : ~Matches(Rules[r])
    BY <2>1, <2>2
  <2> QED
    BY <1>1, <2>3 DEF NoneBefore
<1> QED
  BY <1>3, <1>4, <1>5 DEF SearchInv, VerdictDue, TableCorrect, LastRuleDecides

LEMMA SkipVoidRuleInv ==
    ASSUME SearchInv, SkipVoidRule
    PROVE  SearchInv'
<1>1. /\ search = "choosing" /\ rule <= Len(Rules) /\ Void(Rules[rule])
      /\ rule' = rule + 1
      /\ UNCHANGED <<search, arguments, name, dp, row, col, enabled, found, loaded>>
  BY DEF SkipVoidRule, tableVars
<1>2. rule \in 1 .. Len(Given)
  BY <1>1, TableTypes DEF SearchInv, VerdictDue
<1>3. ~Matches(Rules[rule])
  BY <1>1 DEF Matches
<1> QED
  BY <1>1, <1>2, <1>3, NextRuleInv

LEMMA BeginTableInv ==
    ASSUME SearchInv, BeginTable
    PROVE  SearchInv'
<1>1. /\ search = "choosing" /\ rule <= Len(Rules) /\ ~Void(Rules[rule])
      /\ search' = "filling" /\ dp' = FirstTable(P, name) /\ row' = 0 /\ col' = 0
      /\ UNCHANGED <<arguments, name, rule, enabled, found, loaded>>
  BY DEF BeginTable
<1>2. rule \in 1 .. Len(Given)
  BY <1>1, TableTypes DEF SearchInv, VerdictDue
<1>3. Len(P) \in Nat /\ Len(name) \in Nat
  BY <1>2, TableTypes
<1>4. Given' = Given /\ Rules' = Rules /\ P' = P /\ \A r : Matches(r)' = Matches(r)
  BY <1>1 DEF Given, Rules, P, Matches
<1>5. SearchTypeOK'
  <2>1. dp' \in [0 .. Len(P) -> [0 .. Len(name) -> BOOLEAN]]
    BY <1>1, <1>3, FirstTableType
  <2>2. row' \in Nat /\ col' \in Nat /\ row' <= Len(P) /\ col' <= Len(name)
    BY <1>1, <1>3
  <2> QED
    BY <1>1, <1>2, <1>4, <2>1, <2>2 DEF SearchInv, SearchTypeOK
<1>6. TableCorrect'
  <2>1. SUFFICES ASSUME NEW i \in 0 .. Len(P), NEW j \in 0 .. Len(name), Filled(i, j)'
                 PROVE  dp'[i][j] <=> Accepts(P, i, name, j)
    BY <1>1, <1>4 DEF TableCorrect
  <2>2. i = 0 \/ j = 0
    BY <1>1, <2>1 DEF Filled
  <2> QED
    BY <1>1, <1>3, <2>2, FirstTableCorrect
<1>7. NoneBefore'
  BY <1>1, <1>4 DEF SearchInv, NoneBefore
<1> QED
  BY <1>1, <1>4, <1>5, <1>6, <1>7 DEF SearchInv, VerdictDue, LastRuleDecides

\* Filling a cell leaves the others alone, and its neighbours are filled.
LEMMA FillCellInv ==
    ASSUME SearchInv, FillCell
    PROVE  SearchInv'
<1>1. /\ search = "filling" /\ search' = "filling" /\ row < Len(P) /\ col < Len(name)
      /\ dp' = [dp EXCEPT ![row + 1][col + 1] = Cell(P, name, row, col)]
      /\ col' = col + 1
      /\ UNCHANGED <<arguments, name, rule, row, enabled, found, loaded>>
  BY DEF FillCell
<1>2. /\ rule \in 1 .. Len(Given)
      /\ dp \in [0 .. Len(P) -> [0 .. Len(name) -> BOOLEAN]]
  BY <1>1 DEF SearchInv, SearchTypeOK
<1>3. Len(P) \in Nat /\ Len(name) \in Nat /\ row \in Nat /\ col \in Nat
  BY <1>2, TableTypes
<1>4. Given' = Given /\ Rules' = Rules /\ P' = P /\ \A r : Matches(r)' = Matches(r)
  BY <1>1 DEF Given, Rules, P, Matches
<1>5. /\ row \in 0 .. Len(P) /\ row + 1 \in 0 .. Len(P)
      /\ col \in 0 .. Len(name) /\ col + 1 \in 0 .. Len(name)
  BY <1>1, <1>3
<1> DEFINE c == Cell(P, name, row, col)
<1>6. c \in BOOLEAN
  BY DEF Cell
<1> HIDE DEF c
<1>7. dp' = [dp EXCEPT ![row + 1] = [dp[row + 1] EXCEPT ![col + 1] = c]]
  BY <1>1 DEF c
<1>8. /\ dp' \in [0 .. Len(P) -> [0 .. Len(name) -> BOOLEAN]]
      /\ dp'[row + 1][col + 1] = c
      /\ \A i \in 0 .. Len(P), j \in 0 .. Len(name) :
             i # row + 1 \/ j # col + 1 => dp'[i][j] = dp[i][j]
  <2>1. dp[row + 1] \in [0 .. Len(name) -> BOOLEAN]
    BY <1>2, <1>5
  <2>2. [dp[row + 1] EXCEPT ![col + 1] = c] \in [0 .. Len(name) -> BOOLEAN]
    BY <1>6, <2>1
  <2> QED
    BY <1>2, <1>5, <1>7, <2>1, <2>2
<1>9. SearchTypeOK'
  <2>1. col' \in Nat /\ col' <= Len(name)
    BY <1>1, <1>3
  <2> QED
    BY <1>1, <1>4, <1>8, <2>1 DEF SearchInv, SearchTypeOK
<1>10. \A i \in 0 .. Len(P), j \in 0 .. Len(name) :
           Filled(i, j) => (dp[i][j] <=> Accepts(P, i, name, j))
  BY <1>1 DEF SearchInv, TableCorrect
<1>11. TableCorrect'
  <2>1. SUFFICES ASSUME NEW i \in 0 .. Len(P), NEW j \in 0 .. Len(name), Filled(i, j)'
                 PROVE  dp'[i][j] <=> Accepts(P, i, name, j)
    BY <1>1, <1>4 DEF TableCorrect
  <2>2. CASE i = row + 1 /\ j = col + 1
    <3>1. Filled(row, col) /\ Filled(row + 1, col) /\ Filled(row, col + 1)
      BY <1>3 DEF Filled
    <3>2. c <=> Accepts(P, row + 1, name, col + 1)
      <4>1. name \in Seq(Char)
        BY TableTypes
      <4> QED
        BY <1>1, <1>3, <1>5, <1>10, <3>1, <4>1, CellCorrect DEF c
    <3> QED
      BY <1>8, <2>2, <3>2
  <2>3. CASE ~(i = row + 1 /\ j = col + 1)
    <3>1. Filled(i, j)
      BY <1>1, <1>3, <2>1, <2>3 DEF Filled
    <3>2. dp'[i][j] = dp[i][j]
      BY <1>8, <2>3
    <3> QED
      BY <1>10, <3>1, <3>2
  <2> QED
    BY <2>2, <2>3
<1>12. NoneBefore'
  BY <1>1, <1>4 DEF SearchInv, NoneBefore
<1> QED
  BY <1>1, <1>4, <1>9, <1>11, <1>12 DEF SearchInv, VerdictDue, LastRuleDecides

LEMMA NextRowInv ==
    ASSUME SearchInv, NextRow
    PROVE  SearchInv'
<1>1. /\ search = "filling" /\ search' = "filling" /\ row < Len(P) /\ col = Len(name)
      /\ row' = row + 1 /\ col' = 0
      /\ UNCHANGED <<arguments, name, rule, dp, enabled, found, loaded>>
  BY DEF NextRow
<1>2. rule \in 1 .. Len(Given)
  BY <1>1 DEF SearchInv, SearchTypeOK
<1>3. Len(P) \in Nat /\ Len(name) \in Nat /\ row \in Nat
  BY <1>2, TableTypes
<1>4. Given' = Given /\ Rules' = Rules /\ P' = P /\ \A r : Matches(r)' = Matches(r)
  BY <1>1 DEF Given, Rules, P, Matches
<1>5. SearchTypeOK'
  <2>1. row' \in Nat /\ col' \in Nat /\ row' <= Len(P) /\ col' <= Len(name)
    BY <1>1, <1>3
  <2> QED
    BY <1>1, <1>4, <2>1 DEF SearchInv, SearchTypeOK
<1>6. TableCorrect'
  <2>1. ASSUME NEW i \in 0 .. Len(P), NEW j \in 0 .. Len(name), Filled(i, j)'
        PROVE  Filled(i, j)
    BY <1>1, <1>3, <2>1 DEF Filled
  <2> QED
    BY <1>1, <1>4, <2>1 DEF SearchInv, TableCorrect
<1>7. NoneBefore'
  BY <1>1, <1>4 DEF SearchInv, NoneBefore
<1> QED
  BY <1>1, <1>4, <1>5, <1>6, <1>7 DEF SearchInv, VerdictDue, LastRuleDecides

\* The last cell says whether the rule matches.
LEMMA LastCell ==
    ASSUME SearchInv, TableDone
    PROVE  dp[Len(P)][Len(name)] <=> Matches(Rules[rule])
<1>1. search = "filling" /\ row = Len(P) /\ rule \in 1 .. Len(Given) /\ ~Void(Rules[rule])
  BY DEF TableDone, SearchInv, SearchTypeOK
<1>2. Len(P) \in Nat /\ Len(name) \in Nat
  BY <1>1, TableTypes
<1>3. Filled(Len(P), Len(name))
  BY <1>1, <1>2 DEF Filled
<1>4. Len(P) \in 0 .. Len(P) /\ Len(name) \in 0 .. Len(name)
  BY <1>2
<1>5. dp[Len(P)][Len(name)] <=> Accepts(P, Len(P), name, Len(name))
  BY <1>1, <1>3, <1>4 DEF SearchInv, TableCorrect
<1>6. Matches(Rules[rule]) <=> Accepts(P, Len(P), name, Len(name))
  BY <1>1 DEF Matches, P
<1> QED
  BY <1>5, <1>6

LEMMA RuleMatchesInv ==
    ASSUME SearchInv, RuleMatches
    PROVE  SearchInv'
<1>1. TableDone /\ dp[Len(P)][Len(name)] /\ Judge(~Negative(Rules[rule]))
  BY DEF RuleMatches
<1>2. search = "filling" /\ rule \in 1 .. Len(Given)
  BY <1>1 DEF TableDone, SearchInv, SearchTypeOK
<1>3. Matches(Rules[rule])
  BY <1>1, LastCell
<1>4. (~Negative(Rules[rule])) \in BOOLEAN
  OBVIOUS
<1> QED
  BY <1>1, <1>2, <1>3, <1>4, JudgeInv

LEMMA RuleDiffersInv ==
    ASSUME SearchInv, RuleDiffers
    PROVE  SearchInv'
<1>1. /\ TableDone /\ ~dp[Len(P)][Len(name)]
      /\ search' = "choosing" /\ rule' = rule + 1
      /\ UNCHANGED <<arguments, name, dp, row, col, enabled, found, loaded>>
  BY DEF RuleDiffers, tableVars
<1>2. search = "filling" /\ rule \in 1 .. Len(Given)
  BY <1>1 DEF TableDone, SearchInv, SearchTypeOK
<1>3. ~Matches(Rules[rule])
  BY <1>1, LastCell
<1> QED
  BY <1>1, <1>2, <1>3, NextRuleInv

LEMMA EndSearchInv ==
    ASSUME SearchInv, EndSearch
    PROVE  SearchInv'
<1>1. /\ search' = "done" /\ arguments' = <<>> /\ name' = <<>> /\ rule' = 0
      /\ row' = 0 /\ col' = 0 /\ UNCHANGED <<found, loaded>>
  BY DEF EndSearch
<1>2. enabled' \in BOOLEAN
  BY Zenon DEF EndSearch
<1>3. rule' \in 0 .. Len(Given') + 1
  <2>1. Len(Given') = 1
    BY <1>1 DEF Given
  <2> QED
    BY <1>1, <2>1
<1>4. SearchTypeOK'
  BY <1>1, <1>2, <1>3 DEF SearchInv, SearchTypeOK
<1> QED
  BY <1>1, <1>4 DEF SearchInv, VerdictDue, TableCorrect, NoneBefore, LastRuleDecides

\* Every step preserves the invariant.
LEMMA SearchNextInv == SearchInv /\ [SearchNext]_searchVars => SearchInv'
<1> SUFFICES ASSUME SearchInv, [SearchNext]_searchVars PROVE SearchInv'
  OBVIOUS
<1>1. CASE SearchNext
  BY <1>1, FindAnalyzerInv, NoRuleMatchesInv, SkipVoidRuleInv, BeginTableInv, FillCellInv,
     NextRowInv, RuleMatchesInv, RuleDiffersInv, EndSearchInv DEF SearchNext
<1>2. CASE UNCHANGED searchVars
  <2>1. UNCHANGED <<search, arguments, name, rule, dp, row, col, enabled, found, loaded>>
    BY <1>2 DEF searchVars, tableVars
  <2>2. Given' = Given /\ Rules' = Rules /\ P' = P /\ \A r : Matches(r)' = Matches(r)
    BY <2>1 DEF Given, Rules, P, Matches
  <2>3. SearchTypeOK' /\ VerdictDue'
    BY <2>1, <2>2 DEF SearchInv, SearchTypeOK, VerdictDue
  <2>4. TableCorrect'
    BY <2>1, <2>2 DEF SearchInv, TableCorrect, Filled
  <2>5. NoneBefore' /\ LastRuleDecides'
    BY <2>1, <2>2 DEF SearchInv, NoneBefore, LastRuleDecides, Matching
  <2> QED
    BY <2>1, <2>2, <2>3, <2>4, <2>5 DEF SearchInv
<1> QED
  BY <1>1, <1>2

-----------------------------------------------------------------------------
\* The inductive invariant of the search.
THEOREM SearchInvariance == SearchSpec => []SearchInv
<1>1. SearchInit => SearchInv
  BY SearchInitInv
<1>2. SearchInv /\ [SearchNext]_searchVars => SearchInv'
  BY SearchNextInv
<1> QED
  BY <1>1, <1>2, PTL DEF SearchSpec

\* Every variable keeps its type; no index leaves the table.
THEOREM SearchTypeCorrect == SearchSpec => []SearchTypeOK
<1>1. SearchInv => SearchTypeOK
  BY DEF SearchInv
<1> QED
  BY <1>1, SearchInvariance, PTL

\* Every filled cell of the table says whether the name so far is accepted by the
\* rule so far: it can be cut into the pieces of the rule, or, when the rule begins
\* with two stars, into those pieces and one character before them.
THEOREM TableIsCorrect == SearchSpec => []TableCorrect
<1>1. SearchInv => TableCorrect
  BY DEF SearchInv
<1> QED
  BY <1>1, SearchInvariance, PTL

\* The last rule that matches decides, however many shared objects are judged.
THEOREM LastRuleIsDecisive == SearchSpec => []LastRuleDecides
<1>1. SearchInv => LastRuleDecides
  BY DEF SearchInv
<1> QED
  BY <1>1, SearchInvariance, PTL
=============================================================================
