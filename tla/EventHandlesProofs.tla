-------------------------- MODULE EventHandlesProofs --------------------------
(***************************************************************************)
(* Proofs about EventHandles, for every set of events and every finite set *)
(* of handles: the counts are exact.  Every operation is a composition of  *)
(* two, which the lemmas are about: a handle lets its event go, or takes   *)
(* one that is alive.                                                      *)
(***************************************************************************)
EXTENDS EventHandles, FiniteSetTheorems, TLAPS

\* The typing and the property, of any pointers p and cells c.
Typed(p, c) ==
    /\ p \in [Handles -> Events \cup {Null, Dead}]
    /\ c \in [Events -> [state : {"unborn", "live", "freed"}, count : Nat]]

OwnersIn(p, e) == {h \in Handles : p[h] = e}

Exact(p, c) ==
    \A e \in Events :
        /\ c[e].state = "live" <=> OwnersIn(p, e) # {}
        /\ c[e].state = "live" => c[e].count = Cardinality(OwnersIn(p, e))

Sound(p, c) == Typed(p, c) /\ Exact(p, c)

LEMMA SoundIsRefExact == Sound(ptr, cell) <=> HandlesTypeOK /\ RefExact
BY DEF Sound, Typed, Exact, OwnersIn, HandlesTypeOK, RefExact, Owners

\* The owners of an event are a finite set.
LEMMA OwnersFinite ==
    ASSUME NEW p, NEW e
    PROVE  /\ IsFiniteSet(OwnersIn(p, e))
           /\ Cardinality(OwnersIn(p, e)) \in Nat
           /\ Cardinality(OwnersIn(p, e)) = 0 <=> OwnersIn(p, e) = {}
<1>1. OwnersIn(p, e) \in SUBSET Handles
  BY DEF OwnersIn
<1>2. IsFiniteSet(OwnersIn(p, e))
  BY <1>1, HandlesAssumption, FS_Subset
<1>3. Cardinality(OwnersIn(p, e)) \in Nat
  BY <1>2, FS_CardinalityType
<1>4. Cardinality(OwnersIn(p, e)) = 0 <=> OwnersIn(p, e) = {}
  BY <1>2, FS_EmptySet
<1> QED
  BY <1>2, <1>3, <1>4

\* The event of a handle is alive, with a count of at least one.
LEMMA PointedIsLive ==
    ASSUME NEW p, NEW c, Sound(p, c), NEW h \in Handles, p[h] \in Events
    PROVE  c[p[h]].state = "live" /\ c[p[h]].count \in Nat \ {0}
<1>1. h \in OwnersIn(p, p[h])
  BY DEF OwnersIn
<1>2. c[p[h]].state = "live" /\ c[p[h]].count = Cardinality(OwnersIn(p, p[h]))
  BY <1>1 DEF Sound, Exact
<1> QED
  BY <1>1, <1>2, OwnersFinite

-----------------------------------------------------------------------------
\* A handle lets its event go, which is freed with its last owner.
LEMMA Detach ==
    ASSUME NEW p, NEW c, Sound(p, c),
           NEW h \in Handles, p[h] # Dead, NEW x \in {Null, Dead}
    PROVE  Sound([p EXCEPT ![h] = x], Dec(c, p[h]))
<1> DEFINE q == [p EXCEPT ![h] = x]
<1>1. q \in [Handles -> Events \cup {Null, Dead}] /\ x \notin Events
  BY NullAssumption DEF Sound, Typed
<1>2. \A e \in Events : OwnersIn(q, e) = OwnersIn(p, e) \ {h}
  BY <1>1 DEF OwnersIn, Sound, Typed
<1>3. CASE p[h] = Null
  <2>1. \A e \in Events : OwnersIn(q, e) = OwnersIn(p, e)
    BY <1>2, <1>3, NullAssumption DEF OwnersIn
  <2>2. Dec(c, p[h]) = c
    BY <1>3 DEF Dec
  <2> QED
    BY <1>1, <2>1, <2>2 DEF Sound, Typed, Exact
<1>4. CASE p[h] # Null
  <2> DEFINE v == p[h]
             n == c[v].count
             d == Dec(c, v)
  <2>1. v \in Events /\ c \in [Events -> [state : {"unborn", "live", "freed"}, count : Nat]]
    BY <1>4 DEF Sound, Typed
  <2>2. c[v].state = "live" /\ n \in Nat \ {0}
    BY <2>1, PointedIsLive
  <2>3. d = [c EXCEPT ![v] = [state |-> IF n = 1 THEN "freed" ELSE "live",
                              count |-> n - 1]]
    BY <1>4, <2>1, <2>2 DEF Dec
  <2>4. d \in [Events -> [state : {"unborn", "live", "freed"}, count : Nat]]
    BY <2>1, <2>2, <2>3
  <2>5. ASSUME NEW e \in Events
        PROVE  /\ d[e].state = "live" <=> OwnersIn(q, e) # {}
               /\ d[e].state = "live" => d[e].count = Cardinality(OwnersIn(q, e))
    <3>1. CASE e = v
      <4>1. d[e] = [state |-> IF n = 1 THEN "freed" ELSE "live", count |-> n - 1]
        BY <2>1, <2>3, <3>1
      <4>2. h \in OwnersIn(p, e) /\ OwnersIn(q, e) = OwnersIn(p, e) \ {h}
        BY <1>2, <3>1 DEF OwnersIn
      <4>3. Cardinality(OwnersIn(p, e)) = n
        BY <2>1, <2>2, <3>1 DEF Sound, Exact
      <4>4. Cardinality(OwnersIn(q, e)) = n - 1
        BY <4>2, <4>3, OwnersFinite, FS_RemoveElement, ZenonT(60)
      <4>5. n = 1 <=> OwnersIn(q, e) = {}
        BY <2>2, <4>4, OwnersFinite
      <4>6. d[e].state = "live" <=> n # 1
        BY <4>1
      <4>7. d[e].count = n - 1
        BY <4>1
      <4> HIDE DEF d, q, n
      <4> QED
        BY <4>4, <4>5, <4>6, <4>7
    <3>2. CASE e # v
      <4>1. d[e] = c[e]
        BY <2>1, <2>3, <3>2
      <4>2. OwnersIn(q, e) = OwnersIn(p, e)
        BY <1>2, <3>2 DEF OwnersIn
      <4> QED
        BY <4>1, <4>2 DEF Sound, Exact
    <3> QED
      BY <3>1, <3>2
  <2> QED
    BY <1>1, <2>4, <2>5 DEF Sound, Typed, Exact
<1> QED
  BY <1>3, <1>4

\* What Inc makes of a live cell.
LEMMA IncRecord ==
    ASSUME NEW v \in Events, v # Null,
           NEW c \in [Events -> [state : {"unborn", "live", "freed"}, count : Nat]],
           c[v].state = "live"
    PROVE  Inc(c, v) = [c EXCEPT ![v] = [state |-> "live", count |-> c[v].count + 1]]
<1>1. Inc(c, v) = [c EXCEPT ![v] = [c[v] EXCEPT !.count = c[v].count + 1]]
  BY DEF Inc
<1>2. [c[v] EXCEPT !.count = c[v].count + 1] = [state |-> "live", count |-> c[v].count + 1]
  OBVIOUS
<1> QED
  BY <1>1, <1>2

\* A handle without an event takes a live one, or none.
LEMMA Attach ==
    ASSUME NEW p, NEW c, Sound(p, c),
           NEW h \in Handles, p[h] \in {Null, Dead},
           NEW v \in Events \cup {Null}, v \in Events => c[v].state = "live"
    PROVE  Sound([p EXCEPT ![h] = v], Inc(c, v))
<1> DEFINE q == [p EXCEPT ![h] = v]
<1>1. q \in [Handles -> Events \cup {Null, Dead}] /\ p[h] \notin Events
  BY NullAssumption DEF Sound, Typed
<1>2. \A e \in Events : OwnersIn(q, e) = IF e = v THEN OwnersIn(p, e) \cup {h}
                                         ELSE OwnersIn(p, e)
  BY <1>1 DEF OwnersIn, Sound, Typed
<1>3. CASE v = Null
  <2>1. \A e \in Events : OwnersIn(q, e) = OwnersIn(p, e)
    BY <1>2, <1>3, NullAssumption
  <2>2. Inc(c, v) = c
    BY <1>3 DEF Inc
  <2> QED
    BY <1>1, <2>1, <2>2 DEF Sound, Typed, Exact
<1>4. CASE v # Null
  <2> DEFINE n == c[v].count
             d == Inc(c, v)
  <2>1. v \in Events /\ c \in [Events -> [state : {"unborn", "live", "freed"}, count : Nat]]
    BY <1>4 DEF Sound, Typed
  <2>2. c[v].state = "live" /\ n \in Nat
    BY <2>1
  <2>3. d = [c EXCEPT ![v] = [state |-> "live", count |-> n + 1]]
    BY <1>4, <2>1, <2>2, IncRecord
  <2>4. d \in [Events -> [state : {"unborn", "live", "freed"}, count : Nat]]
    BY <2>1, <2>2, <2>3
  <2>5. ASSUME NEW e \in Events
        PROVE  /\ d[e].state = "live" <=> OwnersIn(q, e) # {}
               /\ d[e].state = "live" => d[e].count = Cardinality(OwnersIn(q, e))
    <3>1. CASE e = v
      <4>1. d[e] = [state |-> "live", count |-> n + 1]
        BY <2>1, <2>3, <3>1
      <4>2. h \notin OwnersIn(p, e) /\ OwnersIn(q, e) = OwnersIn(p, e) \cup {h}
        BY <1>1, <1>2, <3>1 DEF OwnersIn
      <4>3. Cardinality(OwnersIn(p, e)) = n
        BY <2>1, <2>2, <3>1 DEF Sound, Exact
      <4>4. Cardinality(OwnersIn(q, e)) = n + 1
        BY <4>2, <4>3, OwnersFinite, FS_AddElement, ZenonT(60)
      <4>5. d[e].state = "live" /\ d[e].count = n + 1
        BY <4>1
      <4> HIDE DEF d, q, n
      <4> QED
        BY <4>2, <4>4, <4>5
    <3>2. CASE e # v
      <4>1. d[e] = c[e]
        BY <2>1, <2>3, <3>2
      <4>2. OwnersIn(q, e) = OwnersIn(p, e)
        BY <1>2, <3>2
      <4> QED
        BY <4>1, <4>2 DEF Sound, Exact
    <3> QED
      BY <3>1, <3>2
  <2> QED
    BY <1>1, <2>4, <2>5 DEF Sound, Typed, Exact
<1> QED
  BY <1>3, <1>4

\* A move: one handle takes what the other lets go, and the count stays.
LEMMA Move ==
    ASSUME NEW p, NEW c, Sound(p, c),
           NEW h \in Handles, p[h] \in {Null, Dead},
           NEW o \in Handles, o # h, p[o] # Dead
    PROVE  Sound([p EXCEPT ![h] = p[o], ![o] = Null], c)
<1> DEFINE v == p[o]
           q == [p EXCEPT ![h] = v]
<1>1. /\ v \in Events \cup {Null}
      /\ c \in [Events -> [state : {"unborn", "live", "freed"}, count : Nat]]
      /\ p \in [Handles -> Events \cup {Null, Dead}]
  BY DEF Sound, Typed
<1>2. v \in Events => c[v].state = "live" /\ c[v].count \in Nat \ {0}
  BY PointedIsLive
<1>3. Sound(q, Inc(c, v))
  BY <1>1, <1>2, Attach
<1>4. q[o] = v /\ v # Dead /\ [q EXCEPT ![o] = Null] = [p EXCEPT ![h] = p[o], ![o] = Null]
  BY <1>1
<1>5. Sound([q EXCEPT ![o] = Null], Dec(Inc(c, v), v))
  BY <1>3, <1>4, Detach
<1>6. Dec(Inc(c, v), v) = c
  <2>1. CASE v = Null
    BY <2>1 DEF Inc, Dec
  <2>2. CASE v # Null
    <3> DEFINE n == c[v].count
    <3>1. v \in Events /\ n \in Nat \ {0} /\ c[v] = [state |-> "live", count |-> n]
      BY <1>1, <1>2, <2>2
    <3>2. Inc(c, v) = [c EXCEPT ![v] = [state |-> "live", count |-> n + 1]]
      BY <1>1, <1>2, <2>2, <3>1, IncRecord
    <3>3. Inc(c, v)[v] = [state |-> "live", count |-> n + 1]
      BY <1>1, <3>1, <3>2
    <3>4. Dec(Inc(c, v), v) = [Inc(c, v) EXCEPT ![v] = [state |-> "live", count |-> n]]
      BY <2>2, <3>1, <3>3 DEF Dec
    <3>5. [Inc(c, v) EXCEPT ![v] = [state |-> "live", count |-> n]] = c
      BY <1>1, <3>1, <3>2
    <3> QED
      BY <3>4, <3>5
  <2> QED
    BY <2>1, <2>2
<1> QED
  BY <1>4, <1>5, <1>6

-----------------------------------------------------------------------------
\* Every operation on a handle keeps the counts exact.
LEMMA HandleOpSound ==
    ASSUME Sound(ptr, cell), NEW h \in Handles, HandleOp(h)
    PROVE  Sound(ptr', cell')
<1> USE DEF Alive
<1>1. /\ ptr \in [Handles -> Events \cup {Null, Dead}]
      /\ cell \in [Events -> [state : {"unborn", "live", "freed"}, count : Nat]]
  BY DEF Sound, Typed
<1>2. ASSUME NEW e \in Events, Make(h, e) PROVE Sound(ptr', cell')
  <2> DEFINE q == [ptr EXCEPT ![h] = e]
             d == [cell EXCEPT ![e] = [state |-> "live", count |-> 1]]
  <2>1. ptr' = q /\ cell' = d /\ ptr[h] = Dead /\ cell[e].state = "unborn"
    BY <1>2 DEF Make
  <2>2. Typed(q, d)
    BY <1>1 DEF Typed
  <2>3. ASSUME NEW f \in Events
        PROVE  /\ d[f].state = "live" <=> OwnersIn(q, f) # {}
               /\ d[f].state = "live" => d[f].count = Cardinality(OwnersIn(q, f))
    <3>1. CASE f = e
      <4>1. OwnersIn(ptr, e) = {}
        BY <2>1 DEF Sound, Exact
      <4>2. OwnersIn(q, e) = {h}
        BY <1>1, <4>1 DEF OwnersIn
      <4>3. Cardinality(OwnersIn(q, e)) = 1
        BY <4>2, FS_Singleton
      <4>4. d[f] = [state |-> "live", count |-> 1]
        BY <1>1, <3>1
      <4>5. d[f].state = "live" /\ d[f].count = 1
        BY <4>4
      <4> HIDE DEF d, q
      <4> QED
        BY <3>1, <4>2, <4>3, <4>5
    <3>2. CASE f # e
      <4>1. d[f] = cell[f]
        BY <1>1, <3>2
      <4>2. OwnersIn(q, f) = OwnersIn(ptr, f)
        BY <1>1, <2>1, <3>2, NullAssumption DEF OwnersIn
      <4> QED
        BY <4>1, <4>2 DEF Sound, Exact
    <3> QED
      BY <3>1, <3>2
  <2> QED
    BY <2>1, <2>2, <2>3 DEF Sound, Exact
<1>3. ASSUME MakeNull(h) PROVE Sound(ptr', cell')
  <2>1. ptr' = [ptr EXCEPT ![h] = Null] /\ cell' = Inc(cell, Null) /\ ptr[h] = Dead
    BY <1>3 DEF MakeNull, Inc
  <2>2. Null \in Events \cup {Null} /\ Null \notin Events
    BY NullAssumption
  <2> QED
    BY <2>1, <2>2, Attach
<1>4. ASSUME NEW o \in Handles, Alive(o)
      PROVE  /\ ptr[o] \in Events \cup {Null}
             /\ ptr[o] \in Events => cell[ptr[o]].state = "live"
  BY <1>1, <1>4, PointedIsLive
<1>5. ASSUME NEW o \in Handles, CopyConstruct(h, o) PROVE Sound(ptr', cell')
  <2>1. /\ ptr' = [ptr EXCEPT ![h] = ptr[o]] /\ cell' = Inc(cell, ptr[o])
        /\ ptr[h] = Dead /\ Alive(o)
    BY <1>5 DEF CopyConstruct
  <2> QED
    BY <1>4, <2>1, Attach
<1>6. ASSUME NEW o \in Handles, MoveConstruct(h, o) PROVE Sound(ptr', cell')
  <2>1. /\ ptr' = [ptr EXCEPT ![h] = ptr[o], ![o] = Null] /\ cell' = cell
        /\ ptr[h] = Dead /\ ptr[o] # Dead
    BY <1>6 DEF MoveConstruct
  <2> QED
    BY <2>1, Move
<1>7. ASSUME Alive(h) PROVE Sound([ptr EXCEPT ![h] = Null], Dec(cell, ptr[h]))
  BY <1>7, Detach
<1>8. ASSUME NEW o \in Handles, CopyAssign(h, o) PROVE Sound(ptr', cell')
  <2>1. CASE h = o
    BY <1>8, <2>1 DEF CopyAssign, handleVars
  <2>2. CASE h # o
    <3> DEFINE p == [ptr EXCEPT ![h] = Null]
               c == Dec(cell, ptr[h])
    <3>1. /\ ptr' = [ptr EXCEPT ![h] = ptr[o]] /\ cell' = Inc(c, ptr[o])
          /\ Alive(h) /\ Alive(o)
      BY <1>8, <2>2 DEF CopyAssign
    <3>2. Sound(p, c)
      BY <1>7, <3>1
    <3>3. p[h] = Null /\ p[o] = ptr[o] /\ ptr' = [p EXCEPT ![h] = p[o]]
      BY <1>1, <2>2, <3>1
    <3>4. p[o] \in Events \cup {Null}
      BY <1>4, <3>1, <3>3
    <3>5. p[o] \in Events => c[p[o]].state = "live"
      BY <3>2, PointedIsLive
    <3> HIDE DEF p, c
    <3>6. Sound([p EXCEPT ![h] = p[o]], Inc(c, p[o]))
      BY <3>2, <3>3, <3>4, <3>5, Attach
    <3> QED
      BY <3>1, <3>3, <3>6
  <2> QED
    BY <2>1, <2>2
<1>9. ASSUME NEW o \in Handles, MoveAssign(h, o) PROVE Sound(ptr', cell')
  <2>1. CASE h = o
    BY <1>9, <2>1 DEF MoveAssign, handleVars
  <2>2. CASE h # o
    <3> DEFINE p == [ptr EXCEPT ![h] = Null]
               c == Dec(cell, ptr[h])
    <3>1. /\ ptr' = [ptr EXCEPT ![h] = ptr[o], ![o] = Null] /\ cell' = c
          /\ Alive(h) /\ Alive(o)
      BY <1>9, <2>2 DEF MoveAssign
    <3>2. Sound(p, c)
      BY <1>7, <3>1
    <3>3. /\ p[h] = Null /\ p[o] = ptr[o] /\ p[o] # Dead
          /\ ptr' = [p EXCEPT ![h] = p[o], ![o] = Null]
      BY <1>1, <2>2, <3>1
    <3> HIDE DEF p, c
    <3>4. Sound([p EXCEPT ![h] = p[o], ![o] = Null], c)
      BY <2>2, <3>2, <3>3, Move
    <3> QED
      BY <3>1, <3>3, <3>4
  <2> QED
    BY <2>1, <2>2
<1>10. ASSUME Destroy(h) PROVE Sound(ptr', cell')
  BY <1>10, Detach DEF Destroy
<1> QED
  BY <1>2, <1>3, <1>5, <1>6, <1>8, <1>9, <1>10 DEF HandleOp

\* Before the first event.
LEMMA HandlesInitSound == HandlesInit => Sound(ptr, cell)
<1> SUFFICES ASSUME HandlesInit PROVE Sound(ptr, cell)
  OBVIOUS
<1>1. Typed(ptr, cell)
  BY DEF HandlesInit, Typed
<1>2. \A e \in Events : OwnersIn(ptr, e) = {} /\ cell[e].state = "unborn"
  BY NullAssumption DEF HandlesInit, OwnersIn
<1> QED
  BY <1>1, <1>2 DEF Sound, Exact

-----------------------------------------------------------------------------
\* Every event lives exactly as long as some handle points to it, and its count is
\* the number of these: for any clients, which do the operations in any order on
\* any handles.
THEOREM CountsExact == HandlesSpec => [](HandlesTypeOK /\ RefExact)
<1>1. HandlesInit => Sound(ptr, cell)
  BY HandlesInitSound
<1>2. Sound(ptr, cell) /\ [HandlesNext]_handleVars => Sound(ptr, cell)'
  <2> SUFFICES ASSUME Sound(ptr, cell), [HandlesNext]_handleVars PROVE Sound(ptr', cell')
    OBVIOUS
  <2>1. CASE HandlesNext
    BY <2>1, HandleOpSound DEF HandlesNext
  <2>2. CASE UNCHANGED handleVars
    BY <2>2 DEF handleVars
  <2> QED
    BY <2>1, <2>2
<1>3. Sound(ptr, cell) => HandlesTypeOK /\ RefExact
  BY SoundIsRefExact
<1> QED
  BY <1>1, <1>2, <1>3, PTL DEF HandlesSpec
=============================================================================
