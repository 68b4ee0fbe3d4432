----------------------------- MODULE EventHandles -----------------------------
(***************************************************************************)
(* The shared handles through which the analysis passes events around      *)
(* (executable/include/syan_analyzer_api/event.hpp, src/event.cpp): "a     *)
(* shared pointer-style implementation", with the count in the event.      *)
(*                                                                         *)
(* A handle is a C++ object of class Event: a parameter, a map entry, a    *)
(* field.  It is alive between a constructor and the destructor.  The      *)
(* clients do one operation at a time (no thread safety is claimed), on    *)
(* any two handles, which may be the same or point to the same event.      *)
(* A freed cell is not allocated again, so a late access is not hidden.    *)
(***************************************************************************)
EXTENDS Integers, FiniteSets

CONSTANTS
    Events,     \* the records a reader may make events of
    Handles,    \* the objects of class Event
    Null,       \* nullptr
    Dead        \* the pointer of an object that is not alive

ASSUME HandlesAssumption == IsFiniteSet(Handles)
ASSUME NullAssumption == Null \notin Events /\ Dead \notin Events /\ Null # Dead

VARIABLES
    ptr,        \* [Handles -> an event, Null or Dead]
    cell        \* [Events -> [state : "unborn", "live" or "freed", count]]

handleVars == <<ptr, cell>>

HandlesInit ==
    /\ ptr = [h \in Handles |-> Dead]
    /\ cell = [e \in Events |-> [state |-> "unborn", count |-> 0]]

Alive(h) == ptr[h] # Dead

-----------------------------------------------------------------------------
(* inc_ref_count and dec_ref_count, on the cells as an operation has left  *)
(* them so far.                                                            *)

Inc(c, p) == IF p = Null THEN c ELSE [c EXCEPT ![p].count = @ + 1]

Dec(c, p) ==
    IF p = Null THEN c
    ELSE [c EXCEPT ![p] = [state |-> IF @.count = 1 THEN "freed" ELSE @.state,
                           count |-> @.count - 1]]

\* Event::make of a record with a signature.
Make(h, e) ==
    /\ ~Alive(h) /\ cell[e].state = "unborn"
    /\ ptr' = [ptr EXCEPT ![h] = e]
    /\ cell' = [cell EXCEPT ![e] = [state |-> "live", count |-> 1]]

\* The default constructor, the one from nullptr, and Event::make without a
\* signature.
MakeNull(h) ==
    /\ ~Alive(h)
    /\ ptr' = [ptr EXCEPT ![h] = Null]
    /\ UNCHANGED cell

CopyConstruct(h, o) ==
    /\ ~Alive(h) /\ Alive(o)
    /\ ptr' = [ptr EXCEPT ![h] = ptr[o]]
    /\ cell' = Inc(cell, ptr[o])

MoveConstruct(h, o) ==
    /\ ~Alive(h) /\ Alive(o)
    /\ ptr' = [ptr EXCEPT ![h] = ptr[o], ![o] = Null]
    /\ UNCHANGED cell

\* Mutation: no test for self-assignment.
CopyAssignUnguarded(h, o) ==
    /\ Alive(h) /\ Alive(o)
    /\ ptr' = [ptr EXCEPT ![h] = ptr[o]]
    /\ cell' = Inc(Dec(cell, ptr[h]), ptr[o])

\* The old event is let go before the new one is taken: two handles of one event
\* are safe because the other one still counts.
CopyAssign(h, o) ==
    /\ Alive(h) /\ Alive(o)
    /\ IF h = o
         THEN UNCHANGED handleVars
         ELSE /\ ptr' = [ptr EXCEPT ![h] = ptr[o]]
              /\ cell' = Inc(Dec(cell, ptr[h]), ptr[o])

MoveAssign(h, o) ==
    /\ Alive(h) /\ Alive(o)
    /\ IF h = o
         THEN UNCHANGED handleVars
         ELSE /\ ptr' = [ptr EXCEPT ![h] = ptr[o], ![o] = Null]
              /\ cell' = Dec(cell, ptr[h])

Destroy(h) ==
    /\ Alive(h)
    /\ ptr' = [ptr EXCEPT ![h] = Dead]
    /\ cell' = Dec(cell, ptr[h])

HandleOp(h) ==
    \/ \E e \in Events : Make(h, e)
    \/ MakeNull(h)
    \/ \E o \in Handles : CopyConstruct(h, o) \/ MoveConstruct(h, o)
    \/ \E o \in Handles : CopyAssign(h, o) \/ MoveAssign(h, o)
    \/ Destroy(h)

HandlesNext == \E h \in Handles : HandleOp(h)

HandlesSpec == HandlesInit /\ [][HandlesNext]_handleVars

-----------------------------------------------------------------------------
(* Properties *)

HandlesTypeOK ==
    /\ ptr \in [Handles -> Events \cup {Null, Dead}]
    /\ cell \in [Events -> [state : {"unborn", "live", "freed"}, count : Nat]]

Owners(e) == {h \in Handles : ptr[h] = e}

\* An event lives exactly as long as some handle points to it, and its count is
\* the number of those handles: whatever is copied, moved, overwritten by itself
\* or by a handle of the same event, nothing dangles and nothing leaks.
RefExact ==
    \A e \in Events :
        /\ cell[e].state = "live" <=> Owners(e) # {}
        /\ cell[e].state = "live" => cell[e].count = Cardinality(Owners(e))
=============================================================================
