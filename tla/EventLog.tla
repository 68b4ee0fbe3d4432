------------------------------- MODULE EventLog -------------------------------
(***************************************************************************)
(* What the capture library promises of the dump file, without pages,      *)
(* counters or a worker: a file of numbered places.  A capture call first  *)
(* reserves a place nobody has, later finalizes it, and the file grows by  *)
(* places that are all finalized, never leaving one out.  EventQueue       *)
(* implements this specification for every number and size of pages.       *)
(*                                                                         *)
(* The one concession is Spoil: a place that has been reserved but not yet *)
(* written may lose what its event stored in it.  EventQueue shows when.   *)
(***************************************************************************)
EXTENDS Naturals

CONSTANT Places     \* the places a behaviour may use, a set of numbers

VARIABLES
    reserved,   \* places handed to a capture call
    final,      \* places whose event has been finalized
    spoiled,    \* places that lost what was stored in them
    written,    \* length of the file
    due,        \* places reserved before the library was stopped
    phase       \* "open", "stopping", "closed" or "failed"

vars == <<reserved, final, spoiled, written, due, phase>>

Init ==
    /\ reserved = {}
    /\ final = {}
    /\ spoiled = {}
    /\ written = 0
    /\ due = {}
    /\ phase = "open"

Reserve(p) ==
    /\ p \notin reserved
    /\ p >= written
    /\ reserved' = reserved \cup {p}
    /\ UNCHANGED <<final, spoiled, written, due, phase>>

Finalize(p) ==
    /\ p \in reserved \ final
    /\ final' = final \cup {p}
    /\ UNCHANGED <<reserved, spoiled, written, due, phase>>

Spoil(p) ==
    /\ p \in reserved \ spoiled
    /\ p >= written
    /\ spoiled' = spoiled \cup {p}
    /\ UNCHANGED <<reserved, final, written, due, phase>>

\* The places written .. n - 1 can be appended to the file.
Writable(n) == n >= written /\ written .. n - 1 \subseteq final

Write(n) ==
    /\ phase \in {"open", "stopping"}
    /\ Writable(n)
    /\ written' = n
    /\ UNCHANGED <<reserved, final, spoiled, due, phase>>

Fail(n) ==
    /\ phase \in {"open", "stopping"}
    /\ Writable(n)
    /\ written' = n
    /\ phase' = "failed"
    /\ UNCHANGED <<reserved, final, spoiled, due>>

Stop ==
    /\ phase = "open"
    /\ due' = reserved
    /\ phase' = "stopping"
    /\ UNCHANGED <<reserved, final, spoiled, written>>

\* The file is closed only when the next place was not reserved before the stop.
Close ==
    /\ phase = "stopping"
    /\ written \notin due
    /\ phase' = "closed"
    /\ UNCHANGED <<reserved, final, spoiled, written, due>>

Next == \/ \E p \in Places : Reserve(p) \/ Finalize(p) \/ Spoil(p)
        \/ \E n \in Places : Write(n) \/ Fail(n)
        \/ Stop
        \/ Close

Spec == Init /\ [][Next]_vars
=============================================================================
