---------------------------- MODULE MutexLockOrder ----------------------------
(***************************************************************************)
(* The analyzer mutex-lock-order (analyzers/mutex-lock-order.cpp): reports *)
(* an error when a thread asks for a mutex while it has another one, and   *)
(* the two have been locked in the opposite order before.  Its sets of     *)
(* lock events are abstracted to the objects of those events, the keys by  *)
(* which it compares them.                                                 *)
(***************************************************************************)
EXTENDS Database, FiniteSets

VARIABLES
    owned,      \* thread_owned_mutexes: [Threads -> SUBSET Locks]
    edges,      \* the keys of edges: <<first, second>>
    nested      \* history: pairs really locked one inside the other

orderVars == <<owned, edges, nested>>

OrderInit ==
    /\ owned = [t \in Threads |-> {}]
    /\ edges = {}
    /\ nested = {}

\* Mutation: the new lock replaces what the thread owned.
OwnedLast(t, l) == {l}

OwnedAfter(t, l) == owned[t] \cup {l}

\* An unlock erases the unlock event from a set of lock events: no effect.
OrderHandle(e) ==
    IF e.bits = "mutex" /\ e.type = "after"
    THEN LET own == OwnedAfter(e.thread, e.object)
         IN  /\ owned' = [owned EXCEPT ![e.thread] = own]
             /\ edges' = edges \cup (own \X {e.object})
    ELSE UNCHANGED <<owned, edges>>

OrderReports(e) ==
    IF e.bits = "mutex" /\ e.type = "before"
    THEN {<<"order", e.object, k>> : k \in {k \in owned[e.thread] :
                                                <<e.object, k>> \in edges}}
    ELSE {}

\* A report names both objects, by address, and the threads of its events, which
\* are looked up as well but never in vain: see ThreadsStayKnown.
OrderLookups(e) == UNION {{r[2], r[3]} : r \in OrderReports(e)}

\* Pairs of mutexes that a thread has just finished locking in this order.
Nesting == IF event'.type = "after" /\ event'.bits = "mutex"
           THEN {k \in Locks : held[event'.thread][k] > 0 /\ object[k].kind # "rwlock"}
                \X {event'.object}
           ELSE {}

OrderObserve == nested' = nested \cup {p \in Nesting : p[1] # p[2]}
=============================================================================
