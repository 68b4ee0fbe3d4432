------------------------------- MODULE Database -------------------------------
(***************************************************************************)
(* The database of active objects that the analysis keeps for the          *)
(* analyzers (executable/src/database.cpp) and the classification of       *)
(* objects that the analyzers build on it (analyzers/utils.hpp).           *)
(*                                                                         *)
(* active_objects and object_names always gain and lose the same key, so   *)
(* one entry stands for both: the object's name, which is the number of    *)
(* the create event (last_used_name counts them all), and the object bits  *)
(* of that event.                                                          *)
(***************************************************************************)
EXTENDS SyncObjects

VARIABLE db     \* [Ids -> an entry, or NoEntry]

Ids == Threads \cup Locks \cup StaleIds

NoEntry == [name |-> 0, bits |-> "none"]

DbInit == db = [i \in Ids |-> IF i = Main THEN [name |-> 1, bits |-> "thread"]
                              ELSE NoEntry]

\* Mutation: an object is erased before the analyzers see that it is destroyed.
BeforeErases(e) ==
    CASE e.type = "create" /\ db[e.object] = NoEntry ->
             [db EXCEPT ![e.object] = [name |-> e.id, bits |-> e.bits]]
      [] e.type = "destroy" -> [db EXCEPT ![e.object] = NoEntry]
      [] OTHER -> db

\* handle_event_before_analyzers: emplace keeps an entry that is already there.
Before(e) ==
    IF e.type = "create" /\ db[e.object] = NoEntry
    THEN [db EXCEPT ![e.object] = [name |-> e.id, bits |-> e.bits]]
    ELSE db

\* Mutation: nothing is ever erased.
AfterKeepsAll(e, d) == d

\* Mutation: a joined or detached thread is erased too.
AfterForgetsThreads(e, d) ==
    IF e.type \in {"destroy", "join", "detach"} THEN [d EXCEPT ![e.object] = NoEntry] ELSE d

\* handle_event_after_analyzers: joining or detaching a thread destroys nothing.
After(e, d) == IF e.type = "destroy" THEN [d EXCEPT ![e.object] = NoEntry] ELSE d

\* The database as the analyzers see it during an event.
Known(d) == {i \in Ids : d[i] # NoEntry}

\* object_type: a recursive mutex is known by its create event only.
ObjectType(e, d) ==
    IF e.bits = "mutex" /\ d[e.object].bits = "rec_mutex" THEN "rec_mutex" ELSE e.bits

\* The ids object_type looks up, without asking whether they are there.
TypeLookups(e) == IF e.bits = "mutex" THEN {e.object} ELSE {}

\* Every object and every thread that can still act has an entry, and that of an
\* object is its own: the create event of a thread is reserved before it can
\* run, and a destroyed object gives up its address and its name together.
DatabaseKnowsLive ==
    /\ \A l \in Locks \ StaticLocks : object[l].alive => db[l].name = object[l].id
    /\ \A u \in Threads : thread[u] # "none" => db[u] # NoEntry
=============================================================================
