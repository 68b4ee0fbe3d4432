------------------------ MODULE RedundantRecursiveMutex ------------------------
(***************************************************************************)
(* The analyzer redundant-recursive-mutex                                  *)
(* (analyzers/redundant-recursive-mutex.cpp): warns of a recursive mutex   *)
(* that was locked, but never by a thread that had it already.             *)
(***************************************************************************)
EXTENDS Database, FiniteSets

VARIABLES
    recursives,     \* [Locks -> [tracked, locked, owned: thread_owner has a value]]
    recursion       \* history: "none", "locked" or "recursed" since its creation

recVars == <<recursives, recursion>>

RecUntracked == [tracked |-> FALSE, locked |-> FALSE, owned |-> FALSE]

RecInit ==
    /\ recursives = [l \in Locks |-> RecUntracked]
    /\ recursion = [l \in Locks |-> "none"]

\* A second lock before any unlock is the recursion; the mutex is let go.
RecLock(l) ==
    IF recursives[l].owned
    THEN RecUntracked
    ELSE [recursives[l] EXCEPT !.locked = TRUE, !.owned = TRUE]

\* Mutation: the owner is not reset.
RecUnlockKeepsOwner(l) == recursives[l]

RecUnlock(l) == [recursives[l] EXCEPT !.owned = FALSE]

RecHandle(e, d) ==
    LET l == e.object
    IN  recursives' =
          IF ObjectType(e, d) # "rec_mutex" THEN recursives
          ELSE CASE e.type = "create" /\ ~recursives[l].tracked ->
                        [recursives EXCEPT ![l].tracked = TRUE]
                 [] e.type = "destroy" -> [recursives EXCEPT ![l] = RecUntracked]
                 [] e.type = "after" /\ recursives[l].tracked ->
                        [recursives EXCEPT ![l] = RecLock(l)]
                 [] e.type = "unlock" /\ recursives[l].tracked ->
                        [recursives EXCEPT ![l] = RecUnlock(l)]
                 [] OTHER -> recursives

\* ~RecursiveMutexState; an entry let go for a recursion says nothing.
RecVerdict(l) == IF recursives[l].locked THEN {<<"not recursive", l>>} ELSE {}

RecReports(e, d) ==
    IF ObjectType(e, d) = "rec_mutex" /\ e.type = "destroy"
    THEN RecVerdict(e.object) ELSE {}

RecLastReports == UNION {RecVerdict(l) : l \in Locks}

\* object_type is called for every event.
RecLookups(e) == TypeLookups(e)

Lockers(l) == {t \in Threads : held'[t][l] > held[t][l]}

RecObserve ==
    recursion' = [l \in Locks |->
        IF object'[l].id # object[l].id THEN "none"
        ELSE CASE Lockers(l) = {} -> recursion[l]
               [] \E t \in Lockers(l) : held[t][l] > 0 -> "recursed"
               [] OTHER -> IF recursion[l] = "none" THEN "locked" ELSE recursion[l]]
=============================================================================
