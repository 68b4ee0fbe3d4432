------------------------------ MODULE UselessLock ------------------------------
(***************************************************************************)
(* The analyzer useless-lock (analyzers/useless-lock.cpp): warns of an     *)
(* object that no thread, or only one, ever asked for.                     *)
(***************************************************************************)
EXTENDS Database, FiniteSets

ASSUME MarksAssumption == {"untracked", "never"} \cap Threads = {}

VARIABLES
    useless,    \* objects: [Locks -> "untracked", "never" or the one thread]
    attempts    \* history: threads that asked for the object since its creation

uselessVars == <<useless, attempts>>

UselessInit ==
    /\ useless = [l \in Locks |-> "untracked"]
    /\ attempts = [l \in Locks |-> {}]

\* Mutation: a second thread takes the place of the first.
SetThreadAlways(l, t) == t

\* set_thread, and the erase that follows when another thread was there first.
SetThread(l, t) == IF useless[l] \in {"never", t} THEN t ELSE "untracked"

UselessHandle(e) ==
    LET l == e.object
    IN  useless' =
          IF e.bits = "thread" THEN useless
          ELSE CASE e.type = "create" /\ useless[l] = "untracked" ->
                        [useless EXCEPT ![l] = "never"]
                 [] e.type = "destroy" -> [useless EXCEPT ![l] = "untracked"]
                 [] e.type \in {"before", "try"} /\ useless[l] # "untracked" ->
                        [useless EXCEPT ![l] = SetThread(l, e.thread)]
                 [] OTHER -> useless

\* ~ObjectState of an object still in the map.
UselessVerdict(l) ==
    CASE useless[l] = "untracked" -> {}
      [] useless[l] = "never" -> {<<"never locked", l>>}
      [] OTHER -> {<<"one thread", l>>}

UselessReports(e) ==
    IF e.bits # "thread" /\ e.type = "destroy" THEN UselessVerdict(e.object) ELSE {}

UselessLastReports == UNION {UselessVerdict(l) : l \in Locks}

\* object_type is called for every event of a lock; a report names the object, and
\* the thread, which is looked up as well but never in vain: see ThreadsStayKnown.
UselessLookups(e) == TypeLookups(e) \cup {r[2] : r \in UselessReports(e)}

Asked(t, l) == pc'[t] # pc[t] /\ pc'[t][1] \in {"before", "try"} /\ pc'[t][2] = l

UselessObserve ==
    attempts' = [l \in Locks |-> IF object'[l].id # object[l].id THEN {}
                                 ELSE attempts[l] \cup {t \in Threads : Asked(t, l)}]
=============================================================================
