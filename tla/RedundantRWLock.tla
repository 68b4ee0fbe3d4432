---------------------------- MODULE RedundantRWLock ----------------------------
(***************************************************************************)
(* The analyzer redundant-rwlock (analyzers/redundant-rwlock.cpp): warns   *)
(* of a read-write lock that was only ever locked in one of its modes.     *)
(***************************************************************************)
EXTENDS Database, FiniteSets

VARIABLES
    rwlocks,    \* [Locks -> [tracked, modes: the was_ever_.._locked flags]]
    modesTaken  \* history: modes in which the lock was acquired

rwVars == <<rwlocks, modesTaken>>

RwUntracked == [tracked |-> FALSE, modes |-> {}]

RwInit ==
    /\ rwlocks = [l \in Locks |-> RwUntracked]
    /\ modesTaken = [l \in Locks |-> {}]

\* Mutation: a request counts as a lock, whether it is granted or not.
RwTakesRequests(e) == e.type \in {"after", "try"}

\* The events that set one of the flags.
RwTakes(e) == e.type = "after"

RwHandle(e) ==
    LET l == e.object
    IN  rwlocks' =
          IF e.bits # "rwlock" THEN rwlocks
          ELSE CASE e.type = "create" /\ ~rwlocks[l].tracked ->
                        [rwlocks EXCEPT ![l].tracked = TRUE]
                 [] e.type = "destroy" -> [rwlocks EXCEPT ![l] = RwUntracked]
                 [] RwTakes(e) /\ rwlocks[l].tracked ->
                        [rwlocks EXCEPT ![l].modes = @ \cup {e.mode}]
                 [] OTHER -> rwlocks

\* ~RWLockState
RwVerdict(l) ==
    (IF rwlocks[l].modes = {"rd"} THEN {<<"only read", l>>} ELSE {})
    \cup (IF rwlocks[l].modes = {"wr"} THEN {<<"only written", l>>} ELSE {})

RwReports(e) ==
    IF e.bits = "rwlock" /\ e.type = "destroy" THEN RwVerdict(e.object) ELSE {}

RwLastReports == UNION {RwVerdict(l) : l \in Locks}

\* object_type is called for every event.
RwLookups(e) == TypeLookups(e)

Taken(t, l) ==
    (IF held'[t][l] > held[t][l] THEN {"wr"} ELSE {})
    \cup (IF shared'[t][l] > shared[t][l] THEN {"rd"} ELSE {})

RwObserve ==
    modesTaken' = [l \in Locks |-> IF object'[l].id # object[l].id THEN {}
                       ELSE modesTaken[l] \cup UNION {Taken(t, l) : t \in Threads}]
=============================================================================
