------------------------------ MODULE LockShadow ------------------------------
(***************************************************************************)
(* The analyzer lock-shadow (analyzers/lock-shadow.cpp): warns of an       *)
(* object that is only ever locked while one other object is locked for    *)
(* writing, and then names both.  Create events stand for their objects,   *)
(* here as <<address, name>>.                                              *)
(***************************************************************************)
EXTENDS Database, FiniteSets, Bags

VARIABLES
    threadLocks,    \* thread_locks: [Threads -> multiset of create events]
    lockStates,     \* locks: [Locks -> [tracked, wasLocked, shadows]]
    covers          \* history: what was held exclusively by the thread at every
                    \* acquisition since the object's creation, or "never"

shadowVars == <<threadLocks, lockStates, covers>>

ShadowUntracked == [tracked |-> FALSE, wasLocked |-> FALSE, shadows |-> {}]

ShadowInit ==
    /\ threadLocks = [t \in Threads |-> EmptyBag]
    /\ lockStates = [l \in Locks |-> ShadowUntracked]
    /\ covers = [l \in Locks |-> <<"never", {}>>]

CreateEvent(l, d) == <<l, d[l].name>>

\* Mutation: the objects held at a later lock are added.
ShadowsUnion(l, now) == lockStates[l].shadows \cup now

\* The first lock of an object takes all that the thread holds, each later one
\* keeps what it holds again.
Shadows(l, now) ==
    IF lockStates[l].wasLocked THEN lockStates[l].shadows \cap now ELSE now

\* An object without a shadow is let go.
ShadowLock(l, now) ==
    IF Shadows(l, now) = {} THEN ShadowUntracked
    ELSE [tracked |-> TRUE, wasLocked |-> TRUE, shadows |-> Shadows(l, now)]

ShadowStates(e, d) ==
    LET l == e.object
    IN  CASE e.type = "create" /\ e.bits # "thread" /\ ~lockStates[l].tracked ->
                 [lockStates EXCEPT ![l].tracked = TRUE]
          [] e.type = "after" /\ lockStates[l].tracked ->
                 [lockStates EXCEPT ![l] =
                      ShadowLock(l, BagToSet(threadLocks[e.thread]))]
          [] e.type = "destroy" -> [lockStates EXCEPT ![l] = ShadowUntracked]
          [] OTHER -> lockStates

\* Only locks for writing are entered; any unlock takes one entry away.
ThreadLocksAfter(e, d) ==
    LET own == threadLocks[e.thread]
    IN  CASE e.type = "after" /\ e.mode = "wr" -> own (+) SetToBag({CreateEvent(e.object, d)})
          [] e.type = "unlock" -> own (-) SetToBag({CreateEvent(e.object, d)})
          [] OTHER -> own

ShadowHandle(e, d) ==
    /\ lockStates' = ShadowStates(e, d)
    /\ threadLocks' = [threadLocks EXCEPT ![e.thread] = ThreadLocksAfter(e, d)]

\* Objects whose ~LockState has something to say.
Shadowed == {l \in Locks : lockStates[l].wasLocked /\ lockStates[l].shadows # {}}

\* ~LockState names one of the shadows, the one whose event lies lowest in memory.
Picks == {f \in [Locks -> {<<0, 0>>} \cup UNION {lockStates[l].shadows : l \in Shadowed}] :
              \A l \in Locks : IF l \in Shadowed THEN f[l] \in lockStates[l].shadows
                               ELSE f[l] = <<0, 0>>}

\* The report shows the create event of the shadow, and under its name the number
\* that the database d has for the shadow's address.
ShadowReport(l, shadow, d) == <<"shadowed", l, shadow, d[shadow[1]].name>>

\* Those whose entry the event destroys.
Dropped(e) == {l \in Shadowed : e.type = "destroy" /\ e.object = l}

ShadowReports(e, d, pick) == {ShadowReport(l, pick[l], d) : l \in Dropped(e)}

ShadowLastReports(pick) == {ShadowReport(l, pick[l], db) : l \in Shadowed}

\* An unlock and a lock for writing look up the create event of their object, a
\* report the names of both objects, by address.
ShadowLookups(e, pick) ==
    (IF e.type = "unlock" \/ (e.type = "after" /\ e.mode = "wr") THEN {e.object} ELSE {})
    \cup UNION {{l, pick[l][1]} : l \in Dropped(e)}

\* What lock-shadow looks up when it is deleted.
ShadowLastLookups(pick) == UNION {{l, pick[l][1]} : l \in Shadowed}

Acquirers(l) == {t \in Threads : held'[t][l] > held[t][l] \/ shared'[t][l] > shared[t][l]}

\* What the threads that acquire l have besides.
AcquirersHave(l) ==
    {<<k, object[k].id>> : k \in {x \in Locks \ {l} : \E t \in Acquirers(l) : held[t][x] > 0}}

ShadowObserve ==
    covers' = [l \in Locks |->
        IF object'[l].id # object[l].id THEN <<"never", {}>>
        ELSE CASE Acquirers(l) = {} -> covers[l]
               [] Acquirers(l) # {} /\ covers[l][1] = "never" -> <<"held", AcquirersHave(l)>>
               [] OTHER -> <<"held", covers[l][2] \cap AcquirersHave(l)>>]
=============================================================================
