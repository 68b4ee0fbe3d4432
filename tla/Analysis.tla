------------------------------- MODULE Analysis -------------------------------
(***************************************************************************)
(* The analysis of a captured run (executable/src/environment.cpp and      *)
(* run_analysis.cpp) with the analyzers of the repository enabled by the   *)
(* rules of --analyzer.  Every event goes to the database, to each         *)
(* analyzer, and to the database again; an analyzer's reports are made in  *)
(* the destructors of its map entries.  The analysis runs after the        *)
(* program, but on the file, so an event is handled here in the step that  *)
(* captures it.                                                            *)
(*                                                                         *)
(* A lookup of an id the database does not have throws where exceptions    *)
(* cannot leave (noexcept functions and destructors): std::terminate.      *)
(***************************************************************************)
EXTENDS UselessLock, RedundantRWLock, RedundantRecursiveMutex, LockShadow,
        MutexLockOrder

CONSTANT Analyzers      \* names of the enabled analyzers

ASSUME AnalyzersAssumption ==
    Analyzers \subseteq {"useless-lock", "redundant-rwlock", "lock-shadow",
                         "redundant-recursive-mutex", "mutex-lock-order"}

VARIABLES
    analysis,   \* "running", "done" or "terminated" by an exception
    reported    \* the reports sent in the last step

analyzerVars == <<uselessVars, rwVars, recVars, shadowVars, orderVars>>
vars == <<syncVars, db, analyzerVars, analysis, reported>>

Enabled(name, set) == IF name \in Analyzers THEN set ELSE {}

Lookups(e, pick) ==
    Enabled("useless-lock", UselessLookups(e))
    \cup Enabled("redundant-rwlock", RwLookups(e))
    \cup Enabled("redundant-recursive-mutex", RecLookups(e))
    \cup Enabled("lock-shadow", ShadowLookups(e, pick))
    \cup Enabled("mutex-lock-order", OrderLookups(e))

Reports(e, d, pick) ==
    UselessReports(e) \cup RwReports(e) \cup RecReports(e, d)
    \cup ShadowReports(e, d, pick) \cup OrderReports(e)

\* What the analyzers report when they are deleted, and the ids that takes.  The
\* sections of a report also look up the threads of their events, here and in
\* Lookups, and never in vain: see ThreadsStayKnown.
LastReports(pick) ==
    UselessLastReports \cup RwLastReports \cup RecLastReports
    \cup ShadowLastReports(pick)

LastLookups(pick) ==
    {r[2] : r \in UselessLastReports} \cup ShadowLastLookups(pick)

\* A disabled analyzer is not loaded and keeps its initial state.
Analyze(e, d) ==
    /\ IF "useless-lock" \in Analyzers
         THEN UselessHandle(e) /\ UselessObserve ELSE UNCHANGED uselessVars
    /\ IF "redundant-rwlock" \in Analyzers
         THEN RwHandle(e) /\ RwObserve ELSE UNCHANGED rwVars
    /\ IF "redundant-recursive-mutex" \in Analyzers
         THEN RecHandle(e, d) /\ RecObserve ELSE UNCHANGED recVars
    /\ IF "lock-shadow" \in Analyzers
         THEN ShadowHandle(e, d) /\ ShadowObserve ELSE UNCHANGED shadowVars
    /\ IF "mutex-lock-order" \in Analyzers
         THEN OrderHandle(e) /\ OrderObserve ELSE UNCHANGED orderVars

-----------------------------------------------------------------------------
Init ==
    /\ SyncInit
    /\ DbInit
    /\ UselessInit /\ RwInit /\ RecInit /\ ShadowInit /\ OrderInit
    /\ analysis = "running"
    /\ reported = {}

\* Environment::handle_event
HandleEvent(e) ==
    \E pick \in Picks :
        LET d == Before(e)
        IN  IF Lookups(e, pick) \subseteq Known(d)
            THEN /\ Analyze(e, d)
                 /\ db' = After(e, d)
                 /\ reported' = Reports(e, d, pick)
                 /\ UNCHANGED analysis
            ELSE /\ analysis' = "terminated"
                 /\ reported' = {}
                 /\ UNCHANGED <<db, analyzerVars>>

\* A step of the program, and the handling of what it captured.
ProgramStep ==
    /\ analysis = "running"
    /\ SyncNext
    /\ HandleEvent(event')

\* Environment::shut_down, after any number of events: the program may have
\* been killed, or have leaked its objects.
ShutDown ==
    /\ analysis = "running"
    /\ \E pick \in Picks :
           IF LastLookups(pick) \subseteq Known(db)
           THEN analysis' = "done" /\ reported' = LastReports(pick)
           ELSE analysis' = "terminated" /\ reported' = {}
    /\ event' = NoEvent
    /\ UNCHANGED <<object, held, shared, thread, pc, creations, db, analyzerVars>>

Next == ProgramStep \/ ShutDown

Spec == Init /\ [][Next]_vars

-----------------------------------------------------------------------------
(* Properties *)

TypeOK ==
    /\ SyncTypeOK
    /\ db \in [Ids -> [name : 0 .. MaxCreations,
                       bits : {"none", "thread", "mutex", "rec_mutex", "rwlock"}]]
    /\ useless \in [Locks -> {"untracked", "never"} \cup Threads]
    /\ rwlocks \in [Locks -> [tracked : BOOLEAN, modes : SUBSET {"rd", "wr"}]]
    /\ recursives \in [Locks -> [tracked : BOOLEAN, locked : BOOLEAN, owned : BOOLEAN]]
    /\ \A t \in Threads : IsABag(threadLocks[t])
    /\ owned \in [Threads -> SUBSET Locks]
    /\ edges \subseteq Locks \X Locks
    /\ analysis \in {"running", "done", "terminated"}

\* The analysis has just seen the last of the object: its destruction, or, with
\* no call on it half done, the end of the events.
Judged(l) ==
    /\ l \notin StaticLocks
    /\ \/ analysis = "running" /\ event.type = "destroy" /\ event.object = l
       \/ analysis = "done" /\ object[l].alive /\ Settled(l)

\* useless-lock says "never locked" of exactly the objects nobody asked for and
\* "one thread" of those a single thread id asked for, successfully or not,
\* however the calls of the threads interleave and addresses are used again.
UselessExact ==
    \A l \in Locks : Judged(l) =>
        /\ <<"never locked", l>> \in reported <=> attempts[l] = {}
        /\ <<"one thread", l>> \in reported <=> Cardinality(attempts[l]) = 1

\* redundant-rwlock warns of exactly the read-write locks whose pthread calls
\* have succeeded in one mode only: a failed try or a refused lock is no use.
RwExact ==
    \A l \in Locks : Judged(l) /\ object[l].kind = "rwlock" =>
        /\ <<"only read", l>> \in reported <=> modesTaken[l] = {"rd"}
        /\ <<"only written", l>> \in reported <=> modesTaken[l] = {"wr"}

\* redundant-recursive-mutex warns of exactly the recursive mutexes that were
\* locked and never by their owner: because unlock is captured before the mutex
\* is free and lock after it is taken, two owners never overlap in the file and
\* a second lock before an unlock is always the same thread's.
RecExact ==
    \A l \in Locks : Judged(l) /\ object[l].kind = "rec_mutex" =>
        (<<"not recursive", l>> \in reported <=> recursion[l] = "locked")

\* lock-shadow warns of exactly the objects with another object that the locking
\* thread held exclusively at every acquisition.  It shows where one of those was
\* created, and prints the number of whatever object is at that address now, which
\* may be another; or it terminates (see NeverTerminates).
ShadowExact ==
    \A l \in Locks : Judged(l) =>
        LET said == {r \in reported : r[1] = "shadowed" /\ r[2] = l}
        IN  /\ said = {} <=> covers[l][2] = {}
            /\ \A r \in said : r[3] \in covers[l][2] /\ r[4] = object[r[3][1]].id

\* In the file the critical sections of one object do not overlap: no two
\* threads are both in thread_locks with it.
LogExclusive ==
    \A t, u \in Threads :
        t # u => BagToSet(threadLocks[t]) \cap BagToSet(threadLocks[u]) = {}

\* When a thread that has a mutex asks for another and some thread has locked
\* the two in the opposite order, mutex-lock-order reports it there and then.
OrderComplete ==
    analysis = "running" /\ event.type = "before" /\ event.bits = "mutex" =>
        \A k \in Locks :
            (/\ held[event.thread][k] > 0 /\ object[k].kind # "rwlock"
             /\ <<event.object, k>> \in nested)
            => <<"order", event.object, k>> \in reported

\* The database knows every thread that captures an event, and never forgets one:
\* joining or detaching a thread erases nothing, so the thread of any event that an
\* analyzer has kept can be named in a report, however late.
ThreadsStayKnown ==
    [][\A u \in Threads : db[u] # NoEntry \/ event'.thread = u => db'[u] # NoEntry]_vars

-----------------------------------------------------------------------------
(* What the project's documents say and the code does not always do.       *)

\* An analysis of a program that created all its objects ends normally.  So it
\* does with the analyzers of single objects; lock-shadow and mutex-lock-order
\* name objects that may be destroyed by then.
NeverTerminates == analysis # "terminated"
=============================================================================
