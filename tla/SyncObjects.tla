----------------------------- MODULE SyncObjects -----------------------------
(***************************************************************************)
(* A program that uses one of the integration libraries                    *)
(* (integration/cxxsync, integration/pthread_shim.c): threads that create, *)
(* lock, unlock and destroy mutexes, recursive mutexes and read-write      *)
(* locks, and create, join and detach threads.                             *)
(*                                                                         *)
(* The capture before a pthread call, the call, and the capture after it   *)
(* are separate steps, in the order of the code, and the threads interleave *)
(* between them.  `event` is what the last step captured; the file of the  *)
(* run is the sequence of its values.  The pthread calls are external and  *)
(* modelled by what POSIX says of them; the program locks only objects     *)
(* that exist, unlocks only what it holds and destroys only what is free.  *)
(***************************************************************************)
EXTENDS Integers, Sequences

CONSTANTS
    Threads,        \* thread ids the system may hand out
    Main,           \* the id of the main thread
    Locks,          \* addresses of mutexes and read-write locks
    Kinds,          \* the kinds of lock the program creates
    StaticLocks,    \* mutexes with a static initializer: nothing creates them
    StaleIds,       \* what the id variable may hold when pthread_create fails
    MaxCreations,   \* bound: create events in one behaviour
    MaxDepth        \* bound: times one thread holds one lock

ASSUME MainAssumption == Main \in Threads
ASSUME KindsAssumption == Kinds \subseteq {"mutex", "rec_mutex", "rwlock"}
ASSUME StaticAssumption == StaticLocks \subseteq Locks
ASSUME BoundsAssumption == MaxCreations \in Nat \ {0} /\ MaxDepth \in Nat \ {0}
\* An id is the address of a thread's control block, and one left over from a
\* failed call is null or an older id: neither is the address of a lock.
ASSUME IdsAssumption == (Threads \cup StaleIds) \cap Locks = {}

VARIABLES
    object,     \* [Locks -> [alive, kind, id]], id: number of its create event
    held,       \* [Threads -> [Locks -> times held exclusively]]
    shared,     \* [Threads -> [Locks -> times held for reading]]
    thread,     \* [Threads -> "none", "starting", "running", "detached", "ended"]
    pc,         \* [Threads -> the operation in progress and its operands]
    event,      \* the event captured by the last step, or NoEvent
    creations   \* create events captured so far

syncVars == <<object, held, shared, thread, pc, event, creations>>

Idle == <<"idle">>

\* The bits of an event's type are told apart by what it does, the mode of a
\* lock, and the object bits; id numbers the create events.
Event(type, mode, bits, o, t) ==
    [type |-> type, mode |-> mode, bits |-> bits, object |-> o, thread |-> t,
     id |-> IF type = "create" THEN creations + 1 ELSE 0]

NoEvent == [type |-> "none", mode |-> "none", bits |-> "none", object |-> Main,
            thread |-> Main, id |-> 0]

\* Only the create event of a recursive mutex says that it is recursive.
Bits(l) == IF object[l].kind = "rwlock" THEN "rwlock" ELSE "mutex"
Modes(l) == IF object[l].kind = "rwlock" THEN {"rd", "wr"} ELSE {"wr"}

Ready(t) == thread[t] \in {"running", "detached"} /\ pc[t] = Idle
Uses(t, l) == held[t][l] > 0 \/ shared[t][l] > 0 \/ (Len(pc[t]) > 1 /\ pc[t][2] = l)

\* What pthread lets a thread take at once.
Available(t, l, m) ==
    /\ \A u \in Threads : held[u][l] = 0 \/ (u = t /\ object[l].kind = "rec_mutex")
    /\ m = "wr" => \A u \in Threads : shared[u][l] = 0

-----------------------------------------------------------------------------
\* syan_init has captured the creation of the main thread.
SyncInit ==
    /\ object = [l \in Locks |-> [alive |-> l \in StaticLocks, kind |-> "mutex",
                                  id |-> 0]]
    /\ held = [t \in Threads |-> [l \in Locks |-> 0]]
    /\ shared = [t \in Threads |-> [l \in Locks |-> 0]]
    /\ thread = [t \in Threads |-> IF t = Main THEN "running" ELSE "none"]
    /\ pc = [t \in Threads |-> Idle]
    /\ creations = 1
    /\ event = [type |-> "create", mode |-> "none", bits |-> "thread",
                object |-> Main, thread |-> Main, id |-> 1]

\* A constructor: init, then the capture; no other thread has the address yet.
CreateLock(t, l, k) ==
    /\ Ready(t)
    /\ ~object[l].alive
    /\ creations < MaxCreations
    /\ object' = [object EXCEPT ![l] = [alive |-> TRUE, kind |-> k,
                                        id |-> creations + 1]]
    /\ event' = Event("create", "none", k, l, t)
    /\ creations' = creations + 1
    /\ UNCHANGED <<held, shared, thread, pc>>

\* A destructor: destroy, then the capture; no other thread uses it any more.
DestroyLock(t, l) ==
    /\ Ready(t)
    /\ object[l].alive /\ l \notin StaticLocks
    /\ \A u \in Threads : ~Uses(u, l)
    /\ object' = [object EXCEPT ![l].alive = FALSE]
    /\ event' = Event("destroy", "none", Bits(l), l, t)
    /\ UNCHANGED <<held, shared, thread, pc, creations>>

\* The capture that begins lock and rd_lock / wr_lock ("before"), or one of the
\* try variants ("try").
RequestLock(t, l, m, type) ==
    /\ Ready(t)
    /\ object[l].alive
    /\ held[t][l] < MaxDepth /\ shared[t][l] < MaxDepth
    /\ pc' = [pc EXCEPT ![t] = <<type, l, m>>]
    /\ event' = Event(type, m, Bits(l), l, t)
    /\ UNCHANGED <<object, held, shared, thread, creations>>

Requesting(t) == pc[t][1] \in {"before", "try"}

\* The pthread call returns 0.
Acquire(t) ==
    LET l == pc[t][2]
        m == pc[t][3]
    IN  /\ Requesting(t)
        /\ Available(t, l, m)
        /\ IF m = "wr"
             THEN held' = [held EXCEPT ![t][l] = @ + 1] /\ UNCHANGED shared
             ELSE shared' = [shared EXCEPT ![t][l] = @ + 1] /\ UNCHANGED held
        /\ pc' = [pc EXCEPT ![t] = <<"acquired", l, m>>]
        /\ event' = NoEvent
        /\ UNCHANGED <<object, thread, creations>>

\* Mutation: the result of the pthread call is not looked at.
CaptureDespiteFailure(t) ==
    LET l == pc[t][2]
    IN  /\ pc[t][1] = "try" /\ ~Available(t, l, pc[t][3])
        /\ pc' = [pc EXCEPT ![t] = Idle]
        /\ event' = Event("after", pc[t][3], Bits(l), l, t)
        /\ UNCHANGED <<object, held, shared, thread, creations>>

\* The pthread call fails: a try finds the lock taken, or a thread asks for a
\* read-write lock it already has for writing.  Nothing else is captured.
AcquireFails(t) ==
    LET l == pc[t][2]
    IN  /\ Requesting(t)
        /\ \/ pc[t][1] = "try" /\ ~Available(t, l, pc[t][3])
           \/ object[l].kind = "rwlock" /\ held[t][l] > 0
        /\ pc' = [pc EXCEPT ![t] = Idle]
        /\ event' = NoEvent
        /\ UNCHANGED <<object, held, shared, thread, creations>>

\* The capture after a successful call.
CaptureAcquired(t) ==
    /\ pc[t][1] = "acquired"
    /\ pc' = [pc EXCEPT ![t] = Idle]
    /\ event' = Event("after", pc[t][3], Bits(pc[t][2]), pc[t][2], t)
    /\ UNCHANGED <<object, held, shared, thread, creations>>

\* unlock captures first and unlocks afterwards.
CaptureUnlock(t, l) ==
    /\ Ready(t)
    /\ held[t][l] > 0 \/ shared[t][l] > 0
    /\ pc' = [pc EXCEPT ![t] = <<"unlock", l>>]
    /\ event' = Event("unlock", "none", Bits(l), l, t)
    /\ UNCHANGED <<object, held, shared, thread, creations>>

\* Mutation: every unlock is taken for that of an exclusive hold.
ReleaseExclusive(t) ==
    /\ pc[t][1] = "unlock"
    /\ held' = [held EXCEPT ![t][pc[t][2]] = @ - 1]
    /\ pc' = [pc EXCEPT ![t] = Idle]
    /\ event' = NoEvent
    /\ UNCHANGED <<object, shared, thread, creations>>

\* The pthread call that lets go.
Release(t) ==
    LET l == pc[t][2]
    IN  /\ pc[t][1] = "unlock"
        /\ IF held[t][l] > 0
             THEN held' = [held EXCEPT ![t][l] = @ - 1] /\ UNCHANGED shared
             ELSE shared' = [shared EXCEPT ![t][l] = @ - 1] /\ UNCHANGED held
        /\ pc' = [pc EXCEPT ![t] = Idle]
        /\ event' = NoEvent
        /\ UNCHANGED <<object, thread, creations>>

-----------------------------------------------------------------------------
(* Creating a thread: syan_initialize_event reserves the place of the      *)
(* create event before pthread_create, and syan_finalize_event fills in    *)
(* the id that the call returned.  The id is therefore chosen here, among  *)
(* the free ones, in the step that reserves the place.  An id that a join  *)
(* frees while pthread_create is running is therefore not chosen: the file *)
(* then has the create event before the join, which no property tells      *)
(* from the other order, as the database keeps the thread's entry in both. *)

ReserveThread(t, u) ==
    /\ Ready(t)
    /\ thread[u] = "none"
    /\ creations < MaxCreations
    /\ thread' = [thread EXCEPT ![u] = "starting"]
    /\ pc' = [pc EXCEPT ![t] = <<"spawn", u>>]
    /\ event' = Event("create", "none", "thread", u, t)
    /\ creations' = creations + 1
    /\ UNCHANGED <<object, held, shared>>

StartThread(t) ==
    /\ pc[t][1] = "spawn"
    /\ thread' = [thread EXCEPT ![pc[t][2]] = "running"]
    /\ pc' = [pc EXCEPT ![t] = Idle]
    /\ event' = NoEvent
    /\ UNCHANGED <<object, held, shared, creations>>

\* pthread_create fails and the event is finalized all the same, with whatever
\* the id variable holds.
StartFails(t, g) ==
    /\ Ready(t)
    /\ creations < MaxCreations
    /\ event' = Event("create", "none", "thread", g, t)
    /\ creations' = creations + 1
    /\ UNCHANGED <<object, held, shared, thread, pc>>

\* The thread's function returns; a detached thread frees its id with it.
EndThread(u) ==
    /\ Ready(u) /\ u # Main
    /\ \A l \in Locks : ~Uses(u, l)
    /\ thread' = [thread EXCEPT ![u] = IF @ = "detached" THEN "none" ELSE "ended"]
    /\ event' = NoEvent
    /\ UNCHANGED <<object, held, shared, pc, creations>>

\* pthread_join returns: the id is free before the join is captured.
JoinThread(t, u) ==
    /\ Ready(t)
    /\ t # u /\ thread[u] = "ended"
    /\ thread' = [thread EXCEPT ![u] = "none"]
    /\ pc' = [pc EXCEPT ![t] = <<"join", u>>]
    /\ event' = NoEvent
    /\ UNCHANGED <<object, held, shared, creations>>

DetachThread(t, u) ==
    /\ Ready(t)
    /\ u # Main /\ thread[u] \in {"running", "ended"}
    /\ thread' = [thread EXCEPT ![u] = IF @ = "running" THEN "detached" ELSE "none"]
    /\ pc' = [pc EXCEPT ![t] = <<"detach", u>>]
    /\ event' = NoEvent
    /\ UNCHANGED <<object, held, shared, creations>>

CaptureReaped(t) ==
    /\ pc[t][1] \in {"join", "detach"}
    /\ pc' = [pc EXCEPT ![t] = Idle]
    /\ event' = Event(pc[t][1], "none", "thread", pc[t][2], t)
    /\ UNCHANGED <<object, held, shared, thread, creations>>

-----------------------------------------------------------------------------
LockStep(t) ==
    \/ \E l \in Locks, k \in Kinds : CreateLock(t, l, k)
    \/ \E l \in Locks : DestroyLock(t, l) \/ CaptureUnlock(t, l)
    \/ \E l \in Locks, type \in {"before", "try"} :
           \E m \in Modes(l) : RequestLock(t, l, m, type)
    \/ Acquire(t) \/ AcquireFails(t) \/ CaptureAcquired(t) \/ Release(t)

ThreadStep(t) ==
    \/ \E u \in Threads : ReserveThread(t, u) \/ JoinThread(t, u) \/ DetachThread(t, u)
    \/ \E g \in StaleIds : StartFails(t, g)
    \/ StartThread(t) \/ EndThread(t) \/ CaptureReaped(t)

SyncNext == \E t \in Threads : LockStep(t) \/ ThreadStep(t)

\* No call on the object is half done.
Settled(l) == \A t \in Threads : Len(pc[t]) > 1 => pc[t][2] # l

\* What a thread holds exclusively, as <<object, number of its create event>>.
HeldBy(t) == {<<l, object[l].id>> : l \in {k \in Locks : held[t][k] > 0}}

Operations == {Idle}
    \cup ({"before", "try", "acquired"} \X Locks \X {"rd", "wr"})
    \cup ({"unlock"} \X Locks)
    \cup ({"spawn", "join", "detach"} \X Threads)

SyncTypeOK ==
    /\ object \in [Locks -> [alive : BOOLEAN, kind : {"mutex", "rec_mutex", "rwlock"},
                             id : 0 .. MaxCreations]]
    /\ held \in [Threads -> [Locks -> 0 .. MaxDepth]]
    /\ shared \in [Threads -> [Locks -> 0 .. MaxDepth]]
    /\ thread \in [Threads -> {"none", "starting", "running", "detached", "ended"}]
    /\ pc \in [Threads -> Operations]
    /\ creations \in 1 .. MaxCreations
=============================================================================
