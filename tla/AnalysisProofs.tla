---------------------------- MODULE AnalysisProofs ----------------------------
(***************************************************************************)
(* Proofs about the analysis of events, for any number of threads, locks   *)
(* and events: the database knows what is alive, and the analyzers report  *)
(* exactly what the program did.                                           *)
(*                                                                         *)
(* SyncInv says what the pthread calls keep true of the program.  Every    *)
(* analyzer then has an invariant of its own, which relates its state to   *)
(* the history of the program, up to the events still to be captured.      *)
(***************************************************************************)
EXTENDS Analysis, FiniteSetTheorems, TLAPS

(* The program: who holds what, and what a call in progress may rely on.   *)

\* Thread t is at step o of a call on l.
Doing(t, o, l) == pc[t][1] = o /\ pc[t][2] = l

\* Steps of a call on a lock; t is at none of them while it deals with threads.
LockSteps == {"before", "try", "acquired", "unlock"}

\* A lock in use exists, and only a thread that holds it alone, a recursive
\* mutex perhaps several times, or readers of a read-write lock hold it.
HoldInv ==
    \A t \in Threads, l \in Locks :
        /\ held[t][l] > 0 \/ shared[t][l] > 0 => object[l].alive
        /\ shared[t][l] > 0 => object[l].kind = "rwlock"
        /\ object[l].kind # "rec_mutex" => held[t][l] <= 1
        /\ held[t][l] > 0 =>
               \A u \in Threads : (u # t => held[u][l] = 0) /\ shared[u][l] = 0

\* The operands of a call in progress still mean what they meant at its start.
CallInv ==
    \A t \in Threads, l \in Locks :
        /\ \A o \in LockSteps : Doing(t, o, l) => object[l].alive
        /\ \A o \in {"before", "try", "acquired"} :
               Doing(t, o, l) => pc[t][3] \in Modes(l)
        /\ \A o \in {"before", "try"} :
               Doing(t, o, l) => held[t][l] < MaxDepth /\ shared[t][l] < MaxDepth
        /\ Doing(t, "acquired", l) =>
               IF pc[t][3] = "wr" THEN held[t][l] > 0 ELSE shared[t][l] > 0
        /\ Doing(t, "unlock", l) => held[t][l] > 0 \/ shared[t][l] > 0

SyncInv ==
    /\ SyncTypeOK
    /\ \A l \in Locks : object[l].id <= creations
    /\ \A l \in StaticLocks : object[l].alive
    /\ HoldInv
    /\ CallInv

LEMMA IdleFacts ==
    /\ Idle \in Operations
    /\ Len(Idle) = 1
    /\ \A o \in LockSteps \cup {"spawn", "join", "detach"} : Idle[1] # o
BY DEF Idle, Operations, LockSteps

\* What an operation can be.
LEMMA OperationCases ==
    ASSUME NEW op \in Operations
    PROVE  \/ op = Idle
           \/ /\ op[1] \in {"before", "try", "acquired"} /\ op[2] \in Locks
              /\ op[3] \in {"rd", "wr"} /\ Len(op) = 3 /\ op = <<op[1], op[2], op[3]>>
           \/ op[1] = "unlock" /\ op[2] \in Locks /\ Len(op) = 2
           \/ op[1] \in {"spawn", "join", "detach"} /\ op[2] \in Threads /\ Len(op) = 2
BY DEF Operations, Idle

\* A thread uses a lock when it holds it or is at a step of a call on it.
LEMMA UsesMeaning ==
    ASSUME SyncTypeOK, NEW t \in Threads, NEW l \in Locks
    PROVE  Uses(t, l) <=> \/ held[t][l] > 0 \/ shared[t][l] > 0
                          \/ \E o \in LockSteps : Doing(t, o, l)
<1>1. pc[t] \in Operations
  BY DEF SyncTypeOK
<1>2. l \notin Threads
  BY IdsAssumption
<1> QED
  BY <1>1, <1>2, OperationCases, IdleFacts DEF Uses, Doing, LockSteps

LEMMA SettledMeaning ==
    ASSUME SyncTypeOK, NEW l \in Locks
    PROVE  Settled(l) <=> \A t \in Threads : \A o \in LockSteps : ~Doing(t, o, l)
<1>1. ASSUME NEW t \in Threads
      PROVE  (Len(pc[t]) > 1 => pc[t][2] # l) <=> \A o \in LockSteps : ~Doing(t, o, l)
  <2>1. pc[t] \in Operations
    BY DEF SyncTypeOK
  <2>2. l \notin Threads
    BY IdsAssumption
  <2> QED
    BY <2>1, <2>2, OperationCases, IdleFacts DEF Doing, LockSteps
<1> QED
  BY <1>1 DEF Settled

-----------------------------------------------------------------------------
(* The steps of the program.                                               *)

\* What an analyzer does not react to.
Quiet(e) ==
    /\ \/ e.bits = "none" /\ e.type = "none"
       \/ e.bits = "thread" /\ e.type \in {"create", "join", "detach"}
    /\ e.thread \in Threads
    /\ e.object \in Threads \cup StaleIds

\* Where a step leaves every call on a lock.
CallsStay ==
    \A u \in Threads, l \in Locks : \A o \in LockSteps :
        /\ Doing(u, o, l)' <=> Doing(u, o, l)
        /\ Doing(u, o, l) => pc'[u] = pc[u]

LEMMA NoEventQuiet == Quiet(NoEvent)
BY MainAssumption DEF Quiet, NoEvent

LEMMA CallsElsewhere ==
    ASSUME pc \in [Threads -> Operations], NEW t \in Threads, NEW op,
           pc' = [pc EXCEPT ![t] = op], op[1] \notin LockSteps, pc[t][1] \notin LockSteps
    PROVE  CallsStay
BY DEF CallsStay, Doing

LEMMA QuietThreadEvent ==
    ASSUME creations \in Nat, NEW type \in {"create", "join", "detach"},
           NEW u \in Threads \cup StaleIds, NEW t \in Threads,
           NEW e, e = Event(type, "none", "thread", u, t)
    PROVE  Quiet(e)
BY DEF Quiet, Event

\* Threads come and go without a lock or a call on one being touched.
LEMMA ThreadStepFrame ==
    ASSUME SyncTypeOK, NEW t \in Threads, ThreadStep(t)
    PROVE  UNCHANGED <<object, held, shared>> /\ Quiet(event') /\ CallsStay
<1>1. pc \in [Threads -> Operations] /\ creations \in Nat
  BY BoundsAssumption DEF SyncTypeOK
<1>2. CASE \E u \in Threads : ReserveThread(t, u)
  <2>1. PICK u \in Threads : ReserveThread(t, u)
    BY <1>2
  <2>2. /\ pc' = [pc EXCEPT ![t] = <<"spawn", u>>] /\ pc[t] = Idle
        /\ event' = Event("create", "none", "thread", u, t)
    BY <2>1 DEF ReserveThread, Ready
  <2>3. <<"spawn", u>>[1] \notin LockSteps /\ pc[t][1] \notin LockSteps
    BY <2>2, IdleFacts DEF LockSteps
  <2>4. CallsStay
    BY <1>1, <2>2, <2>3, CallsElsewhere
  <2>5. Quiet(event')
    BY <1>1, <2>2, QuietThreadEvent
  <2> QED
    BY <2>1, <2>4, <2>5 DEF ReserveThread
<1>3. CASE \E u \in Threads : JoinThread(t, u) \/ DetachThread(t, u)
  <2>1. PICK u \in Threads : JoinThread(t, u) \/ DetachThread(t, u)
    BY <1>3
  <2>2. PICK o \in {"join", "detach"} : pc' = [pc EXCEPT ![t] = <<o, u>>]
    BY <2>1 DEF JoinThread, DetachThread
  <2>3. /\ pc[t] = Idle /\ event' = NoEvent
        /\ UNCHANGED <<object, held, shared>>
    BY <2>1 DEF JoinThread, DetachThread, Ready
  <2>4. <<o, u>>[1] \notin LockSteps /\ pc[t][1] \notin LockSteps
    BY <2>3, IdleFacts DEF LockSteps
  <2>5. CallsStay
    BY <1>1, <2>2, <2>4, CallsElsewhere
  <2> QED
    BY <2>3, <2>5, NoEventQuiet
<1>4. CASE \E g \in StaleIds : StartFails(t, g)
  <2>1. PICK g \in StaleIds : StartFails(t, g)
    BY <1>4
  <2>2. CallsStay
    BY <2>1 DEF StartFails, CallsStay, Doing
  <2>3. Quiet(event')
    BY <1>1, <2>1, QuietThreadEvent DEF StartFails
  <2> QED
    BY <2>1, <2>2, <2>3 DEF StartFails
<1>5. CASE StartThread(t)
  <2>1. /\ pc' = [pc EXCEPT ![t] = Idle] /\ pc[t][1] = "spawn"
        /\ event' = NoEvent /\ UNCHANGED <<object, held, shared>>
    BY <1>5 DEF StartThread
  <2>2. Idle[1] \notin LockSteps /\ pc[t][1] \notin LockSteps
    BY <2>1, IdleFacts DEF LockSteps
  <2>3. CallsStay
    BY <1>1, <2>1, <2>2, CallsElsewhere
  <2> QED
    BY <2>1, <2>3, NoEventQuiet
<1>6. CASE EndThread(t)
  <2>1. CallsStay
    BY <1>6 DEF EndThread, CallsStay, Doing
  <2> QED
    BY <1>6, <2>1, NoEventQuiet DEF EndThread
<1>7. CASE CaptureReaped(t)
  <2>1. /\ pc' = [pc EXCEPT ![t] = Idle] /\ pc[t][1] \in {"join", "detach"}
        /\ event' = Event(pc[t][1], "none", "thread", pc[t][2], t)
        /\ UNCHANGED <<object, held, shared>>
    BY <1>7 DEF CaptureReaped
  <2>2. /\ Idle[1] \notin LockSteps /\ pc[t][1] \notin LockSteps
        /\ pc[t][2] \in Threads
    BY <1>1, <2>1, IdleFacts, OperationCases DEF LockSteps
  <2>3. CallsStay
    BY <1>1, <2>1, <2>2, CallsElsewhere
  <2>4. Quiet(event')
    BY <1>1, <2>1, <2>2, QuietThreadEvent
  <2> QED
    BY <2>1, <2>3, <2>4
<1> QED
  BY <1>2, <1>3, <1>4, <1>5, <1>6, <1>7 DEF ThreadStep

\* A call of one thread moves on and those of the others stay.
LEMMA CallMoves ==
    ASSUME pc \in [Threads -> Operations], NEW t \in Threads, NEW op,
           pc' = [pc EXCEPT ![t] = op]
    PROVE  /\ pc'[t] = op
           /\ \A u \in Threads : u # t => pc'[u] = pc[u]
           /\ \A o, l : Doing(t, o, l)' <=> op[1] = o /\ op[2] = l
           /\ \A u \in Threads : \A o, l : u # t => (Doing(u, o, l)' <=> Doing(u, o, l))
BY DEF Doing

\* With the locks and their holders left alone only the call that moves on can
\* disturb what calls rely on.
LEMMA CallInvKept ==
    ASSUME pc \in [Threads -> Operations], CallInv, NEW t \in Threads, NEW op,
           pc' = [pc EXCEPT ![t] = op],
           UNCHANGED <<object, held, shared>>,
           \A l \in Locks :
               /\ op[1] \in LockSteps /\ op[2] = l => object[l].alive
               /\ op[1] \in {"before", "try", "acquired"} /\ op[2] = l => op[3] \in Modes(l)
               /\ op[1] \in {"before", "try"} /\ op[2] = l =>
                      held[t][l] < MaxDepth /\ shared[t][l] < MaxDepth
               /\ op[1] = "acquired" /\ op[2] = l =>
                      IF op[3] = "wr" THEN held[t][l] > 0 ELSE shared[t][l] > 0
               /\ op[1] = "unlock" /\ op[2] = l => held[t][l] > 0 \/ shared[t][l] > 0
    PROVE  CallInv'
<1>1. \A l : Modes(l)' = Modes(l)
  BY DEF Modes
<1>2. /\ pc'[t] = op
      /\ \A u \in Threads : u # t => pc'[u] = pc[u]
      /\ \A o, l : Doing(t, o, l)' <=> op[1] = o /\ op[2] = l
      /\ \A u \in Threads : \A o, l : u # t => (Doing(u, o, l)' <=> Doing(u, o, l))
  BY CallMoves
<1>3. SUFFICES ASSUME NEW u \in Threads, NEW l \in Locks
      PROVE  /\ \A o \in LockSteps : Doing(u, o, l)' => object'[l].alive
             /\ \A o \in {"before", "try", "acquired"} :
                    Doing(u, o, l)' => pc'[u][3] \in Modes(l)'
             /\ \A o \in {"before", "try"} :
                    Doing(u, o, l)' => held'[u][l] < MaxDepth /\ shared'[u][l] < MaxDepth
             /\ Doing(u, "acquired", l)' =>
                    IF pc'[u][3] = "wr" THEN held'[u][l] > 0 ELSE shared'[u][l] > 0
             /\ Doing(u, "unlock", l)' => held'[u][l] > 0 \/ shared'[u][l] > 0
  BY DEF CallInv
<1>4. CASE u = t
  BY <1>1, <1>2, <1>4 DEF LockSteps
<1>5. CASE u # t
  BY <1>1, <1>2, <1>5 DEF CallInv
<1> QED
  BY <1>4, <1>5

LEMMA HoldInvKept ==
    ASSUME HoldInv, UNCHANGED <<object, held, shared>>
    PROVE  HoldInv'
BY DEF HoldInv

LEMMA InitSync == Init => SyncInv
<1> SUFFICES ASSUME Init PROVE SyncInv
  OBVIOUS
<1>1. SyncTypeOK
  BY BoundsAssumption, IdleFacts, StaticAssumption DEF Init, SyncInit, SyncTypeOK
<1>2. HoldInv
  BY DEF Init, SyncInit, HoldInv
<1>3. CallInv
  BY IdleFacts DEF Init, SyncInit, CallInv, Doing, LockSteps
<1>4. \A l \in StaticLocks : object[l].alive
  BY StaticAssumption DEF Init, SyncInit
<1> QED
  BY <1>1, <1>2, <1>3, <1>4 DEF Init, SyncInit, SyncInv

LEMMA CreateSync ==
    ASSUME SyncInv, NEW t \in Threads, NEW l \in Locks, NEW k \in Kinds, CreateLock(t, l, k)
    PROVE  SyncInv'
<1>1. /\ object' = [object EXCEPT ![l] = [alive |-> TRUE, kind |-> k, id |-> creations + 1]]
      /\ ~object[l].alive /\ creations' = creations + 1 /\ creations < MaxCreations
      /\ UNCHANGED <<held, shared, thread, pc>>
  BY DEF CreateLock
<1>2. SyncTypeOK'
  BY <1>1, KindsAssumption, BoundsAssumption DEF SyncInv, SyncTypeOK
<1>3. \A x \in Locks : x # l => object'[x] = object[x] /\ Modes(x)' = Modes(x)
  BY <1>1 DEF SyncInv, SyncTypeOK, Modes
<1>4. \A x \in Locks : object'[x].id <= creations'
  BY <1>1, <1>3, BoundsAssumption DEF SyncInv, SyncTypeOK
<1>5. \A u \in Threads : held[u][l] = 0 /\ shared[u][l] = 0
  BY <1>1 DEF SyncInv, HoldInv, SyncTypeOK
<1>6. HoldInv'
  BY <1>1, <1>3, <1>5 DEF SyncInv, HoldInv
<1>7. \A u \in Threads : \A o \in LockSteps : ~Doing(u, o, l)
  BY <1>1 DEF SyncInv, CallInv
<1>8. CallInv'
  BY <1>1, <1>3, <1>7 DEF SyncInv, CallInv, Doing, LockSteps
<1>9. \A x \in StaticLocks : object'[x].alive
  BY <1>1, StaticAssumption DEF SyncInv, SyncTypeOK
<1> QED
  BY <1>2, <1>4, <1>6, <1>8, <1>9 DEF SyncInv

LEMMA DestroySync ==
    ASSUME SyncInv, NEW t \in Threads, NEW l \in Locks, DestroyLock(t, l)
    PROVE  SyncInv'
<1>1. /\ object' = [object EXCEPT ![l].alive = FALSE]
      /\ \A u \in Threads : ~Uses(u, l)
      /\ UNCHANGED <<held, shared, thread, pc, creations>>
  BY DEF DestroyLock
<1>2. SyncTypeOK'
  BY <1>1 DEF SyncInv, SyncTypeOK
<1>3. /\ \A x \in Locks : x # l => object'[x] = object[x]
      /\ \A x \in Locks : /\ object'[x].kind = object[x].kind
                          /\ object'[x].id = object[x].id
                          /\ Modes(x)' = Modes(x)
  BY <1>1 DEF SyncInv, SyncTypeOK, Modes
<1>4. \A u \in Threads : /\ held[u][l] = 0 /\ shared[u][l] = 0
                         /\ \A o \in LockSteps : ~Doing(u, o, l)
  BY <1>1, UsesMeaning DEF SyncInv, SyncTypeOK
<1>5. HoldInv'
  BY <1>1, <1>3, <1>4 DEF SyncInv, HoldInv
<1>6. CallInv'
  BY <1>1, <1>3, <1>4 DEF SyncInv, CallInv, Doing, LockSteps
<1>7. \A x \in StaticLocks : object'[x].alive
  BY <1>1, <1>3, StaticAssumption DEF SyncInv, DestroyLock
<1> QED
  BY <1>1, <1>2, <1>3, <1>5, <1>6, <1>7 DEF SyncInv

LEMMA RequestSync ==
    ASSUME SyncInv, NEW t \in Threads, NEW l \in Locks, NEW type \in {"before", "try"},
           NEW m \in Modes(l), RequestLock(t, l, m, type)
    PROVE  SyncInv'
<1>1. /\ pc' = [pc EXCEPT ![t] = <<type, l, m>>]
      /\ object[l].alive /\ held[t][l] < MaxDepth /\ shared[t][l] < MaxDepth
      /\ UNCHANGED <<object, held, shared, thread, creations>>
  BY DEF RequestLock
<1>2. <<type, l, m>> \in Operations
  BY DEF Modes, Operations
<1>3. SyncTypeOK'
  BY <1>1, <1>2 DEF SyncInv, SyncTypeOK
<1>o. PICK op : op = <<type, l, m>>
  OBVIOUS
<1>4. op = <<type, l, m>> /\ op[1] = type /\ op[2] = l /\ op[3] = m
  BY <1>o
<1>5. pc \in [Threads -> Operations] /\ CallInv /\ pc' = [pc EXCEPT ![t] = op]
  BY <1>1, <1>4 DEF SyncInv, SyncTypeOK
<1>6. CallInv'
  BY <1>1, <1>4, <1>5, CallInvKept
<1> QED
  BY <1>1, <1>3, <1>6, HoldInvKept DEF SyncInv

\* What a call that moves from one step to the next brings along.
LEMMA CallFacts ==
    ASSUME SyncInv, NEW t \in Threads, pc[t][1] \in LockSteps
    PROVE  /\ pc[t][2] \in Locks /\ Doing(t, pc[t][1], pc[t][2])
           /\ object[pc[t][2]].alive
           /\ pc[t][1] # "unlock" =>
                  /\ pc[t][3] \in {"rd", "wr"}
                  /\ pc[t][3] = "rd" => object[pc[t][2]].kind = "rwlock"
<1>1. pc[t] \in Operations
  BY DEF SyncInv, SyncTypeOK
<1>2. pc[t][2] \in Locks /\ (pc[t][1] # "unlock" => pc[t][3] \in {"rd", "wr"})
  BY <1>1, OperationCases, IdleFacts DEF LockSteps
<1> QED
  BY <1>2 DEF Doing, SyncInv, CallInv, LockSteps, Modes

\* Readers come to a read-write lock, an owner to a lock nobody has, or to a
\* recursive mutex of its own.
LEMMA AvailableMeaning ==
    ASSUME SyncInv, NEW t \in Threads, Requesting(t), Available(t, pc[t][2], pc[t][3])
    PROVE  LET l == pc[t][2] IN
           /\ \A u \in Threads :
                  held[u][l] = 0 \/ (u = t /\ object[l].kind = "rec_mutex")
           /\ pc[t][3] = "wr" => \A u \in Threads : shared[u][l] = 0
           /\ pc[t][3] = "rd" => /\ object[l].kind = "rwlock"
                                 /\ \A u \in Threads : held[u][l] = 0
           /\ held[t][l] < MaxDepth /\ shared[t][l] < MaxDepth
<1>1. pc[t][1] \in {"before", "try"}
  BY DEF Requesting
<1>2. pc[t][1] \in LockSteps /\ pc[t][1] # "unlock"
  BY <1>1 DEF LockSteps
<1>3. held[t][pc[t][2]] < MaxDepth /\ shared[t][pc[t][2]] < MaxDepth
  BY <1>1, <1>2, CallFacts DEF SyncInv, CallInv
<1> QED
  BY <1>2, <1>3, CallFacts DEF Available

\* The number of times a thread has a lock, one more or one less.
LEMMA CountUp ==
    ASSUME NEW h \in [Threads -> [Locks -> 0 .. MaxDepth]],
           NEW t \in Threads, NEW l \in Locks, h[t][l] < MaxDepth,
           NEW g, g = [h EXCEPT ![t][l] = @ + 1]
    PROVE  g \in [Threads -> [Locks -> 0 .. MaxDepth]]
BY BoundsAssumption

LEMMA CountDown ==
    ASSUME NEW h \in [Threads -> [Locks -> 0 .. MaxDepth]],
           NEW t \in Threads, NEW l \in Locks, h[t][l] > 0,
           NEW g, g = [h EXCEPT ![t][l] = @ - 1]
    PROVE  g \in [Threads -> [Locks -> 0 .. MaxDepth]]
BY BoundsAssumption

LEMMA AcquireSync ==
    ASSUME SyncInv, NEW t \in Threads, Acquire(t)
    PROVE  SyncInv'
<1> DEFINE l == pc[t][2]
           m == pc[t][3]
<1>1. /\ pc' = [pc EXCEPT ![t] = <<"acquired", l, m>>]
      /\ UNCHANGED <<object, thread, creations>>
      /\ Requesting(t) /\ Available(t, l, m)
      /\ m = "wr" => held' = [held EXCEPT ![t][l] = @ + 1] /\ shared' = shared
      /\ m # "wr" => shared' = [shared EXCEPT ![t][l] = @ + 1] /\ held' = held
  BY DEF Acquire
<1>2. /\ l \in Locks /\ m \in {"rd", "wr"} /\ object[l].alive
      /\ m = "rd" => object[l].kind = "rwlock"
      /\ m \in Modes(l)
  <2>1. pc[t][1] \in LockSteps /\ pc[t][1] # "unlock" /\ pc[t][1] \in {"before", "try"}
    BY <1>1 DEF Requesting, LockSteps
  <2> QED
    BY <2>1, CallFacts DEF Modes
<1>3. /\ \A u \in Threads : held[u][l] = 0 \/ (u = t /\ object[l].kind = "rec_mutex")
      /\ m = "wr" => \A u \in Threads : shared[u][l] = 0
      /\ m = "rd" => \A u \in Threads : held[u][l] = 0
      /\ held[t][l] < MaxDepth /\ shared[t][l] < MaxDepth
  BY <1>1, AvailableMeaning
<1>4. <<"acquired", l, m>> \in Operations
  BY <1>2 DEF Operations
<1>5. SyncTypeOK'
  <2>0. /\ held \in [Threads -> [Locks -> 0 .. MaxDepth]]
        /\ shared \in [Threads -> [Locks -> 0 .. MaxDepth]]
    BY DEF SyncInv, SyncTypeOK
  <2>1. held' \in [Threads -> [Locks -> 0 .. MaxDepth]]
    <3>1. CASE m = "wr"
      <4>1. /\ held' = [held EXCEPT ![t][l] = @ + 1]
            /\ l \in Locks /\ held[t][l] < MaxDepth
        BY <1>1, <1>2, <1>3, <3>1
      <4> QED
        BY <4>1, <2>0, CountUp, Zenon
    <3> QED
      BY <1>1, <2>0, <3>1
  <2>2. shared' \in [Threads -> [Locks -> 0 .. MaxDepth]]
    <3>1. CASE m # "wr"
      <4>1. /\ shared' = [shared EXCEPT ![t][l] = @ + 1]
            /\ l \in Locks /\ shared[t][l] < MaxDepth
        BY <1>1, <1>2, <1>3, <3>1
      <4> QED
        BY <4>1, <2>0, CountUp, Zenon
    <3> QED
      BY <1>1, <2>0, <3>1
  <2>3. pc' \in [Threads -> Operations]
    BY <1>1, <1>4 DEF SyncInv, SyncTypeOK
  <2> QED
    BY <1>1, <2>1, <2>2, <2>3 DEF SyncInv, SyncTypeOK
<1>6. \A u \in Threads, x \in Locks :
          /\ held[u][x] \in Nat /\ shared[u][x] \in Nat
          /\ held'[u][x] = IF u = t /\ x = l /\ m = "wr" THEN held[u][x] + 1 ELSE held[u][x]
          /\ shared'[u][x] = IF u = t /\ x = l /\ m = "rd" THEN shared[u][x] + 1
                             ELSE shared[u][x]
  BY <1>1, <1>2, BoundsAssumption DEF SyncInv, SyncTypeOK
<1>7. HoldInv'
  BY <1>1, <1>2, <1>3, <1>6 DEF SyncInv, HoldInv
<1>o. PICK op : op = <<"acquired", l, m>>
  OBVIOUS
<1>a. op = <<"acquired", l, m>> /\ op[1] = "acquired" /\ op[2] = l /\ op[3] = m
  BY <1>o
<1>8. /\ pc'[t] = op
      /\ \A u \in Threads : u # t => pc'[u] = pc[u]
      /\ \A o, x : Doing(t, o, x)' <=> "acquired" = o /\ l = x
      /\ \A u \in Threads : \A o, x : u # t => (Doing(u, o, x)' <=> Doing(u, o, x))
  <2>1. pc \in [Threads -> Operations] /\ pc' = [pc EXCEPT ![t] = op]
    BY <1>1, <1>a DEF SyncInv, SyncTypeOK
  <2>2. /\ pc'[t] = op
        /\ \A u \in Threads : u # t => pc'[u] = pc[u]
        /\ \A o, x : Doing(t, o, x)' <=> op[1] = o /\ op[2] = x
        /\ \A u \in Threads : \A o, x : u # t => (Doing(u, o, x)' <=> Doing(u, o, x))
    BY <2>1, CallMoves
  <2> QED
    BY <1>a, <2>2
<1>9. CallInv'
  <2>1. \A x : Modes(x)' = Modes(x)
    BY <1>1 DEF Modes
  <2>2. SUFFICES ASSUME NEW u \in Threads, NEW x \in Locks
        PROVE  /\ \A o \in LockSteps : Doing(u, o, x)' => object'[x].alive
               /\ \A o \in {"before", "try", "acquired"} :
                      Doing(u, o, x)' => pc'[u][3] \in Modes(x)'
               /\ \A o \in {"before", "try"} :
                      Doing(u, o, x)' => held'[u][x] < MaxDepth /\ shared'[u][x] < MaxDepth
               /\ Doing(u, "acquired", x)' =>
                      IF pc'[u][3] = "wr" THEN held'[u][x] > 0 ELSE shared'[u][x] > 0
               /\ Doing(u, "unlock", x)' => held'[u][x] > 0 \/ shared'[u][x] > 0
    BY DEF CallInv
  <2>3. CASE u = t
    BY <1>1, <1>2, <1>6, <1>8, <1>a, <2>1, <2>3
  <2>4. CASE u # t
    BY <1>1, <1>6, <1>8, <2>1, <2>4 DEF SyncInv, CallInv
  <2> QED
    BY <2>3, <2>4
<1> QED
  BY <1>1, <1>5, <1>7, <1>9 DEF SyncInv

LEMMA ReturnSync ==
    ASSUME SyncInv, NEW t \in Threads, AcquireFails(t) \/ CaptureAcquired(t)
    PROVE  SyncInv'
<1>1. pc' = [pc EXCEPT ![t] = Idle] /\ UNCHANGED <<object, held, shared, thread, creations>>
  BY DEF AcquireFails, CaptureAcquired
<1>2. SyncTypeOK'
  BY <1>1, IdleFacts DEF SyncInv, SyncTypeOK
<1>3. CallInv'
  BY <1>1, IdleFacts, CallInvKept DEF SyncInv, SyncTypeOK, LockSteps
<1> QED
  BY <1>1, <1>2, <1>3, HoldInvKept DEF SyncInv

LEMMA UnlockSync ==
    ASSUME SyncInv, NEW t \in Threads, NEW l \in Locks, CaptureUnlock(t, l)
    PROVE  SyncInv'
<1>1. /\ pc' = [pc EXCEPT ![t] = <<"unlock", l>>]
      /\ held[t][l] > 0 \/ shared[t][l] > 0
      /\ UNCHANGED <<object, held, shared, thread, creations>>
  BY DEF CaptureUnlock
<1>2. <<"unlock", l>> \in Operations
  BY DEF Operations
<1>3. SyncTypeOK'
  BY <1>1, <1>2 DEF SyncInv, SyncTypeOK
<1>4. object[l].alive
  BY <1>1 DEF SyncInv, HoldInv
<1>o. PICK op : op = <<"unlock", l>>
  OBVIOUS
<1>5. op = <<"unlock", l>> /\ op[1] = "unlock" /\ op[2] = l
  BY <1>o
<1>6. pc \in [Threads -> Operations] /\ CallInv /\ pc' = [pc EXCEPT ![t] = op]
  BY <1>1, <1>5 DEF SyncInv, SyncTypeOK
<1>7. CallInv'
  <2>1. \A x \in Locks :
            /\ op[1] \in LockSteps /\ op[2] = x => object[x].alive
            /\ op[1] \in {"before", "try", "acquired"} /\ op[2] = x => op[3] \in Modes(x)
            /\ op[1] \in {"before", "try"} /\ op[2] = x =>
                   held[t][x] < MaxDepth /\ shared[t][x] < MaxDepth
            /\ op[1] = "acquired" /\ op[2] = x =>
                   IF op[3] = "wr" THEN held[t][x] > 0 ELSE shared[t][x] > 0
            /\ op[1] = "unlock" /\ op[2] = x => held[t][x] > 0 \/ shared[t][x] > 0
    BY <1>1, <1>4, <1>5
  <2> QED
    BY <1>1, <1>6, <2>1, CallInvKept
<1> QED
  BY <1>1, <1>3, <1>7, HoldInvKept DEF SyncInv

LEMMA ReleaseSync ==
    ASSUME SyncInv, NEW t \in Threads, Release(t)
    PROVE  SyncInv'
<1> DEFINE l == pc[t][2]
<1>1. /\ pc[t][1] = "unlock" /\ pc' = [pc EXCEPT ![t] = Idle]
      /\ UNCHANGED <<object, thread, creations>>
      /\ held[t][l] > 0 => held' = [held EXCEPT ![t][l] = @ - 1] /\ shared' = shared
      /\ ~(held[t][l] > 0) => shared' = [shared EXCEPT ![t][l] = @ - 1] /\ held' = held
  BY DEF Release
<1>2. l \in Locks /\ (held[t][l] > 0 \/ shared[t][l] > 0)
  BY <1>1, CallFacts DEF LockSteps, SyncInv, CallInv
<1>3. SyncTypeOK'
  <2>0. /\ held \in [Threads -> [Locks -> 0 .. MaxDepth]]
        /\ shared \in [Threads -> [Locks -> 0 .. MaxDepth]]
    BY DEF SyncInv, SyncTypeOK
  <2>1. held' \in [Threads -> [Locks -> 0 .. MaxDepth]]
    BY <1>1, <1>2, <2>0, CountDown, Zenon
  <2>2. shared' \in [Threads -> [Locks -> 0 .. MaxDepth]]
    BY <1>1, <1>2, <2>0, CountDown, Zenon
  <2>3. pc' \in [Threads -> Operations]
    BY <1>1, IdleFacts DEF SyncInv, SyncTypeOK
  <2> QED
    BY <1>1, <2>1, <2>2, <2>3 DEF SyncInv, SyncTypeOK
<1>4. \A u \in Threads, x \in Locks :
          /\ held[u][x] \in Nat /\ shared[u][x] \in Nat
          /\ held'[u][x] = IF u = t /\ x = l /\ held[t][l] > 0 THEN held[u][x] - 1
                           ELSE held[u][x]
          /\ shared'[u][x] = IF u = t /\ x = l /\ ~(held[t][l] > 0) THEN shared[u][x] - 1
                             ELSE shared[u][x]
  BY <1>1, <1>2, BoundsAssumption DEF SyncInv, SyncTypeOK
<1>5. HoldInv'
  BY <1>1, <1>2, <1>4 DEF SyncInv, HoldInv
<1>6. /\ pc'[t] = Idle
      /\ \A u \in Threads : u # t => pc'[u] = pc[u]
      /\ \A o, x : Doing(t, o, x)' <=> Idle[1] = o /\ Idle[2] = x
      /\ \A u \in Threads : \A o, x : u # t => (Doing(u, o, x)' <=> Doing(u, o, x))
  BY <1>1, CallMoves DEF SyncInv, SyncTypeOK
<1>7. CallInv'
  <2>1. \A x : Modes(x)' = Modes(x)
    BY <1>1 DEF Modes
  <2>2. ASSUME NEW o \in LockSteps, NEW x PROVE ~Doing(t, o, x)'
    BY <1>6, IdleFacts
  <2>3. \A u \in Threads, x \in Locks :
            u # t => held'[u][x] = held[u][x] /\ shared'[u][x] = shared[u][x]
    BY <1>4
  <2> QED
    BY <1>1, <1>6, <2>1, <2>2, <2>3 DEF SyncInv, CallInv, LockSteps
<1> QED
  BY <1>1, <1>3, <1>5, <1>7 DEF SyncInv

LEMMA ThreadStepTypes ==
    ASSUME SyncTypeOK, NEW t \in Threads, ThreadStep(t)
    PROVE  SyncTypeOK' /\ creations <= creations'
<1>1. /\ pc \in [Threads -> Operations] /\ creations \in 1 .. MaxCreations
      /\ thread \in [Threads -> {"none", "starting", "running", "detached", "ended"}]
  BY DEF SyncTypeOK
<1>2. UNCHANGED <<object, held, shared>>
  BY ThreadStepFrame
<1>3. pc' \in [Threads -> Operations]
  <2>1. \/ pc' = pc
        \/ \E o \in {"spawn", "join", "detach"}, u \in Threads :
               pc' = [pc EXCEPT ![t] = <<o, u>>]
        \/ pc' = [pc EXCEPT ![t] = Idle]
    BY DEF ThreadStep, ReserveThread, StartFails, EndThread, JoinThread, DetachThread,
           StartThread, CaptureReaped
  <2>2. \A o \in {"spawn", "join", "detach"}, u \in Threads : <<o, u>> \in Operations
    BY DEF Operations
  <2> QED
    BY <1>1, <2>1, <2>2, IdleFacts
<1>4. thread' \in [Threads -> {"none", "starting", "running", "detached", "ended"}]
  <2>1. CASE StartThread(t)
    <3>1. thread' = [thread EXCEPT ![pc[t][2]] = "running"]
      BY <2>1 DEF StartThread
    <3> QED
      BY <1>1, <3>1
  <2> QED
    BY <1>1, <2>1 DEF ThreadStep, ReserveThread, StartFails, EndThread, JoinThread,
           DetachThread, CaptureReaped
<1>5. creations' \in 1 .. MaxCreations /\ creations <= creations'
  BY <1>1, BoundsAssumption DEF ThreadStep, ReserveThread, StartFails, EndThread,
       JoinThread, DetachThread, StartThread, CaptureReaped
<1> QED
  BY <1>2, <1>3, <1>4, <1>5 DEF SyncTypeOK

LEMMA ThreadSync ==
    ASSUME SyncInv, NEW t \in Threads, ThreadStep(t)
    PROVE  SyncInv'
<1>1. SyncTypeOK /\ CallInv
  BY DEF SyncInv
<1>2. SyncTypeOK' /\ creations <= creations'
  BY <1>1, ThreadStepTypes
<1>3. UNCHANGED <<object, held, shared>> /\ CallsStay
  BY <1>1, ThreadStepFrame
<1>4. \A l \in Locks : object'[l].id <= creations'
  BY <1>1, <1>2, <1>3 DEF SyncInv, SyncTypeOK
<1>5. CallInv'
  <2>1. \A l : Modes(l)' = Modes(l)
    BY <1>3 DEF Modes
  <2> QED
    BY <1>1, <1>3, <2>1 DEF CallInv, CallsStay, LockSteps
<1> QED
  BY <1>2, <1>3, <1>4, <1>5, HoldInvKept DEF SyncInv

\* A step of the program is one of the calls on locks, or one about threads.
LEMMA ProgramCases ==
    ASSUME SyncNext
    PROVE  \E t \in Threads :
               \/ \E l \in Locks, k \in Kinds : CreateLock(t, l, k)
               \/ \E l \in Locks : DestroyLock(t, l)
               \/ \E l \in Locks, type \in {"before", "try"} :
                      \E m \in Modes(l) : RequestLock(t, l, m, type)
               \/ Acquire(t) \/ AcquireFails(t) \/ CaptureAcquired(t)
               \/ \E l \in Locks : CaptureUnlock(t, l)
               \/ Release(t)
               \/ ThreadStep(t)
BY DEF SyncNext, LockStep

LEMMA NextSync == SyncInv /\ [Next]_vars => SyncInv'
<1> SUFFICES ASSUME SyncInv, [Next]_vars PROVE SyncInv'
  OBVIOUS
<1>1. CASE SyncNext
  BY <1>1, ProgramCases, CreateSync, DestroySync, RequestSync, AcquireSync, ReturnSync,
     UnlockSync, ReleaseSync, ThreadSync
<1>2. CASE UNCHANGED <<object, held, shared, thread, pc, creations>>
  <2>1. \A o, t, l : Doing(t, o, l)' <=> Doing(t, o, l)
    BY <1>2 DEF Doing
  <2>2. \A l : Modes(l)' = Modes(l)
    BY <1>2 DEF Modes
  <2>3. CallInv'
    BY <1>2, <2>1, <2>2 DEF SyncInv, CallInv
  <2>4. SyncTypeOK'
    BY <1>2 DEF SyncInv, SyncTypeOK
  <2> QED
    BY <1>2, <2>3, <2>4, HoldInvKept DEF SyncInv
<1> QED
  BY <1>1, <1>2 DEF Next, ProgramStep, ShutDown, vars, syncVars

\* Whatever the analysis does, the program keeps its locks exclusive, and a call
\* in progress keeps its lock.
THEOREM ProgramInvariance == Spec => []SyncInv
BY InitSync, NextSync, PTL DEF Spec

-----------------------------------------------------------------------------
(* The database.                                                           *)

\* What a step of the program does to the analysis, unless it terminates it.
Handled(pick) ==
    /\ Lookups(event', pick) \subseteq Known(Before(event'))
    /\ Analyze(event', Before(event'))
    /\ db' = After(event', Before(event'))
    /\ reported' = Reports(event', Before(event'), pick)
    /\ analysis' = "running"

Terminated ==
    /\ analysis' = "terminated"
    /\ reported' = {}
    /\ UNCHANGED <<db, analyzerVars>>

LEMMA HandleCases ==
    ASSUME ProgramStep
    PROVE  /\ analysis = "running" /\ SyncNext
           /\ \E pick \in Picks :
                  \/ Handled(pick)
                  \/ Terminated /\ ~(Lookups(event', pick) \subseteq Known(Before(event')))
BY DEF ProgramStep, HandleEvent, Handled, Terminated

Entries == [name : 0 .. MaxCreations,
            bits : {"none", "thread", "mutex", "rec_mutex", "rwlock"}]

\* The entry of a lock that the program created and has not destroyed.
Entry(l) == [name |-> object[l].id, bits |-> object[l].kind]

Created(l) == object[l].alive /\ l \notin StaticLocks

DbInv ==
    /\ db \in [Ids -> Entries]
    /\ \A l \in Locks : Created(l) => db[l] = Entry(l)
    /\ analysis # "terminated" => \A l \in Locks : ~Created(l) => db[l] = NoEntry
    /\ \A u \in Threads : thread[u] # "none" => db[u] # NoEntry
    /\ \A t \in Threads : pc[t][1] = "spawn" => db[pc[t][2]] # NoEntry

LEMMA NoEntryFacts ==
    /\ NoEntry \in Entries
    /\ \A n, b : b # "none" => [name |-> n, bits |-> b] # NoEntry
BY BoundsAssumption DEF NoEntry, Entries

\* An event of a lock or a thread that creates or destroys nothing.
LEMMA PassingEvent ==
    ASSUME NEW e, e.type \notin {"create", "destroy"}
    PROVE  Before(e) = db /\ After(e, Before(e)) = db
BY DEF Before, After

\* What emplace does; an entry that is there stays.
LEMMA Emplaced ==
    ASSUME db \in [Ids -> Entries], NEW e, e.object \in Ids, e.type = "create",
           e.id \in 0 .. MaxCreations, e.bits \in {"thread", "mutex", "rec_mutex", "rwlock"}
    PROVE  /\ Before(e) \in [Ids -> Entries]
           /\ After(e, Before(e)) = Before(e)
           /\ \A i \in Ids : i # e.object => Before(e)[i] = db[i]
           /\ db[e.object] = NoEntry =>
                  Before(e)[e.object] = [name |-> e.id, bits |-> e.bits]
           /\ \A i \in Ids : db[i] # NoEntry => Before(e)[i] = db[i]
           /\ e.object \in Known(Before(e))
<1>1. [name |-> e.id, bits |-> e.bits] \in Entries
  BY DEF Entries
<1>2. After(e, Before(e)) = Before(e)
  BY DEF After
<1>3. CASE db[e.object] = NoEntry
  <2>1. Before(e) = [db EXCEPT ![e.object] = [name |-> e.id, bits |-> e.bits]]
    BY <1>3 DEF Before
  <2>2. [name |-> e.id, bits |-> e.bits] # NoEntry
    BY NoEntryFacts
  <2> QED
    BY <1>1, <1>2, <1>3, <2>1, <2>2 DEF Known
<1>4. CASE db[e.object] # NoEntry
  BY <1>2, <1>4 DEF Before, Known
<1> QED
  BY <1>3, <1>4

\* A create event looks up nothing but its own object, so it terminates nothing.
LEMMA CreateLookups ==
    ASSUME NEW e, e.type = "create", NEW pick
    PROVE  Lookups(e, pick) \subseteq {e.object}
<1>1. UselessLookups(e) \subseteq {e.object}
  BY DEF UselessLookups, UselessReports, TypeLookups
<1>2. RwLookups(e) \subseteq {e.object} /\ RecLookups(e) \subseteq {e.object}
  BY DEF RwLookups, RecLookups, TypeLookups
<1>3. ShadowLookups(e, pick) = {}
  BY DEF ShadowLookups, Dropped
<1>4. OrderLookups(e) = {}
  BY DEF OrderLookups, OrderReports
<1> QED
  BY <1>1, <1>2, <1>3, <1>4 DEF Lookups, Enabled

LEMMA InitDb == Init => DbInv
<1> SUFFICES ASSUME Init PROVE DbInv
  OBVIOUS
<1>1. db = [i \in Ids |-> IF i = Main THEN [name |-> 1, bits |-> "thread"] ELSE NoEntry]
  BY DEF Init, DbInit
<1>2. /\ object = [l \in Locks |-> [alive |-> l \in StaticLocks, kind |-> "mutex", id |-> 0]]
      /\ thread = [t \in Threads |-> IF t = Main THEN "running" ELSE "none"]
      /\ pc = [t \in Threads |-> Idle]
  BY DEF Init, SyncInit
<1>3. [name |-> 1, bits |-> "thread"] \in Entries /\ [name |-> 1, bits |-> "thread"] # NoEntry
  BY BoundsAssumption, NoEntryFacts DEF Entries
<1>4. \A l \in Locks : l \in Ids /\ l # Main /\ ~Created(l)
  BY <1>2, IdsAssumption, MainAssumption DEF Ids, Created
<1>5. db \in [Ids -> Entries]
  BY <1>1, <1>3, NoEntryFacts
<1>6. \A u \in Threads : thread[u] # "none" => db[u] # NoEntry
  BY <1>1, <1>2, <1>3 DEF Ids
<1>7. \A t \in Threads : pc[t][1] # "spawn"
  BY <1>2, IdleFacts
<1> QED
  BY <1>1, <1>4, <1>5, <1>6, <1>7 DEF DbInv

LEMMA SpawnId ==
    ASSUME SyncTypeOK, NEW t \in Threads, pc[t][1] = "spawn"
    PROVE  pc[t][2] \in Threads
BY OperationCases, IdleFacts DEF SyncTypeOK, LockSteps

\* The database after a step that captured no creation or destruction.
LEMMA DbPasses ==
    ASSUME ProgramStep, event'.type \notin {"create", "destroy"}
    PROVE  db' = db
BY HandleCases, PassingEvent DEF Handled, Terminated

LEMMA DbGrows ==
    ASSUME ProgramStep, db \in [Ids -> Entries], event'.type = "create",
           event'.object \in Ids, event'.id \in 0 .. MaxCreations,
           event'.bits \in {"thread", "mutex", "rec_mutex", "rwlock"}
    PROVE  db' = Before(event') /\ analysis' = "running"
<1>1. event'.object \in Known(Before(event'))
  BY Emplaced
<1>2. \A pick : Lookups(event', pick) \subseteq Known(Before(event'))
  BY <1>1, CreateLookups
<1>3. After(event', Before(event')) = Before(event')
  BY Emplaced
<1> QED
  BY <1>2, <1>3, HandleCases DEF Handled

LEMMA CreateDb ==
    ASSUME SyncInv, DbInv, ProgramStep, NEW t \in Threads, NEW l \in Locks, NEW k \in Kinds,
           CreateLock(t, l, k)
    PROVE  DbInv'
<1>1. /\ object' = [object EXCEPT ![l] = [alive |-> TRUE, kind |-> k, id |-> creations + 1]]
      /\ ~object[l].alive /\ creations < MaxCreations
      /\ UNCHANGED <<thread, pc>>
      /\ event' = Event("create", "none", k, l, t)
  BY DEF CreateLock
<1>2. /\ event'.type = "create" /\ event'.object = l /\ event'.id = creations + 1
      /\ event'.bits = k
  BY <1>1 DEF Event
<1>3. /\ creations + 1 \in 0 .. MaxCreations /\ l \in Ids /\ k # "none"
      /\ k \in {"thread", "mutex", "rec_mutex", "rwlock"}
  BY <1>1, KindsAssumption, BoundsAssumption DEF SyncInv, SyncTypeOK, Ids
<1>4. db' = Before(event') /\ analysis' = "running"
  BY <1>2, <1>3, DbGrows DEF DbInv
<1>5. analysis # "terminated" /\ db[l] = NoEntry
  BY <1>1, HandleCases DEF DbInv, Created
<1>6. /\ db' \in [Ids -> Entries]
      /\ \A i \in Ids : i # l => db'[i] = db[i]
      /\ db'[l] = [name |-> creations + 1, bits |-> k]
      /\ \A i \in Ids : db[i] # NoEntry => db'[i] = db[i]
  BY <1>2, <1>3, <1>4, <1>5, Emplaced DEF DbInv
<1>7. \A x \in Locks : /\ x \in Ids
                       /\ x # l => object'[x] = object[x]
  BY <1>1 DEF SyncInv, SyncTypeOK, Ids
<1>8. l \notin StaticLocks
  BY <1>1 DEF SyncInv
<1>9. object'[l] = [alive |-> TRUE, kind |-> k, id |-> creations + 1]
  BY <1>1 DEF SyncInv, SyncTypeOK
<1>10. \A x \in Locks : Created(x)' => db'[x] = Entry(x)'
  BY <1>6, <1>7, <1>9 DEF DbInv, Created, Entry
<1>11. \A x \in Locks : ~Created(x)' => db'[x] = NoEntry
  BY <1>5, <1>6, <1>7, <1>8, <1>9 DEF DbInv, Created
<1>12. \A u \in Threads : thread'[u] # "none" => db'[u] # NoEntry
  BY <1>1, <1>6 DEF DbInv, Ids
<1>13. \A u \in Threads : pc'[u][1] = "spawn" => db'[pc'[u][2]] # NoEntry
  BY <1>1, <1>6, SpawnId DEF DbInv, SyncInv, Ids
<1> QED
  BY <1>6, <1>10, <1>11, <1>12, <1>13 DEF DbInv

LEMMA DestroyDb ==
    ASSUME SyncInv, DbInv, ProgramStep, NEW t \in Threads, NEW l \in Locks, DestroyLock(t, l)
    PROVE  DbInv'
<1>1. /\ object' = [object EXCEPT ![l].alive = FALSE] /\ object[l].alive
      /\ l \notin StaticLocks
      /\ UNCHANGED <<thread, pc>>
      /\ event' = Event("destroy", "none", Bits(l), l, t)
  BY DEF DestroyLock
<1>2. event'.type = "destroy" /\ event'.object = l
  BY <1>1 DEF Event
<1>3. \/ db' = [db EXCEPT ![l] = NoEntry]
      \/ db' = db /\ analysis' = "terminated"
  BY <1>2, HandleCases DEF Handled, Terminated, Before, After
<1>4. l \in Ids /\ l \notin Threads /\ db \in [Ids -> Entries]
  BY IdsAssumption DEF Ids, DbInv
<1>5. /\ db' \in [Ids -> Entries]
      /\ \A i \in Ids : i # l => db'[i] = db[i]
      /\ analysis' # "terminated" => db'[l] = NoEntry
  BY <1>3, <1>4, NoEntryFacts
<1>6. /\ \A x \in Locks : /\ x \in Ids
                          /\ x # l => object'[x] = object[x]
      /\ ~object'[l].alive
  BY <1>1 DEF SyncInv, SyncTypeOK, Ids
<1>7. \A x \in Locks : Created(x)' => db'[x] = Entry(x)'
  BY <1>5, <1>6 DEF DbInv, Created, Entry
<1>8. analysis' # "terminated" => \A x \in Locks : ~Created(x)' => db'[x] = NoEntry
  BY <1>5, <1>6, HandleCases DEF DbInv, Created
<1>9. \A u \in Threads : thread'[u] # "none" => db'[u] # NoEntry
  BY <1>1, <1>4, <1>5 DEF DbInv, Ids
<1>10. \A u \in Threads : pc'[u][1] = "spawn" => db'[pc'[u][2]] # NoEntry
  BY <1>1, <1>4, <1>5, SpawnId DEF DbInv, SyncInv, Ids
<1> QED
  BY <1>5, <1>7, <1>8, <1>9, <1>10 DEF DbInv

\* Steps that create and destroy nothing and begin no thread.
LEMMA OtherDb ==
    ASSUME DbInv, ProgramStep, event'.type \notin {"create", "destroy"},
           UNCHANGED object,
           \A u \in Threads : thread'[u] # "none" => thread[u] # "none" \/ db[u] # NoEntry,
           \A t \in Threads : pc'[t][1] = "spawn" => pc'[t] = pc[t]
    PROVE  DbInv'
<1>1. db' = db /\ analysis = "running"
  BY DbPasses, HandleCases
<1>2. \A l : Created(l)' <=> Created(l)
  BY DEF Created
<1>3. \A l : Entry(l)' = Entry(l)
  BY DEF Entry
<1> QED
  BY <1>1, <1>2, <1>3 DEF DbInv

\* The create event of a thread.
LEMMA ThreadCreatedDb ==
    ASSUME SyncInv, DbInv, ProgramStep, NEW t \in Threads, NEW u \in Threads \cup StaleIds,
           event' = Event("create", "none", "thread", u, t), creations < MaxCreations,
           UNCHANGED object,
           \A v \in Threads : thread'[v] # "none" => thread[v] # "none" \/ v = u,
           \A v \in Threads : pc'[v][1] = "spawn" => pc'[v] = pc[v] \/ pc'[v][2] = u
    PROVE  DbInv'
<1>1. /\ event'.type = "create" /\ event'.object = u /\ event'.id = creations + 1
      /\ event'.bits = "thread"
  BY DEF Event
<1>2. creations + 1 \in 0 .. MaxCreations /\ u \in Ids /\ u \notin Locks
  BY BoundsAssumption, IdsAssumption DEF SyncInv, SyncTypeOK, Ids
<1>3. db' = Before(event') /\ analysis' = "running" /\ analysis = "running"
  BY <1>1, <1>2, DbGrows, HandleCases DEF DbInv
<1>4. /\ db' \in [Ids -> Entries]
      /\ \A i \in Ids : i # u => db'[i] = db[i]
      /\ \A i \in Ids : db[i] # NoEntry => db'[i] = db[i]
      /\ db'[u] # NoEntry
  <2>1. /\ db \in [Ids -> Entries] /\ event'.object \in Ids /\ event'.type = "create"
        /\ event'.id \in 0 .. MaxCreations
        /\ event'.bits \in {"thread", "mutex", "rec_mutex", "rwlock"}
    BY <1>1, <1>2 DEF DbInv
  <2>2. /\ Before(event') \in [Ids -> Entries]
        /\ \A i \in Ids : i # event'.object => Before(event')[i] = db[i]
        /\ \A i \in Ids : db[i] # NoEntry => Before(event')[i] = db[i]
        /\ event'.object \in Known(Before(event'))
    BY <2>1, Emplaced
  <2> QED
    BY <1>1, <1>3, <2>2 DEF Known
<1>5. /\ \A l \in Locks : Created(l)' <=> Created(l)
      /\ \A l \in Locks : Entry(l)' = Entry(l)
      /\ \A l \in Locks : db'[l] = db[l]
  BY <1>2, <1>4 DEF Created, Entry, Ids
<1>6. \A v \in Threads : thread'[v] # "none" => db'[v] # NoEntry
  BY <1>4 DEF DbInv, Ids
<1>7. \A v \in Threads : pc'[v][1] = "spawn" => db'[pc'[v][2]] # NoEntry
  BY <1>4, SpawnId DEF DbInv, SyncInv, Ids
<1> QED
  BY <1>3, <1>4, <1>5, <1>6, <1>7 DEF DbInv

LEMMA ThreadStepDb ==
    ASSUME SyncInv, DbInv, ProgramStep, NEW t \in Threads, ThreadStep(t)
    PROVE  DbInv'
<1>1. /\ UNCHANGED object
      /\ pc \in [Threads -> Operations]
      /\ thread \in [Threads -> {"none", "starting", "running", "detached", "ended"}]
  BY ThreadStepFrame DEF SyncInv, SyncTypeOK
<1>2. CASE \E u \in Threads : ReserveThread(t, u)
  <2>1. PICK u \in Threads : ReserveThread(t, u)
    BY <1>2
  <2>2. /\ thread' = [thread EXCEPT ![u] = "starting"]
        /\ pc' = [pc EXCEPT ![t] = <<"spawn", u>>]
        /\ event' = Event("create", "none", "thread", u, t) /\ creations < MaxCreations
    BY <2>1 DEF ReserveThread
  <2>3. \A v \in Threads : thread'[v] # "none" => thread[v] # "none" \/ v = u
    BY <1>1, <2>2
  <2>4. \A v \in Threads : pc'[v][1] = "spawn" => pc'[v] = pc[v] \/ pc'[v][2] = u
    BY <1>1, <2>2
  <2> QED
    BY <1>1, <2>2, <2>3, <2>4, ThreadCreatedDb
<1>3. CASE \E g \in StaleIds : StartFails(t, g)
  <2>1. PICK g \in StaleIds : StartFails(t, g)
    BY <1>3
  <2> QED
    BY <1>1, <2>1, ThreadCreatedDb DEF StartFails
<1>4. CASE \E u \in Threads : JoinThread(t, u) \/ DetachThread(t, u)
  <2>1. PICK u \in Threads : JoinThread(t, u) \/ DetachThread(t, u)
    BY <1>4
  <2>2. PICK o \in {"join", "detach"} : pc' = [pc EXCEPT ![t] = <<o, u>>]
    BY <2>1 DEF JoinThread, DetachThread
  <2>3. \A v \in Threads : pc'[v][1] = "spawn" => pc'[v] = pc[v]
    BY <1>1, <2>2
  <2>4. \A v \in Threads : thread'[v] # "none" => thread[v] # "none"
    BY <1>1, <2>1 DEF JoinThread, DetachThread
  <2>5. event'.type = "none"
    BY <2>1 DEF JoinThread, DetachThread, NoEvent
  <2> QED
    BY <1>1, <2>3, <2>4, <2>5, OtherDb
<1>5. CASE StartThread(t)
  <2>1. /\ pc[t][1] = "spawn" /\ pc' = [pc EXCEPT ![t] = Idle]
        /\ thread' = [thread EXCEPT ![pc[t][2]] = "running"]
        /\ event'.type = "none"
    BY <1>5 DEF StartThread, NoEvent
  <2>2. \A v \in Threads : pc'[v][1] = "spawn" => pc'[v] = pc[v]
    BY <1>1, <2>1, IdleFacts
  <2>3. \A v \in Threads : thread'[v] # "none" => thread[v] # "none" \/ db[v] # NoEntry
    BY <1>1, <2>1, SpawnId DEF DbInv
  <2> QED
    BY <1>1, <2>1, <2>2, <2>3, OtherDb
<1>6. CASE EndThread(t) \/ CaptureReaped(t)
  <2>1. pc' = pc \/ pc' = [pc EXCEPT ![t] = Idle]
    BY <1>6 DEF EndThread, CaptureReaped
  <2>2. \A v \in Threads : pc'[v][1] = "spawn" => pc'[v] = pc[v]
    BY <1>1, <2>1, IdleFacts
  <2>3. \A v \in Threads : thread'[v] # "none" => thread[v] # "none"
    BY <1>1, <1>6 DEF EndThread, CaptureReaped, Ready
  <2>4. event'.type \notin {"create", "destroy"}
    BY <1>6 DEF EndThread, CaptureReaped, NoEvent, Event
  <2> QED
    BY <1>1, <2>2, <2>3, <2>4, OtherDb
<1> QED
  BY <1>2, <1>3, <1>4, <1>5, <1>6 DEF ThreadStep

LEMMA NextDb == SyncInv /\ DbInv /\ [Next]_vars => DbInv'
<1> SUFFICES ASSUME SyncInv, DbInv, [Next]_vars PROVE DbInv'
  OBVIOUS
<1>1. ASSUME ProgramStep, NEW t \in Threads,
             \/ \E l \in Locks, type \in {"before", "try"} :
                      \E m \in Modes(l) : RequestLock(t, l, m, type)
             \/ Acquire(t) \/ AcquireFails(t) \/ CaptureAcquired(t)
             \/ \E l \in Locks : CaptureUnlock(t, l)
             \/ Release(t)
      PROVE  DbInv'
  <2>1. UNCHANGED <<object, thread>> /\ event'.type \notin {"create", "destroy"}
    BY <1>1 DEF RequestLock, Acquire, AcquireFails, CaptureAcquired, CaptureUnlock,
       Release, NoEvent, Event
  <2>2. \E op : pc' = [pc EXCEPT ![t] = op] /\ op[1] # "spawn"
    <3>1. CASE \E l, m : \E o \in {"before", "try", "acquired"} :
                   pc' = [pc EXCEPT ![t] = <<o, l, m>>]
      <4>1. PICK l, m : \E o \in {"before", "try", "acquired"} :
                   pc' = [pc EXCEPT ![t] = <<o, l, m>>]
        BY <3>1
      <4>2. PICK o \in {"before", "try", "acquired"} :
                   pc' = [pc EXCEPT ![t] = <<o, l, m>>]
        BY <4>1
      <4>3. <<o, l, m>>[1] # "spawn"
        BY <4>2
      <4> QED
        BY <4>2, <4>3
    <3>2. CASE \E l : pc' = [pc EXCEPT ![t] = <<"unlock", l>>]
      <4>1. PICK l : pc' = [pc EXCEPT ![t] = <<"unlock", l>>]
        BY <3>2
      <4>2. <<"unlock", l>>[1] # "spawn"
        OBVIOUS
      <4> QED
        BY <4>1, <4>2
    <3>3. CASE pc' = [pc EXCEPT ![t] = Idle]
      BY <3>3, IdleFacts
    <3> QED
      BY <1>1, <3>1, <3>2, <3>3 DEF RequestLock, Acquire, AcquireFails, CaptureAcquired,
         CaptureUnlock, Release
  <2>3. pc \in [Threads -> Operations]
    BY DEF SyncInv, SyncTypeOK
  <2>4. \A v \in Threads : pc'[v][1] = "spawn" => pc'[v] = pc[v]
    BY <2>2, <2>3
  <2> QED
    BY <1>1, <2>1, <2>4, OtherDb
<1>2. CASE ProgramStep
  BY <1>1, <1>2, HandleCases, ProgramCases, CreateDb, DestroyDb, ThreadStepDb
<1>3. CASE UNCHANGED <<object, thread, pc, db>> /\ (analysis = "terminated" => analysis' = analysis)
  <2>1. (\A l : Created(l)' <=> Created(l)) /\ (\A l : Entry(l)' = Entry(l))
    BY <1>3 DEF Created, Entry
  <2> QED
    BY <1>3, <2>1 DEF DbInv
<1> QED
  BY <1>2, <1>3 DEF Next, ShutDown, vars, syncVars

\* While the analysis goes on, the entry of a lock is that of its own creation
\* and there are no others; threads that can act have one for good.
THEOREM DatabaseInvariance == Spec => []DbInv
BY InitDb, NextDb, ProgramInvariance, PTL DEF Spec

\* A live object has an entry, with its own name, and every thread that can
\* still act has one, however threads and addresses are used again.
THEOREM DatabaseIsRight == Spec => []DatabaseKnowsLive
<1>1. DbInv => DatabaseKnowsLive
  <2>1. \A l : Entry(l).name = object[l].id
    BY DEF Entry
  <2> QED
    BY <2>1 DEF DbInv, DatabaseKnowsLive, Created
<1> QED
  BY <1>1, DatabaseInvariance, PTL

-----------------------------------------------------------------------------
(* What the analyzers see of the steps.                                    *)

\* The event of a call on a lock, or of its creation or destruction.
LockEvent(e) ==
    /\ e.bits \in {"mutex", "rec_mutex", "rwlock"}
    /\ e.type \in {"create", "destroy", "before", "try", "after", "unlock"}
    /\ e.object \in Locks /\ e.thread \in Threads
    /\ e.type = "after" => e.mode \in {"rd", "wr"}

LEMMA QuietSteps ==
    ASSUME SyncInv, NEW t \in Threads,
           ThreadStep(t) \/ Acquire(t) \/ AcquireFails(t) \/ Release(t)
    PROVE  UNCHANGED object /\ Quiet(event')
<1>1. CASE ThreadStep(t)
  BY <1>1, ThreadStepFrame DEF SyncInv
<1>2. CASE Acquire(t) \/ AcquireFails(t) \/ Release(t)
  BY <1>2, NoEventQuiet DEF Acquire, AcquireFails, Release
<1> QED
  BY <1>1, <1>2

LEMMA EventCases ==
    ASSUME SyncInv, SyncNext
    PROVE  Quiet(event') \/ LockEvent(event')
<1>1. PICK t \in Threads :
           \/ \E l \in Locks, k \in Kinds : CreateLock(t, l, k)
           \/ \E l \in Locks : DestroyLock(t, l)
           \/ \E l \in Locks, type \in {"before", "try"} :
                  \E m \in Modes(l) : RequestLock(t, l, m, type)
           \/ Acquire(t) \/ AcquireFails(t) \/ CaptureAcquired(t)
           \/ \E l \in Locks : CaptureUnlock(t, l)
           \/ Release(t)
           \/ ThreadStep(t)
  BY ProgramCases
<1>2. CASE \E l \in Locks, k \in Kinds : CreateLock(t, l, k)
  BY <1>2, KindsAssumption DEF CreateLock, Event, LockEvent
<1>3. CASE \E l \in Locks : DestroyLock(t, l) \/ CaptureUnlock(t, l)
  BY <1>3 DEF DestroyLock, CaptureUnlock, Event, LockEvent, Bits
<1>4. CASE \E l \in Locks, type \in {"before", "try"} :
               \E m \in Modes(l) : RequestLock(t, l, m, type)
  BY <1>4 DEF RequestLock, Event, LockEvent, Bits
<1>5. CASE CaptureAcquired(t)
  <2>1. pc[t][1] = "acquired" /\ event' = Event("after", pc[t][3], Bits(pc[t][2]), pc[t][2], t)
    BY <1>5 DEF CaptureAcquired
  <2>2. pc[t][2] \in Locks /\ pc[t][3] \in {"rd", "wr"}
    BY <2>1, CallFacts DEF LockSteps
  <2> QED
    BY <2>1, <2>2 DEF Event, LockEvent, Bits
<1> QED
  BY <1>1, <1>2, <1>3, <1>4, <1>5, QuietSteps

\* Only a request changes who has asked for a lock.
LEMMA NotAsked ==
    ASSUME SyncInv, NEW t \in Threads,
           \/ \E l \in Locks, k \in Kinds : CreateLock(t, l, k)
           \/ \E l \in Locks : DestroyLock(t, l) \/ CaptureUnlock(t, l)
           \/ Acquire(t) \/ AcquireFails(t) \/ CaptureAcquired(t) \/ Release(t)
           \/ ThreadStep(t)
    PROVE  \A u \in Threads, l \in Locks : ~Asked(u, l)
<1>1. pc \in [Threads -> Operations]
  BY DEF SyncInv, SyncTypeOK
<1>2. CASE UNCHANGED pc
  BY <1>2 DEF Asked
<1>3. CASE ThreadStep(t)
  <2>1. CallsStay
    BY <1>3, ThreadStepFrame DEF SyncInv
  <2> QED
    BY <2>1 DEF CallsStay, Asked, Doing, LockSteps
<1>4. CASE pc' = [pc EXCEPT ![t] = Idle]
  BY <1>1, <1>4, IdleFacts DEF Asked, LockSteps
<1>5. CASE \E l \in Locks : CaptureUnlock(t, l)
  <2>1. PICK l \in Locks : pc' = [pc EXCEPT ![t] = <<"unlock", l>>]
    BY <1>5 DEF CaptureUnlock
  <2>2. <<"unlock", l>>[1] = "unlock"
    OBVIOUS
  <2> QED
    BY <1>1, <2>1, <2>2 DEF Asked
<1>6. CASE Acquire(t)
  <2>1. PICK l, m : pc' = [pc EXCEPT ![t] = <<"acquired", l, m>>]
    BY <1>6 DEF Acquire
  <2>2. <<"acquired", l, m>>[1] = "acquired"
    OBVIOUS
  <2> QED
    BY <1>1, <2>1, <2>2 DEF Asked
<1> QED
  BY <1>2, <1>3, <1>4, <1>5, <1>6 DEF CreateLock, DestroyLock, AcquireFails,
     CaptureAcquired, Release

LEMMA RequestAsks ==
    ASSUME SyncInv, NEW t \in Threads, NEW l \in Locks, NEW type \in {"before", "try"},
           NEW m, RequestLock(t, l, m, type)
    PROVE  \A u \in Threads, x \in Locks : Asked(u, x) <=> u = t /\ x = l
<1>1. pc \in [Threads -> Operations] /\ pc[t] = Idle
  BY DEF SyncInv, SyncTypeOK, RequestLock, Ready
<1>2. PICK op : op = <<type, l, m>>
  OBVIOUS
<1>3. op[1] = type /\ op[2] = l /\ op # Idle
  BY <1>2, IdleFacts DEF LockSteps, Idle
<1>4. pc' = [pc EXCEPT ![t] = op]
  BY <1>2 DEF RequestLock
<1> QED
  BY <1>1, <1>3, <1>4 DEF Asked

\* Each analyzer has its own words, so a report tells which analyzer made it.
LEMMA ReportWords ==
    ASSUME NEW e, NEW d, NEW pick, NEW n, NEW l
    PROVE  /\ <<n, l>> \in UselessReports(e) => n \in {"never locked", "one thread"}
           /\ <<n, l>> \in RwReports(e) => n \in {"only read", "only written"}
           /\ <<n, l>> \in RecReports(e, d) => n = "not recursive"
           /\ <<n, l>> \notin ShadowReports(e, d, pick) /\ <<n, l>> \notin OrderReports(e)
<1>1. <<n, l>> \in UselessReports(e) => n \in {"never locked", "one thread"}
  BY DEF UselessReports, UselessVerdict
<1>2. <<n, l>> \in RwReports(e) => n \in {"only read", "only written"}
  BY DEF RwReports, RwVerdict
<1>3. <<n, l>> \in RecReports(e, d) => n = "not recursive"
  BY DEF RecReports, RecVerdict
<1>4. <<n, l>> \notin ShadowReports(e, d, pick)
  BY DEF ShadowReports, ShadowReport
<1>5. <<n, l>> \notin OrderReports(e)
  BY DEF OrderReports
<1> QED
  BY <1>1, <1>2, <1>3, <1>4, <1>5

\* What is said of a lock at the end is the verdict on that lock.
LEMMA LastVerdicts ==
    ASSUME NEW n, NEW l \in Locks
    PROVE  /\ <<n, l>> \in UselessLastReports <=> <<n, l>> \in UselessVerdict(l)
           /\ <<n, l>> \in RwLastReports <=> <<n, l>> \in RwVerdict(l)
           /\ <<n, l>> \in RecLastReports <=> <<n, l>> \in RecVerdict(l)
<1>1. ASSUME NEW k \in Locks, <<n, l>> \in UselessVerdict(k) PROVE k = l
  BY <1>1 DEF UselessVerdict
<1>2. ASSUME NEW k \in Locks, <<n, l>> \in RwVerdict(k) PROVE k = l
  BY <1>2 DEF RwVerdict
<1>3. ASSUME NEW k \in Locks, <<n, l>> \in RecVerdict(k) PROVE k = l
  BY <1>3 DEF RecVerdict
<1>4. <<n, l>> \in UselessLastReports <=> \E k \in Locks : <<n, l>> \in UselessVerdict(k)
  BY Zenon DEF UselessLastReports
<1>5. <<n, l>> \in RwLastReports <=> \E k \in Locks : <<n, l>> \in RwVerdict(k)
  BY Zenon DEF RwLastReports
<1>6. <<n, l>> \in RecLastReports <=> \E k \in Locks : <<n, l>> \in RecVerdict(k)
  BY Zenon DEF RecLastReports
<1> QED
  BY <1>1, <1>2, <1>3, <1>4, <1>5, <1>6

\* The words of the verdicts; the other analyzers' reports are not pairs.
LEMMA VerdictWords ==
    ASSUME NEW n, NEW l
    PROVE  /\ <<n, l>> \in UselessVerdict(l) => n \in {"never locked", "one thread"}
           /\ <<n, l>> \in RwVerdict(l) => n \in {"only read", "only written"}
           /\ <<n, l>> \in RecVerdict(l) => n = "not recursive"
           /\ \A pick : <<n, l>> \notin ShadowLastReports(pick)
<1>1. <<n, l>> \in UselessVerdict(l) => n \in {"never locked", "one thread"}
  BY DEF UselessVerdict
<1>2. <<n, l>> \in RwVerdict(l) => n \in {"only read", "only written"}
  BY DEF RwVerdict
<1>3. <<n, l>> \in RecVerdict(l) => n = "not recursive"
  BY DEF RecVerdict
<1>4. \A pick : <<n, l>> \notin ShadowLastReports(pick)
  BY DEF ShadowLastReports, ShadowReport
<1> QED
  BY <1>1, <1>2, <1>3, <1>4

-----------------------------------------------------------------------------
(* useless-lock.                                                           *)

\* The analyzer's entry says how many threads have asked, up to the second.
UselessRight(l) ==
    IF object[l].alive
    THEN /\ IsFiniteSet(attempts[l])
         /\ useless[l] = "never" <=> attempts[l] = {}
         /\ \A t \in Threads : useless[l] = t <=> attempts[l] = {t}
    ELSE useless[l] = "untracked"

UselessTypes ==
    /\ useless \in [Locks -> {"untracked", "never"} \cup Threads]
    /\ attempts \in [Locks -> SUBSET Threads]

UselessInv ==
    /\ UselessTypes
    /\ "useless-lock" \in Analyzers /\ analysis # "terminated" =>
           \A l \in Locks \ StaticLocks : UselessRight(l)

LEMMA OneMore ==
    ASSUME NEW S, NEW t, NEW v, S \cup {t} = {v}
    PROVE  t = v /\ (S = {} \/ S = {v})
BY SMT

LEMMA InitUseless == Init => UselessInv
<1> SUFFICES ASSUME Init PROVE UselessInv
  OBVIOUS
<1>1. UselessTypes
  BY DEF Init, UselessInit, UselessTypes
<1>2. ASSUME NEW l \in Locks \ StaticLocks PROVE UselessRight(l)
  BY DEF Init, SyncInit, UselessInit, UselessRight
<1> QED
  BY <1>1, <1>2 DEF UselessInv

LEMMA UselessFrame ==
    ASSUME NEW l, object'[l].alive = object[l].alive, useless'[l] = useless[l],
           attempts'[l] = attempts[l], UselessRight(l)
    PROVE  UselessRight(l)'
BY DEF UselessRight

LEMMA UselessTypesNext ==
    ASSUME UselessTypes, Quiet(event') \/ LockEvent(event'),
           (UselessHandle(event') /\ UselessObserve) \/ UNCHANGED uselessVars
    PROVE  UselessTypes'
<1>1. CASE UNCHANGED uselessVars
  BY <1>1 DEF uselessVars, UselessTypes
<1>2. CASE UselessHandle(event') /\ UselessObserve
  <2>1. attempts' \in [Locks -> SUBSET Threads]
    BY <1>2 DEF UselessObserve, UselessTypes
  <2>2. CASE useless' = useless
    BY <2>1, <2>2 DEF UselessTypes
  <2>3. CASE \E l \in Locks, v \in {"untracked", "never"} \cup Threads :
                 useless' = [useless EXCEPT ![l] = v]
    BY <2>1, <2>3 DEF UselessTypes
  <2>4. CASE Quiet(event')
    BY <1>2, <2>2, <2>4 DEF UselessHandle, Quiet
  <2>5. CASE LockEvent(event')
    <3>1. \A l, t : t \in Threads => SetThread(l, t) \in {"untracked", "never"} \cup Threads
      BY DEF SetThread
    <3> QED
      BY <1>2, <2>2, <2>3, <2>5, <3>1 DEF UselessHandle, LockEvent
  <2> QED
    BY <2>4, <2>5, <1>2
<1> QED
  BY <1>1, <1>2

\* Steps that are no lock's creation, destruction or request.
LEMMA UselessPasses ==
    ASSUME UselessTypes, UselessHandle(event'), UselessObserve, UNCHANGED object,
           event'.bits = "thread" \/ event'.type \notin {"create", "destroy", "before", "try"},
           \A t \in Threads, l \in Locks : ~Asked(t, l)
    PROVE  useless' = useless /\ attempts' = attempts
<1>1. useless' = useless
  BY DEF UselessHandle
<1>2. \A l \in Locks : attempts'[l] = attempts[l]
  BY DEF UselessObserve
<1>3. attempts' \in [Locks -> SUBSET Threads] /\ attempts \in [Locks -> SUBSET Threads]
  BY DEF UselessObserve, UselessTypes
<1> QED
  BY <1>1, <1>2, <1>3

LEMMA CreateUseless ==
    ASSUME SyncInv, UselessTypes, UselessHandle(event'), UselessObserve,
           \A l \in Locks \ StaticLocks : UselessRight(l),
           NEW t \in Threads, NEW l \in Locks, NEW k \in Kinds, CreateLock(t, l, k)
    PROVE  \A x \in Locks \ StaticLocks : UselessRight(x)'
<1>1. /\ object' = [object EXCEPT ![l] = [alive |-> TRUE, kind |-> k, id |-> creations + 1]]
      /\ ~object[l].alive
      /\ event' = Event("create", "none", k, l, t)
  BY DEF CreateLock
<1>2. /\ event'.type = "create" /\ event'.object = l /\ event'.bits = k /\ k # "thread"
  BY <1>1, KindsAssumption DEF Event
<1>3. l \notin StaticLocks /\ useless[l] = "untracked"
  BY <1>1 DEF SyncInv, UselessRight
<1>4. useless' = [useless EXCEPT ![l] = "never"]
  BY <1>2, <1>3 DEF UselessHandle
<1>5. \A u \in Threads, x \in Locks : ~Asked(u, x)
  BY NotAsked
<1>6. /\ \A x \in Locks : x # l => object'[x] = object[x]
      /\ object'[l].id = creations + 1 /\ object[l].id <= creations /\ object[l].id \in Nat
      /\ creations \in Nat
  BY <1>1, BoundsAssumption DEF SyncInv, SyncTypeOK
<1>7. attempts'[l] = {} /\ \A x \in Locks : x # l => attempts'[x] = attempts[x]
  <2>1. object'[l].id # object[l].id
    BY <1>6
  <2>2. attempts'[l] = {}
    BY <2>1 DEF UselessObserve
  <2>3. \A x \in Locks : x # l => attempts'[x] = attempts[x]
    BY <1>5, <1>6 DEF UselessObserve
  <2> QED
    BY <2>2, <2>3
<1>8. useless'[l] = "never" /\ \A x \in Locks : x # l => useless'[x] = useless[x]
  BY <1>4 DEF UselessTypes
<1>9. UselessRight(l)'
  <2>1. object'[l].alive
    BY <1>1 DEF SyncInv, SyncTypeOK
  <2>2. \A u \in Threads : u # "never" /\ attempts'[l] # {u}
    BY <1>7, MarksAssumption
  <2> QED
    <3>1. IsFiniteSet({})
      BY FS_EmptySet
    <3>2. IsFiniteSet(attempts'[l])
      BY <1>7, <3>1
    <3> QED
      BY <1>7, <1>8, <2>1, <2>2, <3>2 DEF UselessRight
<1> QED
  BY <1>6, <1>7, <1>8, <1>9, UselessFrame

LEMMA DestroyUseless ==
    ASSUME SyncInv, UselessTypes, UselessHandle(event'), UselessObserve,
           \A l \in Locks \ StaticLocks : UselessRight(l),
           NEW t \in Threads, NEW l \in Locks, DestroyLock(t, l)
    PROVE  /\ \A x \in Locks \ StaticLocks : UselessRight(x)'
           /\ attempts' = attempts
<1>1. /\ object' = [object EXCEPT ![l].alive = FALSE]
      /\ event' = Event("destroy", "none", Bits(l), l, t)
  BY DEF DestroyLock
<1>2. event'.type = "destroy" /\ event'.object = l /\ event'.bits # "thread"
  BY <1>1 DEF Event, Bits
<1>3. useless' = [useless EXCEPT ![l] = "untracked"]
  BY <1>2 DEF UselessHandle
<1>4. \A u \in Threads, x \in Locks : ~Asked(u, x)
  BY NotAsked
<1>5. /\ \A x \in Locks : x # l => object'[x] = object[x]
      /\ \A x \in Locks : object'[x].id = object[x].id
      /\ ~object'[l].alive
  BY <1>1 DEF SyncInv, SyncTypeOK
<1>6. attempts' = attempts
  <2>1. \A x \in Locks : attempts'[x] = attempts[x]
    BY <1>4, <1>5 DEF UselessObserve
  <2>2. attempts' \in [Locks -> SUBSET Threads] /\ attempts \in [Locks -> SUBSET Threads]
    BY DEF UselessObserve, UselessTypes
  <2> QED
    BY <2>1, <2>2
<1>7. useless'[l] = "untracked" /\ \A x \in Locks : x # l => useless'[x] = useless[x]
  BY <1>3 DEF UselessTypes
<1>8. UselessRight(l)'
  BY <1>5, <1>7 DEF UselessRight
<1> QED
  BY <1>5, <1>6, <1>7, <1>8, UselessFrame

LEMMA RequestUseless ==
    ASSUME SyncInv, UselessTypes, UselessHandle(event'), UselessObserve,
           \A l \in Locks \ StaticLocks : UselessRight(l),
           NEW t \in Threads, NEW l \in Locks, NEW type \in {"before", "try"},
           NEW m, RequestLock(t, l, m, type)
    PROVE  \A x \in Locks \ StaticLocks : UselessRight(x)'
<1>1. /\ UNCHANGED object /\ object[l].alive
      /\ event' = Event(type, m, Bits(l), l, t)
  BY DEF RequestLock
<1>2. /\ event'.type = type /\ event'.object = l /\ event'.bits # "thread"
      /\ event'.thread = t
  BY <1>1 DEF Event, Bits
<1>3. \A u \in Threads, x \in Locks : Asked(u, x) <=> u = t /\ x = l
  BY RequestAsks
<1>4. /\ attempts'[l] = attempts[l] \cup {t}
      /\ \A x \in Locks : x # l => attempts'[x] = attempts[x]
  BY <1>1, <1>3 DEF UselessObserve
<1>5. /\ \A x \in Locks : x # l => useless'[x] = useless[x]
      /\ useless'[l] = IF useless[l] = "untracked" THEN "untracked" ELSE SetThread(l, t)
  BY <1>2 DEF UselessHandle, UselessTypes
<1>6. ASSUME l \notin StaticLocks
      PROVE  UselessRight(l)'
  <2>1. /\ IsFiniteSet(attempts[l])
        /\ useless[l] = "never" <=> attempts[l] = {}
        /\ \A u \in Threads : useless[l] = u <=> attempts[l] = {u}
        /\ useless[l] \in {"untracked", "never"} \cup Threads
    BY <1>1, <1>6 DEF UselessRight, UselessTypes
  <2>2. IsFiniteSet(attempts'[l])
    <3>1. IsFiniteSet(attempts[l] \cup {t})
      BY <2>1, FS_AddElement
    <3> QED
      BY <1>4, <3>1
  <2>3. CASE useless[l] = "never"
    <3>1. useless'[l] = t /\ attempts'[l] = {t}
      BY <1>4, <1>5, <2>1, <2>3 DEF SetThread
    <3> QED
      BY <1>1, <2>2, <3>1, MarksAssumption DEF UselessRight
  <2>4. CASE useless[l] = t
    <3>1. useless'[l] = t /\ attempts'[l] = {t}
      BY <1>4, <1>5, <2>1, <2>4, MarksAssumption DEF SetThread
    <3> QED
      BY <1>1, <2>2, <3>1, MarksAssumption DEF UselessRight
  <2>5. CASE useless[l] \notin {"never", t}
    <3>1. useless'[l] = "untracked"
      BY <1>5, <2>5 DEF SetThread
    <3>2. attempts[l] # {} /\ attempts[l] # {t}
      BY <2>1, <2>5
    <3>3. \A u \in Threads : attempts'[l] # {u}
      BY <1>4, <3>2, OneMore
    <3>4. attempts'[l] # {}
      BY <1>4
    <3> QED
      BY <1>1, <2>2, <3>1, <3>3, <3>4, MarksAssumption DEF UselessRight
  <2> QED
    BY <2>3, <2>4, <2>5
<1> QED
  BY <1>1, <1>4, <1>5, <1>6, UselessFrame

LEMMA NextUseless == SyncInv /\ UselessInv /\ [Next]_vars => UselessInv'
<1> SUFFICES ASSUME SyncInv, UselessInv, [Next]_vars PROVE UselessInv'
  OBVIOUS
<1>1. CASE UNCHANGED <<object, uselessVars>> /\ (analysis = "terminated" => analysis' = analysis)
  <2>1. UselessTypes'
    BY <1>1 DEF UselessInv, UselessTypes, uselessVars
  <2>2. \A l : UselessRight(l) => UselessRight(l)'
    BY <1>1, UselessFrame DEF uselessVars
  <2> QED
    BY <1>1, <2>1, <2>2 DEF UselessInv
<1>2. CASE ProgramStep
  <2>1. PICK pick \in Picks : Handled(pick) \/ Terminated
    BY <1>2, HandleCases
  <2>2. analysis = "running" /\ SyncNext
    BY <1>2, HandleCases
  <2>3. CASE Terminated
    BY <2>3 DEF Terminated, analyzerVars, uselessVars, UselessInv, UselessTypes
  <2>4. CASE Handled(pick) /\ "useless-lock" \notin Analyzers
    BY <2>4 DEF Handled, Analyze, uselessVars, UselessInv, UselessTypes
  <2>5. CASE Handled(pick) /\ "useless-lock" \in Analyzers
    <3>1. UselessHandle(event') /\ UselessObserve
      BY <2>5 DEF Handled, Analyze
    <3>2. UselessTypes /\ \A l \in Locks \ StaticLocks : UselessRight(l)
      BY <2>2, <2>5 DEF UselessInv
    <3>3. UselessTypes'
      BY <2>2, <3>1, <3>2, EventCases, UselessTypesNext
    <3>4. PICK t \in Threads :
              \/ \E l \in Locks, k \in Kinds : CreateLock(t, l, k)
              \/ \E l \in Locks : DestroyLock(t, l)
              \/ \E l \in Locks, type \in {"before", "try"} :
                     \E m \in Modes(l) : RequestLock(t, l, m, type)
              \/ Acquire(t) \/ AcquireFails(t) \/ CaptureAcquired(t)
              \/ \E l \in Locks : CaptureUnlock(t, l)
              \/ Release(t)
              \/ ThreadStep(t)
      BY <2>2, ProgramCases
    <3>5. CASE \E l \in Locks, k \in Kinds : CreateLock(t, l, k)
      BY <3>1, <3>2, <3>3, <3>5, CreateUseless DEF UselessInv
    <3>6. CASE \E l \in Locks : DestroyLock(t, l)
      BY <3>1, <3>2, <3>3, <3>6, DestroyUseless DEF UselessInv
    <3>7. CASE \E l \in Locks, type \in {"before", "try"} :
                   \E m \in Modes(l) : RequestLock(t, l, m, type)
      BY <3>1, <3>2, <3>3, <3>7, RequestUseless DEF UselessInv
    <3>8. CASE \/ Acquire(t) \/ AcquireFails(t) \/ CaptureAcquired(t)
               \/ \E l \in Locks : CaptureUnlock(t, l)
               \/ Release(t)
               \/ ThreadStep(t)
      <4>1. \A u \in Threads, l \in Locks : ~Asked(u, l)
        BY <3>8, NotAsked
      <4>2. /\ UNCHANGED object
            /\ event'.bits = "thread" \/ event'.type \notin {"create", "destroy", "before", "try"}
        <5>1. CASE CaptureAcquired(t) \/ \E l \in Locks : CaptureUnlock(t, l)
          BY <5>1 DEF CaptureAcquired, CaptureUnlock, Event
        <5>2. CASE ThreadStep(t) \/ Acquire(t) \/ AcquireFails(t) \/ Release(t)
          BY <5>2, QuietSteps DEF Quiet
        <5> QED
          BY <3>8, <5>1, <5>2
      <4>3. useless' = useless /\ attempts' = attempts
        BY <3>1, <3>2, <4>1, <4>2, UselessPasses
      <4>4. \A l \in Locks \ StaticLocks : UselessRight(l)'
        BY <3>2, <4>2, <4>3, UselessFrame
      <4> QED
        BY <3>3, <4>4 DEF UselessInv
    <3> QED
      BY <3>4, <3>5, <3>6, <3>7, <3>8
  <2> QED
    BY <2>1, <2>3, <2>4, <2>5
<1> QED
  BY <1>1, <1>2 DEF Next, ShutDown, vars, syncVars, analyzerVars

\* For a live lock the entry of useless-lock counts who has asked for it: nobody,
\* this one thread, or more.
THEOREM UselessInvariance == Spec => []UselessInv
BY InitUseless, NextUseless, ProgramInvariance, PTL DEF Spec

\* What the verdict says of a lock whose entry is right.
LEMMA UselessVerdictRight ==
    ASSUME UselessTypes, NEW l \in Locks, object[l].alive, UselessRight(l)
    PROVE  /\ <<"never locked", l>> \in UselessVerdict(l) <=> attempts[l] = {}
           /\ <<"one thread", l>> \in UselessVerdict(l) <=> Cardinality(attempts[l]) = 1
<1>1. /\ IsFiniteSet(attempts[l])
      /\ useless[l] = "never" <=> attempts[l] = {}
      /\ \A t \in Threads : useless[l] = t <=> attempts[l] = {t}
      /\ useless[l] \in {"untracked", "never"} \cup Threads
      /\ attempts[l] \subseteq Threads
  BY DEF UselessRight, UselessTypes
<1>2. Cardinality(attempts[l]) = 1 <=> \E t \in Threads : attempts[l] = {t}
  BY <1>1, FS_Singleton
<1>3. <<"never locked", l>> \in UselessVerdict(l) <=> useless[l] = "never"
  BY DEF UselessVerdict
<1>4. <<"one thread", l>> \in UselessVerdict(l) <=> useless[l] \notin {"untracked", "never"}
  BY DEF UselessVerdict
<1> QED
  BY <1>1, <1>2, <1>3, <1>4, MarksAssumption

\* A lock is judged when it is destroyed or when the analysis ends.
LEMMA JudgedCases ==
    ASSUME SyncInv, Next, NEW l \in Locks, Judged(l)'
    PROVE  /\ l \notin StaticLocks
           /\ \/ /\ \E t \in Threads : DestroyLock(t, l)
                 /\ \E pick \in Picks : Handled(pick)
                 /\ event'.type = "destroy" /\ event'.object = l
              \/ /\ ShutDown /\ analysis' = "done"
                 /\ \E pick \in Picks : /\ LastLookups(pick) \subseteq Known(db)
                                        /\ reported' = LastReports(pick)
                 /\ object[l].alive /\ Settled(l)
<1>1. l \notin StaticLocks
  BY DEF Judged
<1>2. CASE ProgramStep
  <2>1. analysis' \in {"running", "terminated"}
    BY <1>2, HandleCases DEF Handled, Terminated
  <2>2. event'.type = "destroy" /\ event'.object = l /\ analysis' = "running"
    BY <2>1 DEF Judged
  <2>3. \E pick \in Picks : Handled(pick)
    BY <1>2, <2>2, HandleCases DEF Terminated
  <2>4. PICK t \in Threads :
             \/ \E x \in Locks, k \in Kinds : CreateLock(t, x, k)
             \/ \E x \in Locks : DestroyLock(t, x)
             \/ \E x \in Locks, type \in {"before", "try"} :
                    \E m \in Modes(x) : RequestLock(t, x, m, type)
             \/ Acquire(t) \/ AcquireFails(t) \/ CaptureAcquired(t)
             \/ \E x \in Locks : CaptureUnlock(t, x)
             \/ Release(t)
             \/ ThreadStep(t)
    BY <1>2, HandleCases, ProgramCases
  <2>5. ~(Acquire(t) \/ AcquireFails(t) \/ Release(t) \/ ThreadStep(t))
    BY <2>2, QuietSteps DEF Quiet
  <2>6. \E x \in Locks : DestroyLock(t, x)
    BY <2>2, <2>4, <2>5 DEF CreateLock, RequestLock, CaptureAcquired, CaptureUnlock, Event
  <2>7. DestroyLock(t, l)
    BY <2>2, <2>6 DEF DestroyLock, Event
  <2> QED
    BY <1>1, <2>2, <2>3, <2>7
<1>3. CASE ShutDown
  <2>1. event'.type # "destroy" /\ UNCHANGED <<object, pc>>
    BY <1>3 DEF ShutDown, NoEvent
  <2>2. analysis' = "done" /\ object[l].alive /\ Settled(l)
    BY <2>1 DEF Judged, Settled
  <2>3. \E pick \in Picks : /\ LastLookups(pick) \subseteq Known(db)
                           /\ reported' = LastReports(pick)
    BY <1>3, <2>2 DEF ShutDown
  <2> QED
    BY <1>1, <1>3, <2>2, <2>3
<1> QED
  BY <1>2, <1>3 DEF Next

LEMMA UselessExactNext ==
    SyncInv /\ UselessInv /\ UselessExact /\ "useless-lock" \in Analyzers /\ [Next]_vars
        => UselessExact'
<1> SUFFICES ASSUME SyncInv, UselessInv, UselessExact, "useless-lock" \in Analyzers,
                    [Next]_vars
             PROVE  UselessExact'
  OBVIOUS
<1>1. CASE UNCHANGED vars
  BY <1>1 DEF UselessExact, Judged, Settled, vars, syncVars, analyzerVars, uselessVars
<1>2. CASE Next
  <2> SUFFICES ASSUME NEW l \in Locks, Judged(l)'
               PROVE  /\ <<"never locked", l>> \in reported' <=> attempts'[l] = {}
                      /\ <<"one thread", l>> \in reported' <=> Cardinality(attempts'[l]) = 1
    BY DEF UselessExact
  <2>1. l \notin StaticLocks
    BY <1>2, JudgedCases
  <2>2. CASE /\ \E t \in Threads : DestroyLock(t, l)
             /\ \E pick \in Picks : Handled(pick)
             /\ event'.type = "destroy" /\ event'.object = l
    <3>1. PICK t \in Threads : DestroyLock(t, l)
      BY <2>2
    <3>2. PICK pick \in Picks : Handled(pick)
      BY <2>2
    <3>3. object[l].alive /\ event'.bits # "thread" /\ analysis = "running"
      BY <1>2, <3>1, <3>2 DEF DestroyLock, Event, Bits, Next, ShutDown, ProgramStep, Handled
    <3>4. UselessRight(l) /\ UselessTypes /\ \A x \in Locks \ StaticLocks : UselessRight(x)
      BY <2>1, <3>3 DEF UselessInv
    <3>5. UselessHandle(event') /\ UselessObserve
      BY <3>2 DEF Handled, Analyze
    <3>6. attempts' = attempts
      BY <3>1, <3>4, <3>5, DestroyUseless
    <3>7. UselessReports(event') = UselessVerdict(l)
      BY <2>2, <3>3 DEF UselessReports
    <3>8. ASSUME NEW n \in {"never locked", "one thread"}
          PROVE  <<n, l>> \in reported' <=> <<n, l>> \in UselessVerdict(l)
      <4>1. reported' = Reports(event', Before(event'), pick)
        BY <3>2 DEF Handled
      <4>2. /\ <<n, l>> \notin RwReports(event')
            /\ <<n, l>> \notin ShadowReports(event', Before(event'), pick)
            /\ <<n, l>> \notin RecReports(event', Before(event'))
            /\ <<n, l>> \notin OrderReports(event')
        BY <3>8, ReportWords
      <4> QED
        BY <3>7, <4>1, <4>2, Zenon DEF Reports
    <3> QED
      BY <3>3, <3>4, <3>6, <3>8, UselessVerdictRight
  <2>3. CASE /\ ShutDown /\ analysis' = "done"
             /\ \E pick \in Picks : reported' = LastReports(pick)
             /\ object[l].alive /\ Settled(l)
    <3>1. PICK pick \in Picks : reported' = LastReports(pick)
      BY <2>3
    <3>2. UselessRight(l) /\ UselessTypes /\ attempts' = attempts
      BY <2>1, <2>3 DEF UselessInv, ShutDown, analyzerVars, uselessVars
    <3>3. ASSUME NEW n \in {"never locked", "one thread"}
          PROVE  <<n, l>> \in reported' <=> <<n, l>> \in UselessVerdict(l)
      <4>1. <<n, l>> \in UselessLastReports <=> <<n, l>> \in UselessVerdict(l)
        BY LastVerdicts
      <4>2. <<n, l>> \notin RwLastReports /\ <<n, l>> \notin RecLastReports
        BY <3>3, LastVerdicts, VerdictWords
      <4>3. <<n, l>> \notin ShadowLastReports(pick)
        BY VerdictWords
      <4> QED
        BY <3>1, <4>1, <4>2, <4>3, Zenon DEF LastReports
    <3> QED
      BY <2>3, <3>2, <3>3, UselessVerdictRight
  <2> QED
    BY <1>2, <2>2, <2>3, JudgedCases
<1> QED
  BY <1>1, <1>2

\* useless-lock says "never locked" of exactly the locks nobody asked for and
\* "one thread" of exactly those that one thread id asked for, for any number of
\* threads and locks and however addresses are used again.
THEOREM UselessLockIsExact ==
    ASSUME "useless-lock" \in Analyzers
    PROVE  Spec => []UselessExact
<1>1. Init => UselessExact
  BY DEF Init, SyncInit, UselessExact, Judged
<1>2. SyncInv /\ UselessInv /\ UselessExact /\ [Next]_vars => UselessExact'
  BY UselessExactNext
<1> QED
  BY <1>1, <1>2, ProgramInvariance, UselessInvariance, PTL DEF Spec

-----------------------------------------------------------------------------
(* What the pthread calls do, as the histories of the analyzers see it.    *)

\* The calls that wait for the capture after an acquisition, or for the release
\* after the capture of an unlock, stay as they are.
WaitsStay ==
    \A u \in Threads, x \in Locks : \A o \in {"acquired", "unlock"} :
        /\ Doing(u, o, x)' <=> Doing(u, o, x)
        /\ Doing(u, o, x) => pc'[u] = pc[u]

LEMMA WaitsElsewhere ==
    ASSUME pc \in [Threads -> Operations], NEW t \in Threads, NEW op,
           pc' = [pc EXCEPT ![t] = op],
           op[1] \notin {"acquired", "unlock"}, pc[t][1] \notin {"acquired", "unlock"}
    PROVE  WaitsStay
BY DEF WaitsStay, Doing

LEMMA WaitSteps ==
    ASSUME SyncInv, NEW t \in Threads,
           \/ \E l \in Locks, k \in Kinds : CreateLock(t, l, k)
           \/ \E l \in Locks : DestroyLock(t, l)
           \/ \E l \in Locks, type \in {"before", "try"} :
                  \E m \in Modes(l) : RequestLock(t, l, m, type)
           \/ AcquireFails(t) \/ ThreadStep(t)
    PROVE  WaitsStay /\ UNCHANGED <<held, shared>>
<1>1. pc \in [Threads -> Operations]
  BY DEF SyncInv, SyncTypeOK
<1>2. CASE \/ \E l \in Locks, k \in Kinds : CreateLock(t, l, k)
           \/ \E l \in Locks : DestroyLock(t, l)
  BY <1>2 DEF CreateLock, DestroyLock, WaitsStay, Doing
<1>3. CASE \E l \in Locks, type \in {"before", "try"} :
               \E m \in Modes(l) : RequestLock(t, l, m, type)
  <2>1. PICK l \in Locks, type \in {"before", "try"}, m \in {"rd", "wr"} :
            RequestLock(t, l, m, type)
    BY <1>3 DEF Modes
  <2>2. PICK op : op = <<type, l, m>>
    OBVIOUS
  <2>3. op[1] = type /\ pc[t] = Idle /\ pc' = [pc EXCEPT ![t] = op]
    BY <2>1, <2>2 DEF RequestLock, Ready
  <2>4. op[1] \notin {"acquired", "unlock"} /\ pc[t][1] \notin {"acquired", "unlock"}
    BY <2>3, IdleFacts DEF LockSteps
  <2> QED
    BY <1>1, <2>1, <2>3, <2>4, WaitsElsewhere DEF RequestLock
<1>4. CASE AcquireFails(t)
  <2>1. pc[t][1] \in {"before", "try"} /\ pc' = [pc EXCEPT ![t] = Idle]
    BY <1>4 DEF AcquireFails, Requesting
  <2>2. Idle[1] \notin {"acquired", "unlock"} /\ pc[t][1] \notin {"acquired", "unlock"}
    BY <2>1, IdleFacts DEF LockSteps
  <2> QED
    BY <1>1, <1>4, <2>1, <2>2, WaitsElsewhere DEF AcquireFails
<1>5. CASE ThreadStep(t)
  <2>1. CallsStay /\ UNCHANGED <<held, shared>>
    BY <1>5, ThreadStepFrame DEF SyncInv
  <2> QED
    BY <2>1 DEF CallsStay, WaitsStay, LockSteps
<1> QED
  BY <1>2, <1>3, <1>4, <1>5

\* Thread t takes l in mode m.
Takes(t, l, m) ==
    /\ UNCHANGED <<object, thread, creations>> /\ event' = NoEvent
    /\ object[l].alive /\ m \in Modes(l)
    /\ m = "rd" => object[l].kind = "rwlock"
    /\ \A u \in Threads : held[u][l] = 0 \/ (u = t /\ object[l].kind = "rec_mutex")
    /\ m = "wr" => \A u \in Threads : shared[u][l] = 0
    /\ m = "rd" => \A u \in Threads : held[u][l] = 0
    /\ \A u \in Threads, x \in Locks :
           /\ held'[u][x] = IF u = t /\ x = l /\ m = "wr" THEN held[u][x] + 1 ELSE held[u][x]
           /\ shared'[u][x] = IF u = t /\ x = l /\ m = "rd" THEN shared[u][x] + 1
                              ELSE shared[u][x]
    /\ \A x : ~Doing(t, "acquired", x) /\ ~Doing(t, "unlock", x)
    /\ \A x : (Doing(t, "acquired", x)' <=> x = l) /\ ~Doing(t, "unlock", x)'
    /\ pc'[t][3] = m
    /\ \A u \in Threads : u # t => pc'[u] = pc[u]

LEMMA AcquireTakes ==
    ASSUME SyncInv, NEW t \in Threads, Acquire(t)
    PROVE  \E l \in Locks, m \in {"rd", "wr"} : Takes(t, l, m)
<1>1. PICK l, m : l = pc[t][2] /\ m = pc[t][3]
  OBVIOUS
<1>2. /\ pc' = [pc EXCEPT ![t] = <<"acquired", l, m>>]
      /\ UNCHANGED <<object, thread, creations>> /\ event' = NoEvent
      /\ Requesting(t) /\ Available(t, pc[t][2], pc[t][3])
      /\ m = "wr" => held' = [held EXCEPT ![t][l] = @ + 1] /\ shared' = shared
      /\ m # "wr" => shared' = [shared EXCEPT ![t][l] = @ + 1] /\ held' = held
  BY <1>1 DEF Acquire
<1>3. /\ pc[t][1] \in {"before", "try"}
      /\ l \in Locks /\ m \in {"rd", "wr"} /\ object[l].alive
      /\ m = "rd" => object[l].kind = "rwlock"
      /\ m \in Modes(l)
  <2>1. pc[t][1] \in LockSteps /\ pc[t][1] # "unlock" /\ pc[t][1] \in {"before", "try"}
    BY <1>2 DEF Requesting, LockSteps
  <2> QED
    BY <1>1, <2>1, CallFacts DEF Modes
<1>4. /\ \A u \in Threads : held[u][l] = 0 \/ (u = t /\ object[l].kind = "rec_mutex")
      /\ m = "wr" => \A u \in Threads : shared[u][l] = 0
      /\ m = "rd" => \A u \in Threads : held[u][l] = 0
  BY <1>1, <1>2, AvailableMeaning
<1>5. \A u \in Threads, x \in Locks :
          /\ held'[u][x] = IF u = t /\ x = l /\ m = "wr" THEN held[u][x] + 1 ELSE held[u][x]
          /\ shared'[u][x] = IF u = t /\ x = l /\ m = "rd" THEN shared[u][x] + 1
                             ELSE shared[u][x]
  BY <1>2, <1>3, BoundsAssumption DEF SyncInv, SyncTypeOK
<1>6. PICK op : op = <<"acquired", l, m>>
  OBVIOUS
<1>7. op[1] = "acquired" /\ op[2] = l /\ op[3] = m
  BY <1>6
<1>8. pc \in [Threads -> Operations] /\ pc' = [pc EXCEPT ![t] = op]
  BY <1>2, <1>6 DEF SyncInv, SyncTypeOK
<1>9. pc'[t] = op /\ \A u \in Threads : u # t => pc'[u] = pc[u]
  BY <1>8
<1>10. \A x : ~Doing(t, "acquired", x) /\ ~Doing(t, "unlock", x)
  BY <1>3 DEF Doing
<1>11. \A x : (Doing(t, "acquired", x)' <=> x = l) /\ ~Doing(t, "unlock", x)'
  BY <1>7, <1>9 DEF Doing
<1>12. Takes(t, l, m)
  BY <1>2, <1>3, <1>4, <1>5, <1>7, <1>9, <1>10, <1>11 DEF Takes
<1> QED
  BY <1>3, <1>12

\* Thread t lets go of l, which it has exclusively or shares.
LetsGo(t, l) ==
    /\ UNCHANGED <<object, thread, creations>> /\ event' = NoEvent
    /\ Doing(t, "unlock", l)
    /\ held[t][l] > 0 \/ shared[t][l] > 0
    /\ \A u \in Threads, x \in Locks :
           /\ held'[u][x] = IF u = t /\ x = l /\ held[t][l] > 0 THEN held[u][x] - 1
                            ELSE held[u][x]
           /\ shared'[u][x] = IF u = t /\ x = l /\ ~(held[t][l] > 0) THEN shared[u][x] - 1
                              ELSE shared[u][x]
    /\ \A x : ~Doing(t, "acquired", x)
    /\ \A x : ~Doing(t, "acquired", x)' /\ ~Doing(t, "unlock", x)'
    /\ \A u \in Threads : u # t => pc'[u] = pc[u]

LEMMA ReleaseLetsGo ==
    ASSUME SyncInv, NEW t \in Threads, Release(t)
    PROVE  \E l \in Locks : LetsGo(t, l)
<1>1. PICK l : l = pc[t][2]
  OBVIOUS
<1>2. /\ pc[t][1] = "unlock" /\ pc' = [pc EXCEPT ![t] = Idle]
      /\ UNCHANGED <<object, thread, creations>> /\ event' = NoEvent
      /\ held[t][l] > 0 => held' = [held EXCEPT ![t][l] = @ - 1] /\ shared' = shared
      /\ ~(held[t][l] > 0) => shared' = [shared EXCEPT ![t][l] = @ - 1] /\ held' = held
  BY <1>1 DEF Release
<1>3. l \in Locks /\ Doing(t, "unlock", l) /\ (held[t][l] > 0 \/ shared[t][l] > 0)
  BY <1>1, <1>2, CallFacts DEF LockSteps, SyncInv, CallInv
<1>4. \A u \in Threads, x \in Locks :
          /\ held'[u][x] = IF u = t /\ x = l /\ held[t][l] > 0 THEN held[u][x] - 1
                           ELSE held[u][x]
          /\ shared'[u][x] = IF u = t /\ x = l /\ ~(held[t][l] > 0) THEN shared[u][x] - 1
                             ELSE shared[u][x]
  BY <1>2, <1>3, BoundsAssumption DEF SyncInv, SyncTypeOK
<1>5. pc'[t] = Idle /\ \A u \in Threads : u # t => pc'[u] = pc[u]
  BY <1>2 DEF SyncInv, SyncTypeOK
<1>6. \A x : ~Doing(t, "acquired", x)
  BY <1>2 DEF Doing
<1>7. \A x : ~Doing(t, "acquired", x)' /\ ~Doing(t, "unlock", x)'
  BY <1>5, IdleFacts DEF Doing, LockSteps
<1>8. LetsGo(t, l)
  BY <1>2, <1>3, <1>4, <1>5, <1>6, <1>7 DEF LetsGo
<1> QED
  BY <1>3, <1>8

\* The capture after an acquisition, and the one that begins an unlock.
CapturesTaken(t, l, m) ==
    /\ UNCHANGED <<object, held, shared, thread, creations>>
    /\ event' = Event("after", m, Bits(l), l, t)
    /\ Doing(t, "acquired", l) /\ pc[t][3] = m /\ m \in Modes(l)
    /\ \A x : ~Doing(t, "unlock", x)
    /\ \A x : ~Doing(t, "acquired", x)' /\ ~Doing(t, "unlock", x)'
    /\ \A u \in Threads : u # t => pc'[u] = pc[u]

LEMMA CaptureTakes ==
    ASSUME SyncInv, NEW t \in Threads, CaptureAcquired(t)
    PROVE  \E l \in Locks, m \in {"rd", "wr"} : CapturesTaken(t, l, m)
<1>1. PICK l, m : l = pc[t][2] /\ m = pc[t][3]
  OBVIOUS
<1>2. /\ pc[t][1] = "acquired" /\ pc' = [pc EXCEPT ![t] = Idle]
      /\ event' = Event("after", m, Bits(l), l, t)
      /\ UNCHANGED <<object, held, shared, thread, creations>>
  BY <1>1 DEF CaptureAcquired
<1>3. l \in Locks /\ m \in {"rd", "wr"} /\ Doing(t, "acquired", l) /\ m \in Modes(l)
  BY <1>1, <1>2, CallFacts DEF LockSteps, SyncInv, CallInv
<1>4. pc'[t] = Idle /\ \A u \in Threads : u # t => pc'[u] = pc[u]
  BY <1>2 DEF SyncInv, SyncTypeOK
<1>5. \A x : ~Doing(t, "unlock", x)
  BY <1>2 DEF Doing
<1>6. \A x : ~Doing(t, "acquired", x)' /\ ~Doing(t, "unlock", x)'
  BY <1>4, IdleFacts DEF Doing, LockSteps
<1>7. CapturesTaken(t, l, m)
  BY <1>1, <1>2, <1>3, <1>4, <1>5, <1>6 DEF CapturesTaken
<1> QED
  BY <1>3, <1>7

CapturesUnlock(t, l) ==
    /\ UNCHANGED <<object, held, shared, thread, creations>>
    /\ event' = Event("unlock", "none", Bits(l), l, t)
    /\ held[t][l] > 0 \/ shared[t][l] > 0
    /\ \A x : ~Doing(t, "acquired", x) /\ ~Doing(t, "unlock", x)
    /\ \A x : ~Doing(t, "acquired", x)' /\ (Doing(t, "unlock", x)' <=> x = l)
    /\ \A u \in Threads : u # t => pc'[u] = pc[u]

LEMMA UnlockCaptures ==
    ASSUME SyncInv, NEW t \in Threads, NEW l \in Locks, CaptureUnlock(t, l)
    PROVE  CapturesUnlock(t, l)
<1>1. /\ pc' = [pc EXCEPT ![t] = <<"unlock", l>>] /\ pc[t] = Idle
      /\ held[t][l] > 0 \/ shared[t][l] > 0
      /\ event' = Event("unlock", "none", Bits(l), l, t)
      /\ UNCHANGED <<object, held, shared, thread, creations>>
  BY DEF CaptureUnlock, Ready
<1>2. PICK op : op = <<"unlock", l>>
  OBVIOUS
<1>3. op[1] = "unlock" /\ op[2] = l
  BY <1>2
<1>4. pc'[t] = op /\ \A u \in Threads : u # t => pc'[u] = pc[u]
  BY <1>1, <1>2 DEF SyncInv, SyncTypeOK
<1>5. \A x : ~Doing(t, "acquired", x) /\ ~Doing(t, "unlock", x)
  BY <1>1, IdleFacts DEF Doing, LockSteps
<1>6. \A x : ~Doing(t, "acquired", x)' /\ (Doing(t, "unlock", x)' <=> x = l)
  BY <1>3, <1>4 DEF Doing
<1> QED
  BY <1>1, <1>4, <1>5, <1>6 DEF CapturesUnlock

-----------------------------------------------------------------------------
(* redundant-rwlock.                                                       *)

\* The analyzer knows the modes a lock was taken in, up to those whose capture
\* is still to come.
RwRight(l) ==
    IF object[l].alive /\ object[l].kind = "rwlock"
    THEN /\ rwlocks[l].tracked
         /\ \A m \in {"rd", "wr"} :
                m \in modesTaken[l] <=>
                    \/ m \in rwlocks[l].modes
                    \/ \E t \in Threads : Doing(t, "acquired", l) /\ pc[t][3] = m
    ELSE rwlocks[l] = RwUntracked

RwTypes ==
    /\ rwlocks \in [Locks -> [tracked : BOOLEAN, modes : SUBSET {"rd", "wr"}]]
    /\ modesTaken \in [Locks -> SUBSET {"rd", "wr"}]

RwInv ==
    /\ RwTypes
    /\ "redundant-rwlock" \in Analyzers /\ analysis # "terminated" =>
           \A l \in Locks \ StaticLocks : RwRight(l)

LEMMA InitRw == Init => RwInv
<1> SUFFICES ASSUME Init PROVE RwInv
  OBVIOUS
<1>1. RwTypes
  BY DEF Init, RwInit, RwTypes, RwUntracked
<1>2. ASSUME NEW l \in Locks \ StaticLocks PROVE RwRight(l)
  BY DEF Init, SyncInit, RwInit, RwRight
<1> QED
  BY <1>1, <1>2 DEF RwInv

LEMMA RwTypesNext ==
    ASSUME RwTypes, Quiet(event') \/ LockEvent(event'),
           (RwHandle(event') /\ RwObserve) \/ UNCHANGED rwVars
    PROVE  RwTypes'
<1>1. CASE UNCHANGED rwVars
  BY <1>1 DEF rwVars, RwTypes
<1>2. CASE RwHandle(event') /\ RwObserve
  <2>1. modesTaken' \in [Locks -> SUBSET {"rd", "wr"}]
    <3>1. \A t, l : Taken(t, l) \subseteq {"rd", "wr"}
      BY DEF Taken
    <3> QED
      BY <1>2, <3>1 DEF RwObserve, RwTypes
  <2>2. CASE rwlocks' = rwlocks
    BY <2>1, <2>2 DEF RwTypes
  <2>3. CASE \E l \in Locks, v \in [tracked : BOOLEAN, modes : SUBSET {"rd", "wr"}] :
                 rwlocks' = [rwlocks EXCEPT ![l] = v]
    BY <2>1, <2>3 DEF RwTypes
  <2>4. CASE Quiet(event')
    BY <1>2, <2>2, <2>4 DEF RwHandle, Quiet
  <2>5. CASE LockEvent(event')
    <3> DEFINE l == event'.object
               r == rwlocks[l]
    <3>1. /\ l \in Locks /\ r \in [tracked : BOOLEAN, modes : SUBSET {"rd", "wr"}]
          /\ RwUntracked \in [tracked : BOOLEAN, modes : SUBSET {"rd", "wr"}]
      BY <2>5 DEF LockEvent, RwTypes, RwUntracked
    <3>2. \/ rwlocks' = rwlocks
          \/ rwlocks' = [rwlocks EXCEPT ![l] = [r EXCEPT !.tracked = TRUE]]
          \/ rwlocks' = [rwlocks EXCEPT ![l] = RwUntracked]
          \/ /\ event'.type = "after"
             /\ rwlocks' = [rwlocks EXCEPT ![l] = [r EXCEPT !.modes = @ \cup {event'.mode}]]
      BY <1>2 DEF RwHandle, RwTakes
    <3>3. [r EXCEPT !.tracked = TRUE] \in [tracked : BOOLEAN, modes : SUBSET {"rd", "wr"}]
      BY <3>1
    <3>4. event'.type = "after" =>
              [r EXCEPT !.modes = @ \cup {event'.mode}]
                  \in [tracked : BOOLEAN, modes : SUBSET {"rd", "wr"}]
      BY <2>5, <3>1 DEF LockEvent
    <3> QED
      BY <2>2, <2>3, <3>1, <3>2, <3>3, <3>4
  <2> QED
    BY <1>2, <2>4, <2>5
<1> QED
  BY <1>1, <1>2

LEMMA NothingTaken ==
    ASSUME RwTypes, RwObserve,
           \A u \in Threads, x \in Locks : /\ ~(held'[u][x] > held[u][x])
                                           /\ ~(shared'[u][x] > shared[u][x])
    PROVE  \A l \in Locks : modesTaken'[l] = IF object'[l].id # object[l].id THEN {}
                                             ELSE modesTaken[l]
<1> SUFFICES ASSUME NEW l \in Locks
             PROVE  modesTaken'[l] = IF object'[l].id # object[l].id THEN {}
                                     ELSE modesTaken[l]
  OBVIOUS
<1>1. \A t \in Threads : Taken(t, l) = {}
  BY DEF Taken
<1>2. UNION {Taken(t, l) : t \in Threads} = {}
  BY <1>1, Zenon
<1>3. modesTaken'[l] = IF object'[l].id # object[l].id THEN {}
                       ELSE modesTaken[l] \cup UNION {Taken(t, l) : t \in Threads}
  BY DEF RwObserve
<1> QED
  BY <1>2, <1>3

\* What leaves a lock, and the calls on it, alone.
LEMMA RwFrame ==
    ASSUME NEW l \in Locks, RwRight(l),
           object'[l].alive = object[l].alive, object'[l].kind = object[l].kind,
           rwlocks'[l] = rwlocks[l], modesTaken'[l] = modesTaken[l],
           \A t \in Threads : /\ Doing(t, "acquired", l)' <=> Doing(t, "acquired", l)
                              /\ Doing(t, "acquired", l) => pc'[t] = pc[t]
    PROVE  RwRight(l)'
BY DEF RwRight

LEMMA CreateRw ==
    ASSUME SyncInv, RwTypes, RwHandle(event'), RwObserve,
           \A l \in Locks \ StaticLocks : RwRight(l),
           NEW t \in Threads, NEW l \in Locks, NEW k \in Kinds, CreateLock(t, l, k)
    PROVE  \A x \in Locks \ StaticLocks : RwRight(x)'
<1>1. /\ object' = [object EXCEPT ![l] = [alive |-> TRUE, kind |-> k, id |-> creations + 1]]
      /\ ~object[l].alive
      /\ event' = Event("create", "none", k, l, t)
  BY DEF CreateLock
<1>2. /\ event'.type = "create" /\ event'.object = l /\ event'.bits = k
  BY <1>1 DEF Event
<1>3. l \notin StaticLocks /\ rwlocks[l] = RwUntracked
  BY <1>1 DEF SyncInv, RwRight
<1>4. rwlocks' = IF k = "rwlock" THEN [rwlocks EXCEPT ![l].tracked = TRUE] ELSE rwlocks
  BY <1>2, <1>3 DEF RwHandle, RwUntracked
<1>5. WaitsStay /\ UNCHANGED <<held, shared>>
  BY WaitSteps
<1>6. /\ \A x \in Locks : x # l => object'[x] = object[x]
      /\ object'[l] = [alive |-> TRUE, kind |-> k, id |-> creations + 1]
      /\ object[l].id <= creations /\ object[l].id \in Nat /\ creations \in Nat
      /\ \A u \in Threads, x \in Locks : held[u][x] \in Nat /\ shared[u][x] \in Nat
  BY <1>1, BoundsAssumption DEF SyncInv, SyncTypeOK
<1>7. modesTaken'[l] = {} /\ \A x \in Locks : x # l => modesTaken'[x] = modesTaken[x]
  <2>1. object'[l].id # object[l].id
    BY <1>6
  <2>2. \A x \in Locks : modesTaken'[x] = IF object'[x].id # object[x].id THEN {}
                                          ELSE modesTaken[x]
    BY <1>5, <1>6, NothingTaken
  <2> QED
    BY <1>6, <2>1, <2>2
<1>8. /\ \A x \in Locks : x # l => rwlocks'[x] = rwlocks[x]
      /\ k = "rwlock" => rwlocks'[l].tracked /\ rwlocks'[l].modes = {}
      /\ k # "rwlock" => rwlocks'[l] = RwUntracked
  <2>1. CASE k = "rwlock"
    <3>1. rwlocks' = [rwlocks EXCEPT ![l].tracked = TRUE]
      BY <1>4, <2>1, Zenon
    <3>2. rwlocks[l].modes = {}
      BY <1>3 DEF RwUntracked
    <3> QED
      BY <2>1, <3>1, <3>2 DEF RwTypes
  <2>2. CASE k # "rwlock"
    BY <1>3, <1>4, <2>2
  <2> QED
    BY <2>1, <2>2
<1>9. RwRight(l)'
  <2>1. \A u \in Threads : ~Doing(u, "acquired", l)'
    BY <1>1, <1>5 DEF SyncInv, CallInv, WaitsStay, LockSteps
  <2> QED
    BY <1>6, <1>7, <1>8, <2>1 DEF RwRight
<1> QED
  BY <1>5, <1>6, <1>7, <1>8, <1>9, RwFrame DEF WaitsStay

LEMMA DestroyRw ==
    ASSUME SyncInv, RwTypes, RwHandle(event'), RwObserve,
           \A l \in Locks \ StaticLocks : RwRight(l),
           NEW t \in Threads, NEW l \in Locks, DestroyLock(t, l)
    PROVE  /\ \A x \in Locks \ StaticLocks : RwRight(x)'
           /\ modesTaken' = modesTaken
           /\ object'[l].kind = object[l].kind
<1>1. /\ object' = [object EXCEPT ![l].alive = FALSE] /\ object[l].alive
      /\ event' = Event("destroy", "none", Bits(l), l, t)
      /\ l \notin StaticLocks
  BY DEF DestroyLock
<1>2. /\ event'.type = "destroy" /\ event'.object = l
      /\ (event'.bits = "rwlock" <=> object[l].kind = "rwlock")
  BY <1>1 DEF Event, Bits
<1>3. rwlocks' = IF object[l].kind = "rwlock" THEN [rwlocks EXCEPT ![l] = RwUntracked]
                 ELSE rwlocks
  BY <1>2 DEF RwHandle, RwTakes
<1>4. WaitsStay /\ UNCHANGED <<held, shared>>
  BY WaitSteps
<1>5. /\ \A x \in Locks : x # l => object'[x] = object[x]
      /\ \A x \in Locks : /\ object'[x].id = object[x].id
                          /\ object'[x].kind = object[x].kind
      /\ ~object'[l].alive
      /\ \A u \in Threads, x \in Locks : held[u][x] \in Nat /\ shared[u][x] \in Nat
  BY <1>1, BoundsAssumption DEF SyncInv, SyncTypeOK
<1>6. modesTaken' = modesTaken
  <2>1. \A x \in Locks : modesTaken'[x] = modesTaken[x]
    BY <1>4, <1>5, NothingTaken
  <2>2. /\ modesTaken' = [x \in Locks |-> modesTaken'[x]]
        /\ modesTaken = [x \in Locks |-> modesTaken[x]]
    BY DEF RwObserve, RwTypes
  <2> QED
    BY <2>1, <2>2
<1>7. /\ \A x \in Locks : x # l => rwlocks'[x] = rwlocks[x]
      /\ rwlocks'[l] = RwUntracked
  BY <1>1, <1>3 DEF RwTypes, RwRight
<1>8. RwRight(l)'
  BY <1>5, <1>7 DEF RwRight
<1> QED
  BY <1>4, <1>5, <1>6, <1>7, <1>8, RwFrame DEF WaitsStay

LEMMA TakesRw ==
    ASSUME SyncInv, RwTypes, RwHandle(event'), RwObserve,
           \A l \in Locks \ StaticLocks : RwRight(l),
           NEW t \in Threads, NEW l \in Locks, NEW m \in {"rd", "wr"}, Takes(t, l, m)
    PROVE  \A x \in Locks \ StaticLocks : RwRight(x)'
<1>1. /\ UNCHANGED object /\ rwlocks' = rwlocks /\ object[l].alive
      /\ \A u \in Threads, x \in Locks :
             /\ held'[u][x] = IF u = t /\ x = l /\ m = "wr" THEN held[u][x] + 1 ELSE held[u][x]
             /\ shared'[u][x] = IF u = t /\ x = l /\ m = "rd" THEN shared[u][x] + 1
                                ELSE shared[u][x]
      /\ \A u \in Threads, x \in Locks : held[u][x] \in Nat /\ shared[u][x] \in Nat
  <2>1. UNCHANGED object /\ event' = NoEvent
    BY DEF Takes
  <2>2. rwlocks' = rwlocks
    BY <2>1 DEF RwHandle, NoEvent
  <2> QED
    BY <2>1, <2>2, BoundsAssumption DEF Takes, SyncInv, SyncTypeOK
<1>2. \A u \in Threads, x \in Locks : Taken(u, x) = IF u = t /\ x = l THEN {m} ELSE {}
  BY <1>1 DEF Taken
<1>3. modesTaken'[l] = modesTaken[l] \cup {m}
  <2>1. modesTaken'[l] = modesTaken[l] \cup UNION {Taken(u, l) : u \in Threads}
    BY <1>1 DEF RwObserve
  <2>2. UNION {Taken(u, l) : u \in Threads} = {m}
    BY <1>2, Zenon
  <2> QED
    BY <2>1, <2>2
<1>4. ASSUME NEW x \in Locks, x # l PROVE modesTaken'[x] = modesTaken[x]
  <2>1. modesTaken'[x] = modesTaken[x] \cup UNION {Taken(u, x) : u \in Threads}
    BY <1>1 DEF RwObserve
  <2>2. UNION {Taken(u, x) : u \in Threads} = {}
    BY <1>2, <1>4, Zenon
  <2> QED
    BY <2>1, <2>2
<1>5. /\ \A x : ~Doing(t, "acquired", x)
      /\ \A x : Doing(t, "acquired", x)' <=> x = l
      /\ pc'[t][3] = m
      /\ \A u \in Threads : u # t => pc'[u] = pc[u]
  BY DEF Takes
<1>6. \A u \in Threads : \A x : u # t => (Doing(u, "acquired", x)' <=> Doing(u, "acquired", x))
  BY <1>5 DEF Doing
<1>7. ASSUME NEW x \in Locks \ StaticLocks, x # l PROVE RwRight(x)'
  BY <1>1, <1>4, <1>5, <1>6, <1>7, RwFrame
<1>8. ASSUME l \notin StaticLocks PROVE RwRight(l)'
  <2>1. CASE object[l].kind # "rwlock"
    BY <1>1, <1>8, <2>1 DEF RwRight
  <2>2. CASE object[l].kind = "rwlock"
    <3>1. /\ rwlocks[l].tracked
          /\ \A n \in {"rd", "wr"} :
                 n \in modesTaken[l] <=>
                     \/ n \in rwlocks[l].modes
                     \/ \E u \in Threads : Doing(u, "acquired", l) /\ pc[u][3] = n
      BY <1>1, <1>8, <2>2 DEF RwRight
    <3>2. ASSUME NEW n \in {"rd", "wr"}
          PROVE  (\E u \in Threads : Doing(u, "acquired", l)' /\ pc'[u][3] = n)
                     <=> n = m \/ \E u \in Threads : Doing(u, "acquired", l) /\ pc[u][3] = n
      BY <1>5, <1>6
    <3>3. \A n \in {"rd", "wr"} : n \in modesTaken'[l] <=> n \in modesTaken[l] \/ n = m
      BY <1>3
    <3> QED
      BY <1>1, <2>2, <3>1, <3>2, <3>3 DEF RwRight
  <2> QED
    BY <2>1, <2>2
<1> QED
  BY <1>7, <1>8

LEMMA CapturesRw ==
    ASSUME SyncInv, RwTypes, RwHandle(event'), RwObserve,
           \A l \in Locks \ StaticLocks : RwRight(l),
           NEW t \in Threads, NEW l \in Locks, NEW m \in {"rd", "wr"}, CapturesTaken(t, l, m)
    PROVE  \A x \in Locks \ StaticLocks : RwRight(x)'
<1>1. /\ UNCHANGED <<object, held, shared>>
      /\ event'.type = "after" /\ event'.mode = m /\ event'.object = l
      /\ (event'.bits = "rwlock" <=> object[l].kind = "rwlock")
      /\ Doing(t, "acquired", l) /\ pc[t][3] = m
      /\ \A x : ~Doing(t, "acquired", x)'
      /\ \A u \in Threads : u # t => pc'[u] = pc[u]
  BY DEF CapturesTaken, Event, Bits
<1>2. /\ \A x \in Locks : modesTaken'[x] = modesTaken[x]
      /\ object[l].alive
  <2>1. \A u \in Threads, x \in Locks : held[u][x] \in Nat /\ shared[u][x] \in Nat
    BY BoundsAssumption DEF SyncInv, SyncTypeOK
  <2> QED
    BY <1>1, <2>1, NothingTaken DEF SyncInv, CallInv, LockSteps
<1>3. rwlocks' = IF object[l].kind = "rwlock" /\ rwlocks[l].tracked
                 THEN [rwlocks EXCEPT ![l].modes = @ \cup {m}] ELSE rwlocks
  BY <1>1 DEF RwHandle, RwTakes
<1>4. /\ \A x \in Locks : x # l => rwlocks'[x] = rwlocks[x]
      /\ object[l].kind = "rwlock" /\ rwlocks[l].tracked =>
             rwlocks'[l].tracked /\ rwlocks'[l].modes = rwlocks[l].modes \cup {m}
      /\ object[l].kind # "rwlock" => rwlocks'[l] = rwlocks[l]
  <2>1. CASE object[l].kind = "rwlock" /\ rwlocks[l].tracked
    <3>1. rwlocks' = [rwlocks EXCEPT ![l].modes = @ \cup {m}]
      BY <1>3, <2>1, Zenon
    <3> QED
      BY <2>1, <3>1 DEF RwTypes
  <2>2. CASE ~(object[l].kind = "rwlock" /\ rwlocks[l].tracked)
    BY <1>3, <2>2
  <2> QED
    BY <2>1, <2>2
<1>5. \A u \in Threads : \A x : u # t => (Doing(u, "acquired", x)' <=> Doing(u, "acquired", x))
  BY <1>1 DEF Doing
<1>6. \A x : x # l => ~Doing(t, "acquired", x)
  BY <1>1 DEF Doing
<1>7. ASSUME NEW x \in Locks \ StaticLocks, x # l PROVE RwRight(x)'
  BY <1>1, <1>2, <1>4, <1>5, <1>6, <1>7, RwFrame
<1>8. ASSUME l \notin StaticLocks PROVE RwRight(l)'
  <2>1. CASE object[l].kind # "rwlock"
    BY <1>1, <1>4, <1>8, <2>1 DEF RwRight
  <2>2. CASE object[l].kind = "rwlock"
    <3>1. /\ rwlocks[l].tracked
          /\ \A n \in {"rd", "wr"} :
                 n \in modesTaken[l] <=>
                     \/ n \in rwlocks[l].modes
                     \/ \E u \in Threads : Doing(u, "acquired", l) /\ pc[u][3] = n
      BY <1>2, <1>8, <2>2 DEF RwRight
    <3>2. ASSUME NEW n \in {"rd", "wr"}
          PROVE  (\E u \in Threads : Doing(u, "acquired", l) /\ pc[u][3] = n)
                     <=> n = m \/ \E u \in Threads : Doing(u, "acquired", l)' /\ pc'[u][3] = n
      BY <1>1, <1>5
    <3>3. \A n \in {"rd", "wr"} : n \in rwlocks'[l].modes <=> n \in rwlocks[l].modes \/ n = m
      BY <1>4, <2>2, <3>1
    <3> QED
      BY <1>1, <1>2, <1>4, <2>2, <3>1, <3>2, <3>3 DEF RwRight
  <2> QED
    BY <2>1, <2>2
<1> QED
  BY <1>7, <1>8

\* The steps that neither take nor capture, create nor destroy.
LEMMA PassingRw ==
    ASSUME SyncInv, RwTypes, RwHandle(event'), RwObserve,
           \A l \in Locks \ StaticLocks : RwRight(l), UNCHANGED object,
           event'.bits # "rwlock" \/ event'.type \notin {"create", "destroy", "after"},
           \A u \in Threads, x \in Locks :
               held'[u][x] <= held[u][x] /\ shared'[u][x] <= shared[u][x],
           held' \in [Threads -> [Locks -> Nat]] /\ shared' \in [Threads -> [Locks -> Nat]],
           \A u \in Threads, x \in Locks :
               /\ Doing(u, "acquired", x)' <=> Doing(u, "acquired", x)
               /\ Doing(u, "acquired", x) => pc'[u] = pc[u]
    PROVE  \A x \in Locks \ StaticLocks : RwRight(x)'
<1>1. rwlocks' = rwlocks
  BY DEF RwHandle, RwTakes
<1>2. \A x \in Locks : modesTaken'[x] = modesTaken[x]
  <2>1. \A u \in Threads, x \in Locks : /\ held[u][x] \in Nat /\ shared[u][x] \in Nat
                                        /\ held'[u][x] \in Nat /\ shared'[u][x] \in Nat
    BY BoundsAssumption DEF SyncInv, SyncTypeOK
  <2> QED
    BY <2>1, NothingTaken
<1> QED
  BY <1>1, <1>2, RwFrame

\* Releases and requests, refusals, and what threads do leave what was taken as it is.
LEMMA OtherSteps ==
    ASSUME SyncInv, SyncInv', NEW t \in Threads,
           \/ \E l \in Locks, type \in {"before", "try"} :
                  \E m \in Modes(l) : RequestLock(t, l, m, type)
           \/ AcquireFails(t)
           \/ \E l \in Locks : CaptureUnlock(t, l)
           \/ Release(t)
           \/ ThreadStep(t)
    PROVE  /\ UNCHANGED object
           /\ event'.bits = "thread" \/ event'.type \notin {"create", "destroy", "after"}
           /\ \A u \in Threads, x \in Locks :
                  held'[u][x] <= held[u][x] /\ shared'[u][x] <= shared[u][x]
           /\ \A u \in Threads, x \in Locks :
                  /\ Doing(u, "acquired", x)' <=> Doing(u, "acquired", x)
                  /\ Doing(u, "acquired", x) => pc'[u] = pc[u]
<1>1. \A u \in Threads, x \in Locks : /\ held[u][x] \in Nat /\ shared[u][x] \in Nat
                                      /\ held'[u][x] \in Nat /\ shared'[u][x] \in Nat
  BY BoundsAssumption DEF SyncInv, SyncTypeOK
<1>2. CASE \/ \E l \in Locks, type \in {"before", "try"} :
                  \E m \in Modes(l) : RequestLock(t, l, m, type)
           \/ AcquireFails(t)
           \/ ThreadStep(t)
  <2>1. WaitsStay /\ UNCHANGED <<held, shared>>
    BY <1>2, WaitSteps
  <2>2. /\ UNCHANGED object
        /\ event'.bits = "thread" \/ event'.type \notin {"create", "destroy", "after"}
    <3>1. CASE \E l \in Locks, type \in {"before", "try"} :
                   \E m \in Modes(l) : RequestLock(t, l, m, type)
      BY <3>1 DEF RequestLock, Event
    <3>2. CASE AcquireFails(t) \/ ThreadStep(t)
      <4>1. Quiet(event')
        BY <3>2, QuietSteps
      <4>2. UNCHANGED object
        BY <3>2, ThreadStepFrame DEF AcquireFails, SyncInv
      <4> QED
        BY <4>1, <4>2 DEF Quiet
    <3> QED
      BY <1>2, <3>1, <3>2
  <2> QED
    BY <1>1, <2>1, <2>2 DEF WaitsStay
<1>3. CASE \E l \in Locks : CaptureUnlock(t, l)
  <2>1. PICK l \in Locks : CapturesUnlock(t, l)
    BY <1>3, UnlockCaptures
  <2>2. /\ UNCHANGED <<object, held, shared>> /\ event'.type = "unlock"
        /\ \A x : ~Doing(t, "acquired", x) /\ ~Doing(t, "acquired", x)'
        /\ \A u \in Threads : u # t => pc'[u] = pc[u]
    BY <2>1 DEF CapturesUnlock, Event
  <2>3. \A u \in Threads : \A x : u # t => (Doing(u, "acquired", x)' <=> Doing(u, "acquired", x))
    BY <2>2 DEF Doing
  <2> QED
    BY <1>1, <2>2, <2>3
<1>4. CASE Release(t)
  <2>1. PICK l \in Locks : LetsGo(t, l)
    BY <1>4, ReleaseLetsGo
  <2>2. /\ UNCHANGED object /\ event' = NoEvent
        /\ \A u \in Threads, x \in Locks :
               /\ held'[u][x] = IF u = t /\ x = l /\ held[t][l] > 0 THEN held[u][x] - 1
                                ELSE held[u][x]
               /\ shared'[u][x] = IF u = t /\ x = l /\ ~(held[t][l] > 0) THEN shared[u][x] - 1
                                  ELSE shared[u][x]
        /\ \A x : ~Doing(t, "acquired", x) /\ ~Doing(t, "acquired", x)'
        /\ \A u \in Threads : u # t => pc'[u] = pc[u]
    BY <2>1 DEF LetsGo
  <2>3. \A u \in Threads : \A x : u # t => (Doing(u, "acquired", x)' <=> Doing(u, "acquired", x))
    BY <2>2 DEF Doing
  <2>4. event'.type \notin {"create", "destroy", "after"}
    BY <2>2 DEF NoEvent
  <2> QED
    BY <1>1, <2>2, <2>3, <2>4
<1> QED
  BY <1>2, <1>3, <1>4

LEMMA NextRw == SyncInv /\ RwInv /\ [Next]_vars => RwInv'
<1> SUFFICES ASSUME SyncInv, RwInv, [Next]_vars PROVE RwInv'
  OBVIOUS
<1>0. SyncInv'
  BY NextSync
<1>1. CASE UNCHANGED <<object, pc, rwVars>> /\ (analysis = "terminated" => analysis' = analysis)
  <2>1. RwTypes'
    BY <1>1 DEF RwInv, RwTypes, rwVars
  <2>2. \A t, l : Doing(t, "acquired", l)' <=> Doing(t, "acquired", l)
    BY <1>1 DEF Doing
  <2>3. \A l \in Locks : RwRight(l) => RwRight(l)'
    BY <1>1, <2>2, RwFrame DEF rwVars
  <2> QED
    BY <1>1, <2>1, <2>3 DEF RwInv
<1>2. CASE ProgramStep
  <2>1. PICK pick \in Picks : Handled(pick) \/ Terminated
    BY <1>2, HandleCases
  <2>2. analysis = "running" /\ SyncNext
    BY <1>2, HandleCases
  <2>3. CASE Terminated
    BY <2>3 DEF Terminated, analyzerVars, rwVars, RwInv, RwTypes
  <2>4. CASE Handled(pick) /\ "redundant-rwlock" \notin Analyzers
    BY <2>4 DEF Handled, Analyze, rwVars, RwInv, RwTypes
  <2>5. CASE Handled(pick) /\ "redundant-rwlock" \in Analyzers
    <3>1. RwHandle(event') /\ RwObserve
      BY <2>5 DEF Handled, Analyze
    <3>2. RwTypes /\ \A l \in Locks \ StaticLocks : RwRight(l)
      BY <2>2, <2>5 DEF RwInv
    <3>3. RwTypes'
      BY <2>2, <3>1, <3>2, EventCases, RwTypesNext
    <3>4. PICK t \in Threads :
              \/ \E l \in Locks, k \in Kinds : CreateLock(t, l, k)
              \/ \E l \in Locks : DestroyLock(t, l)
              \/ \E l \in Locks, type \in {"before", "try"} :
                     \E m \in Modes(l) : RequestLock(t, l, m, type)
              \/ Acquire(t) \/ AcquireFails(t) \/ CaptureAcquired(t)
              \/ \E l \in Locks : CaptureUnlock(t, l)
              \/ Release(t)
              \/ ThreadStep(t)
      BY <2>2, ProgramCases
    <3>5. \A l \in Locks \ StaticLocks : RwRight(l)'
      <4>1. CASE \E l \in Locks, k \in Kinds : CreateLock(t, l, k)
        BY <3>1, <3>2, <4>1, CreateRw
      <4>2. CASE \E l \in Locks : DestroyLock(t, l)
        BY <3>1, <3>2, <4>2, DestroyRw
      <4>3. CASE Acquire(t)
        BY <3>1, <3>2, <4>3, AcquireTakes, TakesRw
      <4>4. CASE CaptureAcquired(t)
        BY <3>1, <3>2, <4>4, CaptureTakes, CapturesRw
      <4>5. CASE \/ \E l \in Locks, type \in {"before", "try"} :
                        \E m \in Modes(l) : RequestLock(t, l, m, type)
                 \/ AcquireFails(t)
                 \/ \E l \in Locks : CaptureUnlock(t, l)
                 \/ Release(t)
                 \/ ThreadStep(t)
        <5>1. held' \in [Threads -> [Locks -> Nat]] /\ shared' \in [Threads -> [Locks -> Nat]]
          BY <1>0, BoundsAssumption DEF SyncInv, SyncTypeOK
        <5>2. event'.bits # "rwlock" \/ event'.type \notin {"create", "destroy", "after"}
          BY <1>0, <4>5, OtherSteps
        <5>3. /\ UNCHANGED object
              /\ \A u \in Threads, x \in Locks :
                     held'[u][x] <= held[u][x] /\ shared'[u][x] <= shared[u][x]
              /\ \A u \in Threads, x \in Locks :
                     /\ Doing(u, "acquired", x)' <=> Doing(u, "acquired", x)
                     /\ Doing(u, "acquired", x) => pc'[u] = pc[u]
          BY <1>0, <4>5, OtherSteps, Zenon
        <5> QED
          BY <3>1, <3>2, <5>1, <5>2, <5>3, PassingRw
      <4> QED
        BY <3>4, <4>1, <4>2, <4>3, <4>4, <4>5
    <3> QED
      BY <3>3, <3>5 DEF RwInv
  <2> QED
    BY <2>1, <2>3, <2>4, <2>5
<1> QED
  BY <1>1, <1>2 DEF Next, ShutDown, vars, syncVars, analyzerVars

\* For a live read-write lock the flags of redundant-rwlock are the modes that it
\* was taken in, but for the acquisitions still to be captured.
THEOREM RwInvariance == Spec => []RwInv
BY InitRw, NextRw, ProgramInvariance, PTL DEF Spec

LEMMA RwVerdictRight ==
    ASSUME SyncInv, RwTypes, NEW l \in Locks, object[l].alive, object[l].kind = "rwlock",
           RwRight(l), \A t \in Threads : ~Doing(t, "acquired", l)
    PROVE  /\ <<"only read", l>> \in RwVerdict(l) <=> modesTaken[l] = {"rd"}
           /\ <<"only written", l>> \in RwVerdict(l) <=> modesTaken[l] = {"wr"}
<1>1. modesTaken[l] \subseteq {"rd", "wr"} /\ rwlocks[l].modes \subseteq {"rd", "wr"}
  BY DEF RwTypes
<1>2. \A m \in {"rd", "wr"} : m \in modesTaken[l] <=> m \in rwlocks[l].modes
  BY DEF RwRight
<1>3. modesTaken[l] = rwlocks[l].modes
  BY <1>1, <1>2
<1> QED
  BY <1>3 DEF RwVerdict

LEMMA RwExactNext ==
    SyncInv /\ RwInv /\ RwExact /\ "redundant-rwlock" \in Analyzers /\ [Next]_vars => RwExact'
<1> SUFFICES ASSUME SyncInv, RwInv, RwExact, "redundant-rwlock" \in Analyzers, [Next]_vars
             PROVE  RwExact'
  OBVIOUS
<1>1. CASE UNCHANGED vars
  BY <1>1 DEF RwExact, Judged, Settled, vars, syncVars, analyzerVars, rwVars
<1>2. CASE Next
  <2> SUFFICES ASSUME NEW l \in Locks, Judged(l)', object'[l].kind = "rwlock"
               PROVE  /\ <<"only read", l>> \in reported' <=> modesTaken'[l] = {"rd"}
                      /\ <<"only written", l>> \in reported' <=> modesTaken'[l] = {"wr"}
    BY DEF RwExact
  <2>1. l \notin StaticLocks
    BY <1>2, JudgedCases
  <2>2. CASE /\ \E t \in Threads : DestroyLock(t, l)
             /\ \E pick \in Picks : Handled(pick)
             /\ event'.type = "destroy" /\ event'.object = l
    <3>1. PICK t \in Threads : DestroyLock(t, l)
      BY <2>2
    <3>2. PICK pick \in Picks : Handled(pick)
      BY <2>2
    <3>3. object[l].alive /\ analysis = "running" /\ \A u \in Threads : ~Uses(u, l)
      BY <1>2, <3>1, <3>2 DEF DestroyLock, Event, Next, ShutDown, ProgramStep, Handled
    <3>4. RwRight(l) /\ RwTypes /\ \A x \in Locks \ StaticLocks : RwRight(x)
      BY <2>1, <3>3 DEF RwInv
    <3>5. RwHandle(event') /\ RwObserve
      BY <3>2 DEF Handled, Analyze
    <3>6. modesTaken' = modesTaken /\ object[l].kind = "rwlock"
      BY <3>1, <3>4, <3>5, DestroyRw
    <3>7. RwReports(event') = RwVerdict(l)
      <4>1. event'.bits = "rwlock"
        BY <3>1, <3>6 DEF DestroyLock, Event, Bits
      <4> QED
        BY <2>2, <4>1 DEF RwReports
    <3>8. ASSUME NEW n \in {"only read", "only written"}
          PROVE  <<n, l>> \in reported' <=> <<n, l>> \in RwVerdict(l)
      <4>1. reported' = Reports(event', Before(event'), pick)
        BY <3>2 DEF Handled
      <4>2. /\ <<n, l>> \notin UselessReports(event')
            /\ <<n, l>> \notin ShadowReports(event', Before(event'), pick)
            /\ <<n, l>> \notin RecReports(event', Before(event'))
            /\ <<n, l>> \notin OrderReports(event')
        BY <3>8, ReportWords
      <4> QED
        BY <3>7, <4>1, <4>2, Zenon DEF Reports
    <3>9. \A u \in Threads : ~Doing(u, "acquired", l)
      BY <3>3, UsesMeaning DEF SyncInv, LockSteps
    <3> QED
      BY <3>3, <3>4, <3>6, <3>8, <3>9, RwVerdictRight
  <2>3. CASE /\ ShutDown /\ analysis' = "done"
             /\ \E pick \in Picks : reported' = LastReports(pick)
             /\ object[l].alive /\ Settled(l)
    <3>1. PICK pick \in Picks : reported' = LastReports(pick)
      BY <2>3
    <3>2. /\ RwRight(l) /\ RwTypes /\ modesTaken' = modesTaken /\ object[l].kind = "rwlock"
      BY <2>1, <2>3 DEF RwInv, ShutDown, analyzerVars, rwVars
    <3>3. ASSUME NEW n \in {"only read", "only written"}
          PROVE  <<n, l>> \in reported' <=> <<n, l>> \in RwVerdict(l)
      <4>1. <<n, l>> \in RwLastReports <=> <<n, l>> \in RwVerdict(l)
        BY LastVerdicts
      <4>2. <<n, l>> \notin UselessLastReports /\ <<n, l>> \notin RecLastReports
        BY <3>3, LastVerdicts, VerdictWords
      <4>3. <<n, l>> \notin ShadowLastReports(pick)
        BY VerdictWords
      <4> QED
        BY <3>1, <4>1, <4>2, <4>3, Zenon DEF LastReports
    <3>4. \A u \in Threads : ~Doing(u, "acquired", l)
      BY <2>3, SettledMeaning DEF SyncInv, LockSteps
    <3> QED
      BY <2>3, <3>2, <3>3, <3>4, RwVerdictRight
  <2> QED
    BY <1>2, <2>2, <2>3, JudgedCases
<1> QED
  BY <1>1, <1>2

\* redundant-rwlock warns of exactly the read-write locks that pthread calls took
\* in one mode only, for any number of threads and locks: what is still to be
\* captured when a lock is destroyed or the events end is no use of that lock.
THEOREM RedundantRWLockIsExact ==
    ASSUME "redundant-rwlock" \in Analyzers
    PROVE  Spec => []RwExact
<1>1. Init => RwExact
  BY DEF Init, SyncInit, RwExact, Judged
<1>2. SyncInv /\ RwInv /\ RwExact /\ [Next]_vars => RwExact'
  BY RwExactNext
<1> QED
  BY <1>1, <1>2, ProgramInvariance, RwInvariance, PTL DEF Spec

-----------------------------------------------------------------------------
(* A step of the program concerns one lock at most.                        *)

\* Neither the lock, nor its holders, nor a capture that is due on it change.
Apart(x) ==
    /\ object'[x] = object[x]
    /\ \A u \in Threads :
           /\ held'[u][x] = held[u][x] /\ shared'[u][x] = shared[u][x]
           /\ \A o \in {"acquired", "unlock"} :
                  /\ Doing(u, o, x)' <=> Doing(u, o, x)
                  /\ Doing(u, o, x) => pc'[u] = pc[u]

\* A step with no say in who holds what: what threads do with threads, requests
\* and refusals.
Passes ==
    /\ UNCHANGED object /\ \A x \in Locks : Apart(x)
    /\ Quiet(event') \/ (LockEvent(event') /\ event'.type \in {"before", "try"})

LEMMA TakesApart ==
    ASSUME NEW t \in Threads, NEW l \in Locks, NEW m, Takes(t, l, m),
           NEW x \in Locks, x # l
    PROVE  Apart(x)
<1>1. \A u \in Threads : \A o : u # t => (Doing(u, o, x)' <=> Doing(u, o, x)) /\ pc'[u] = pc[u]
  BY DEF Takes, Doing
<1>2. \A o \in {"acquired", "unlock"} : ~Doing(t, o, x) /\ ~Doing(t, o, x)'
  BY DEF Takes
<1>3. /\ object'[x] = object[x]
      /\ \A u \in Threads : held'[u][x] = held[u][x] /\ shared'[u][x] = shared[u][x]
  BY DEF Takes
<1> QED
  BY <1>1, <1>2, <1>3 DEF Apart

LEMMA LetsGoApart ==
    ASSUME NEW t \in Threads, NEW l \in Locks, LetsGo(t, l), NEW x \in Locks, x # l
    PROVE  Apart(x)
<1>1. \A u \in Threads : \A o : u # t => (Doing(u, o, x)' <=> Doing(u, o, x)) /\ pc'[u] = pc[u]
  BY DEF LetsGo, Doing
<1>2. \A o \in {"acquired", "unlock"} : ~Doing(t, o, x) /\ ~Doing(t, o, x)'
  BY DEF LetsGo, Doing
<1>3. /\ object'[x] = object[x]
      /\ \A u \in Threads : held'[u][x] = held[u][x] /\ shared'[u][x] = shared[u][x]
  BY DEF LetsGo
<1> QED
  BY <1>1, <1>2, <1>3 DEF Apart

LEMMA CapturesApart ==
    ASSUME NEW t \in Threads, NEW l \in Locks,
           (\E m : CapturesTaken(t, l, m)) \/ CapturesUnlock(t, l),
           NEW x \in Locks, x # l
    PROVE  Apart(x)
<1>1. \A u \in Threads : \A o : u # t => (Doing(u, o, x)' <=> Doing(u, o, x)) /\ pc'[u] = pc[u]
  BY DEF CapturesTaken, CapturesUnlock, Doing
<1>2. \A o \in {"acquired", "unlock"} : ~Doing(t, o, x) /\ ~Doing(t, o, x)'
  BY DEF CapturesTaken, CapturesUnlock, Doing
<1>3. /\ object'[x] = object[x]
      /\ \A u \in Threads : held'[u][x] = held[u][x] /\ shared'[u][x] = shared[u][x]
  BY DEF CapturesTaken, CapturesUnlock
<1> QED
  BY <1>1, <1>2, <1>3 DEF Apart

LEMMA WaitsApart ==
    ASSUME WaitsStay, UNCHANGED <<held, shared>>, NEW x \in Locks, object'[x] = object[x]
    PROVE  Apart(x)
BY DEF WaitsStay, Apart

LEMMA StepCases ==
    ASSUME SyncInv, SyncNext
    PROVE  \/ \E t \in Threads, l \in Locks, k \in Kinds :
                  CreateLock(t, l, k) /\ \A x \in Locks : x # l => Apart(x)
           \/ \E t \in Threads, l \in Locks :
                  DestroyLock(t, l) /\ \A x \in Locks : x # l => Apart(x)
           \/ \E t \in Threads, l \in Locks, m \in {"rd", "wr"} :
                  Takes(t, l, m) /\ \A x \in Locks : x # l => Apart(x)
           \/ \E t \in Threads, l \in Locks, m \in {"rd", "wr"} :
                  CapturesTaken(t, l, m) /\ \A x \in Locks : x # l => Apart(x)
           \/ \E t \in Threads, l \in Locks :
                  CapturesUnlock(t, l) /\ \A x \in Locks : x # l => Apart(x)
           \/ \E t \in Threads, l \in Locks :
                  LetsGo(t, l) /\ \A x \in Locks : x # l => Apart(x)
           \/ Passes
<1>1. PICK t \in Threads :
           \/ \E l \in Locks, k \in Kinds : CreateLock(t, l, k)
           \/ \E l \in Locks : DestroyLock(t, l)
           \/ \E l \in Locks, type \in {"before", "try"} :
                  \E m \in Modes(l) : RequestLock(t, l, m, type)
           \/ Acquire(t) \/ AcquireFails(t) \/ CaptureAcquired(t)
           \/ \E l \in Locks : CaptureUnlock(t, l)
           \/ Release(t)
           \/ ThreadStep(t)
  BY ProgramCases
<1>2. CASE \E l \in Locks, k \in Kinds : CreateLock(t, l, k)
  <2>1. PICK l \in Locks, k \in Kinds : CreateLock(t, l, k)
    BY <1>2
  <2>2. WaitsStay /\ UNCHANGED <<held, shared>>
    BY <2>1, WaitSteps
  <2>3. \A x \in Locks : x # l => object'[x] = object[x]
    BY <2>1 DEF CreateLock, SyncInv, SyncTypeOK
  <2> QED
    BY <2>1, <2>2, <2>3, WaitsApart
<1>3. CASE \E l \in Locks : DestroyLock(t, l)
  <2>1. PICK l \in Locks : DestroyLock(t, l)
    BY <1>3
  <2>2. WaitsStay /\ UNCHANGED <<held, shared>>
    BY <2>1, WaitSteps
  <2>3. \A x \in Locks : x # l => object'[x] = object[x]
    BY <2>1 DEF DestroyLock, SyncInv, SyncTypeOK
  <2> QED
    BY <2>1, <2>2, <2>3, WaitsApart
<1>4. CASE Acquire(t)
  BY <1>4, AcquireTakes, TakesApart
<1>5. CASE CaptureAcquired(t)
  BY <1>5, CaptureTakes, CapturesApart
<1>6. CASE \E l \in Locks : CaptureUnlock(t, l)
  BY <1>6, UnlockCaptures, CapturesApart
<1>7. CASE Release(t)
  BY <1>7, ReleaseLetsGo, LetsGoApart
<1>8. CASE \E l \in Locks, type \in {"before", "try"} :
               \E m \in Modes(l) : RequestLock(t, l, m, type)
  <2>1. WaitsStay /\ UNCHANGED <<held, shared>>
    BY <1>8, WaitSteps
  <2>2. UNCHANGED object /\ LockEvent(event') /\ event'.type \in {"before", "try"}
    BY <1>8 DEF RequestLock, Event, LockEvent, Bits
  <2> QED
    BY <2>1, <2>2, WaitsApart DEF Passes
<1>9. CASE AcquireFails(t) \/ ThreadStep(t)
  <2>1. WaitsStay /\ UNCHANGED <<held, shared>>
    BY <1>9, WaitSteps
  <2>2. UNCHANGED object /\ Quiet(event')
    BY <1>9, QuietSteps
  <2> QED
    BY <2>1, <2>2, WaitsApart DEF Passes
<1> QED
  BY <1>1, <1>2, <1>3, <1>4, <1>5, <1>6, <1>7, <1>8, <1>9

-----------------------------------------------------------------------------
(* redundant-recursive-mutex.                                              *)

RecEntries == [tracked : BOOLEAN, locked : BOOLEAN, owned : BOOLEAN]

RecTypes ==
    /\ recursives \in [Locks -> RecEntries]
    /\ recursion \in [Locks -> {"none", "locked", "recursed"}]

\* Thread t has the lock, and the file says so: the lock is captured, and the
\* unlock is not.
Recorded(t, l) == held[t][l] > 0 /\ ~Doing(t, "acquired", l) /\ ~Doing(t, "unlock", l)

\* The entry of a recursive mutex in the map.  A mutex was locked once at a time
\* until the lock whose capture ends the entry.
RecTracked(l) ==
    /\ recursion[l] = "none" =>
           ~recursives[l].locked /\ \A t \in Threads : held[t][l] = 0
    /\ recursion[l] = "locked" =>
           /\ recursives[l].locked \/ \E t \in Threads : Doing(t, "acquired", l)
           /\ \A t \in Threads : held[t][l] <= 1
    /\ recursion[l] # "recursed" =>
           (recursives[l].owned <=> \E t \in Threads : Recorded(t, l))
    /\ recursion[l] = "recursed" =>
           recursives[l].owned /\ \E t \in Threads : Doing(t, "acquired", l)

RecRight(l) ==
    IF object[l].alive /\ object[l].kind = "rec_mutex"
    THEN IF recursives[l].tracked THEN RecTracked(l)
         ELSE recursives[l] = RecUntracked /\ recursion[l] = "recursed"
    ELSE recursives[l] = RecUntracked

RecInv ==
    /\ RecTypes
    /\ "redundant-recursive-mutex" \in Analyzers /\ analysis # "terminated" =>
           \A l \in Locks \ StaticLocks : RecRight(l)

LEMMA InitRec == Init => RecInv
<1> SUFFICES ASSUME Init PROVE RecInv
  OBVIOUS
<1>1. RecTypes
  BY DEF Init, RecInit, RecTypes, RecUntracked, RecEntries
<1>2. ASSUME NEW l \in Locks \ StaticLocks PROVE RecRight(l)
  BY DEF Init, SyncInit, RecInit, RecRight
<1> QED
  BY <1>1, <1>2 DEF RecInv

\* What the analyzer does with an event of a recursive mutex.
LEMMA RecEffects ==
    ASSUME RecTypes, NEW d, NEW e, RecHandle(e, d)
    PROVE  /\ ObjectType(e, d) # "rec_mutex" => recursives' = recursives
           /\ e.type \notin {"create", "destroy", "after", "unlock"} =>
                  recursives' = recursives
           /\ \A x \in Locks : x # e.object => recursives'[x] = recursives[x]
           /\ ObjectType(e, d) = "rec_mutex" /\ e.object \in Locks =>
                LET l == e.object IN
                /\ e.type = "create" /\ recursives[l] = RecUntracked =>
                       /\ recursives'[l].tracked /\ ~recursives'[l].locked
                       /\ ~recursives'[l].owned
                /\ e.type = "destroy" => recursives'[l] = RecUntracked
                /\ e.type \in {"after", "unlock"} /\ ~recursives[l].tracked =>
                       recursives'[l] = recursives[l]
                /\ e.type = "after" /\ recursives[l].tracked /\ recursives[l].owned =>
                       recursives'[l] = RecUntracked
                /\ e.type = "after" /\ recursives[l].tracked /\ ~recursives[l].owned =>
                       /\ recursives'[l].tracked /\ recursives'[l].locked
                       /\ recursives'[l].owned
                /\ e.type = "unlock" /\ recursives[l].tracked =>
                       /\ recursives'[l].tracked /\ ~recursives'[l].owned
                       /\ recursives'[l].locked = recursives[l].locked
           /\ e.object \in Locks \/ ObjectType(e, d) # "rec_mutex" =>
                  recursives' \in [Locks -> RecEntries]
<1> DEFINE l == e.object
<1>1. CASE ObjectType(e, d) # "rec_mutex"
  BY <1>1 DEF RecHandle, RecTypes
<1>2. CASE ObjectType(e, d) = "rec_mutex"
  <2>1. \/ recursives' = recursives
        \/ recursives' = [recursives EXCEPT ![l].tracked = TRUE]
        \/ recursives' = [recursives EXCEPT ![l] = RecUntracked]
        \/ recursives' = [recursives EXCEPT ![l] = RecLock(l)]
        \/ recursives' = [recursives EXCEPT ![l] = RecUnlock(l)]
    BY <1>2 DEF RecHandle
  <2>2. \A x \in Locks : x # l => recursives'[x] = recursives[x]
    BY <2>1 DEF RecTypes
  <2>3. e.type \notin {"create", "destroy", "after", "unlock"} => recursives' = recursives
    BY <1>2 DEF RecHandle
  <2>4. CASE l \notin Locks
    BY <1>2, <2>2, <2>3, <2>4
  <2>5. CASE l \in Locks
    <3>1. RecUntracked \in RecEntries /\ recursives[l] \in RecEntries
      BY <2>5 DEF RecTypes, RecEntries, RecUntracked
    <3>2. CASE e.type = "create"
      <4>1. recursives' = IF ~recursives[l].tracked
                          THEN [recursives EXCEPT ![l].tracked = TRUE] ELSE recursives
        BY <1>2, <3>2 DEF RecHandle
      <4>2. CASE recursives[l].tracked
        <5>1. recursives' = recursives
          BY <4>1, <4>2
        <5> QED
          BY <1>2, <2>2, <2>5, <3>2, <4>2, <5>1 DEF RecTypes, RecUntracked
      <4>3. CASE ~recursives[l].tracked
        <5>1. recursives' = [recursives EXCEPT ![l].tracked = TRUE]
          BY <4>1, <4>3, Zenon
        <5>2. /\ recursives'[l].tracked
              /\ recursives'[l].locked = recursives[l].locked
              /\ recursives'[l].owned = recursives[l].owned
              /\ recursives' \in [Locks -> RecEntries]
          BY <2>5, <5>1 DEF RecTypes, RecEntries
        <5>3. recursives[l] = RecUntracked => ~recursives[l].locked /\ ~recursives[l].owned
          BY DEF RecUntracked
        <5> QED
          BY <1>2, <2>2, <2>5, <3>2, <5>2, <5>3
      <4> QED
        BY <4>2, <4>3
    <3>3. CASE e.type = "destroy"
      <4>1. recursives' = [recursives EXCEPT ![l] = RecUntracked]
        BY <1>2, <3>3 DEF RecHandle
      <4>2. recursives'[l] = RecUntracked /\ recursives' \in [Locks -> RecEntries]
        BY <2>5, <3>1, <4>1 DEF RecTypes
      <4> QED
        BY <1>2, <2>2, <2>5, <3>3, <4>2
    <3>4. CASE e.type = "after"
      <4>1. recursives' = IF recursives[l].tracked
                          THEN [recursives EXCEPT ![l] = RecLock(l)] ELSE recursives
        BY <1>2, <3>4 DEF RecHandle
      <4>2. RecLock(l) \in RecEntries
        BY <3>1 DEF RecLock, RecEntries
      <4>3. recursives[l].tracked => recursives'[l] = RecLock(l)
        BY <2>5, <4>1, <4>2 DEF RecTypes
      <4>4. recursives[l].owned => RecLock(l) = RecUntracked
        BY DEF RecLock
      <4>5. ~recursives[l].owned =>
                /\ RecLock(l).tracked = recursives[l].tracked
                /\ RecLock(l).locked /\ RecLock(l).owned
        BY <3>1 DEF RecLock, RecEntries
      <4>6. recursives' \in [Locks -> RecEntries]
        BY <4>1, <4>2 DEF RecTypes
      <4> QED
        BY <1>2, <2>2, <2>5, <3>4, <4>1, <4>3, <4>4, <4>5, <4>6
    <3>5. CASE e.type = "unlock"
      <4>1. recursives' = IF recursives[l].tracked
                          THEN [recursives EXCEPT ![l] = RecUnlock(l)] ELSE recursives
        BY <1>2, <3>5 DEF RecHandle
      <4>2. RecUnlock(l) \in RecEntries
        BY <3>1 DEF RecUnlock, RecEntries
      <4>3. recursives[l].tracked => recursives'[l] = RecUnlock(l)
        BY <2>5, <4>1, <4>2 DEF RecTypes
      <4>4. /\ RecUnlock(l).tracked = recursives[l].tracked
            /\ RecUnlock(l).locked = recursives[l].locked
            /\ ~RecUnlock(l).owned
        BY <3>1 DEF RecUnlock, RecEntries
      <4>5. recursives' \in [Locks -> RecEntries]
        BY <4>1, <4>2 DEF RecTypes
      <4> QED
        BY <1>2, <2>2, <2>5, <3>5, <4>1, <4>3, <4>4, <4>5
    <3>6. CASE e.type \notin {"create", "destroy", "after", "unlock"}
      BY <1>2, <2>2, <2>3, <2>5, <3>6 DEF RecTypes
    <3> QED
      BY <3>2, <3>3, <3>4, <3>5, <3>6
  <2> QED
    BY <2>4, <2>5
<1> QED
  BY <1>1, <1>2

LEMMA RecFrame ==
    ASSUME NEW l \in Locks, RecRight(l), Apart(l),
           recursives'[l] = recursives[l], recursion'[l] = recursion[l]
    PROVE  RecRight(l)'
<1>1. /\ object'[l] = object[l]
      /\ \A t \in Threads : /\ held'[t][l] = held[t][l]
                            /\ Doing(t, "acquired", l)' <=> Doing(t, "acquired", l)
                            /\ Doing(t, "unlock", l)' <=> Doing(t, "unlock", l)
  BY DEF Apart
<1>2. \A t \in Threads : Recorded(t, l)' <=> Recorded(t, l)
  BY <1>1 DEF Recorded
<1>3. RecTracked(l) => RecTracked(l)'
  BY <1>1, <1>2 DEF RecTracked
<1> QED
  BY <1>1, <1>3 DEF RecRight

\* The history of a lock that nobody takes.
LEMMA NotLocked ==
    ASSUME SyncInv, RecObserve, NEW l \in Locks,
           \A t \in Threads : held'[t][l] \in Nat /\ held'[t][l] <= held[t][l]
    PROVE  recursion'[l] = IF object'[l].id # object[l].id THEN "none" ELSE recursion[l]
<1>1. \A t \in Threads : held[t][l] \in Nat
  BY BoundsAssumption DEF SyncInv, SyncTypeOK
<1>2. Lockers(l) = {}
  BY <1>1 DEF Lockers
<1> QED
  BY <1>2 DEF RecObserve

LEMMA ApartRec ==
    ASSUME SyncInv, RecObserve, NEW l \in Locks, RecRight(l), Apart(l),
           recursives'[l] = recursives[l]
    PROVE  RecRight(l)'
<1>1. \A t \in Threads : held'[t][l] = held[t][l] /\ held[t][l] \in Nat
  BY BoundsAssumption DEF Apart, SyncInv, SyncTypeOK
<1>2. recursion'[l] = recursion[l]
  BY <1>1, NotLocked DEF Apart
<1> QED
  BY <1>2, RecFrame

\* The database tells the events of a recursive mutex from those of a mutex.
LEMMA RecObjects ==
    ASSUME DbInv, NEW l \in Locks, Created(l), NEW e, e.object = l, e.bits = Bits(l),
           e.type # "create"
    PROVE  ObjectType(e, Before(e)) = "rec_mutex" <=> object[l].kind = "rec_mutex"
<1>1. Before(e) = db
  BY DEF Before
<1>2. db[l] = Entry(l)
  BY DEF DbInv
<1>3. db[l].bits = object[l].kind
  BY <1>2 DEF Entry
<1> QED
  BY <1>1, <1>3 DEF ObjectType, Bits

LEMMA CreateRec ==
    ASSUME SyncInv, DbInv, analysis = "running", RecTypes,
           RecHandle(event', Before(event')), RecObserve,
           NEW t \in Threads, NEW l \in Locks \ StaticLocks, NEW k \in Kinds,
           CreateLock(t, l, k), RecRight(l)
    PROVE  RecRight(l)'
<1>1. /\ object' = [object EXCEPT ![l] = [alive |-> TRUE, kind |-> k, id |-> creations + 1]]
      /\ ~object[l].alive /\ UNCHANGED <<held, pc>>
      /\ event' = Event("create", "none", k, l, t)
  BY DEF CreateLock
<1>2. /\ event'.type = "create" /\ event'.object = l /\ event'.bits = k
      /\ event'.id = creations + 1
  BY <1>1 DEF Event
<1>3. /\ object'[l] = [alive |-> TRUE, kind |-> k, id |-> creations + 1]
      /\ object[l].id <= creations /\ object[l].id \in Nat /\ creations \in Nat
      /\ \A u \in Threads : held[u][l] \in Nat /\ held'[u][l] = held[u][l]
      /\ \A u \in Threads : held[u][l] = 0
      /\ recursives[l] = RecUntracked
  BY <1>1, BoundsAssumption DEF SyncInv, SyncTypeOK, HoldInv, RecRight
<1>4. recursion'[l] = "none"
  <2>1. object'[l].id # object[l].id
    BY <1>3
  <2> QED
    BY <1>3, <2>1, NotLocked
<1>5. ObjectType(event', Before(event')) = "rec_mutex" <=> k = "rec_mutex"
  <2>1. CASE k = "mutex"
    <3>1. db[l] = NoEntry /\ l \in Ids /\ db \in [Ids -> Entries]
      BY <1>1 DEF DbInv, Created, Ids
    <3>2. Before(event')[l].bits = "mutex"
      BY <1>2, <2>1, <3>1 DEF Before
    <3> QED
      BY <1>2, <2>1, <3>2 DEF ObjectType
  <2>2. CASE k # "mutex"
    BY <1>2, <2>2 DEF ObjectType
  <2> QED
    BY <2>1, <2>2
<1>6. CASE k # "rec_mutex"
  <2>1. recursives' = recursives
    BY <1>5, <1>6, RecEffects
  <2> QED
    BY <1>3, <1>6, <2>1 DEF RecRight
<1>7. CASE k = "rec_mutex"
  <2>1. recursives'[l].tracked /\ ~recursives'[l].locked /\ ~recursives'[l].owned
    BY <1>2, <1>3, <1>5, <1>7, RecEffects
  <2>2. \A u \in Threads : ~Recorded(u, l)'
    BY <1>3 DEF Recorded
  <2>3. RecTracked(l)'
    BY <1>3, <1>4, <2>1, <2>2 DEF RecTracked
  <2> QED
    BY <1>3, <1>7, <2>1, <2>3 DEF RecRight
<1> QED
  BY <1>6, <1>7

LEMMA DestroyRec ==
    ASSUME SyncInv, DbInv, RecTypes, RecHandle(event', Before(event')), RecObserve,
           NEW t \in Threads, NEW l \in Locks \ StaticLocks, DestroyLock(t, l), RecRight(l)
    PROVE  /\ RecRight(l)'
           /\ recursion'[l] = recursion[l]
           /\ object'[l].kind = object[l].kind
           /\ ObjectType(event', Before(event')) = "rec_mutex" <=> object[l].kind = "rec_mutex"
<1>1. /\ object' = [object EXCEPT ![l].alive = FALSE] /\ object[l].alive
      /\ UNCHANGED held
      /\ event' = Event("destroy", "none", Bits(l), l, t)
  BY DEF DestroyLock
<1>2. event'.type = "destroy" /\ event'.object = l /\ event'.bits = Bits(l)
  BY <1>1 DEF Event
<1>3. /\ ~object'[l].alive /\ object'[l].id = object[l].id /\ object'[l].kind = object[l].kind
      /\ \A u \in Threads : held[u][l] \in Nat /\ held'[u][l] = held[u][l]
  BY <1>1, BoundsAssumption DEF SyncInv, SyncTypeOK
<1>4. recursion'[l] = recursion[l]
  BY <1>3, NotLocked
<1>5. ObjectType(event', Before(event')) = "rec_mutex" <=> object[l].kind = "rec_mutex"
  BY <1>1, <1>2, RecObjects DEF Created
<1>6. recursives'[l] = RecUntracked
  <2>1. CASE object[l].kind = "rec_mutex"
    BY <1>2, <1>5, <2>1, RecEffects
  <2>2. CASE object[l].kind # "rec_mutex"
    BY <1>5, <2>2, RecEffects DEF RecRight
  <2> QED
    BY <2>1, <2>2
<1>7. RecRight(l)'
  BY <1>3, <1>6 DEF RecRight
<1> QED
  BY <1>3, <1>4, <1>5, <1>7

LEMMA TakesRec ==
    ASSUME SyncInv, RecTypes, RecHandle(event', Before(event')), RecObserve,
           NEW t \in Threads, NEW l \in Locks, NEW m \in {"rd", "wr"}, Takes(t, l, m),
           RecRight(l)
    PROVE  RecRight(l)'
<1>1. /\ event' = NoEvent /\ UNCHANGED object /\ object[l].alive /\ m \in Modes(l)
      /\ \A u \in Threads : held[u][l] = 0 \/ (u = t /\ object[l].kind = "rec_mutex")
      /\ \A u \in Threads : held'[u][l] = IF u = t /\ m = "wr" THEN held[u][l] + 1 ELSE held[u][l]
      /\ ~Doing(t, "acquired", l) /\ ~Doing(t, "unlock", l) /\ Doing(t, "acquired", l)'
      /\ \A u \in Threads : u # t => pc'[u] = pc[u]
      /\ \A u \in Threads : held[u][l] \in Nat
  BY BoundsAssumption DEF Takes, SyncInv, SyncTypeOK
<1>2. recursives' = recursives
  BY <1>1 DEF RecHandle, ObjectType, NoEvent
<1>3. CASE object[l].kind # "rec_mutex"
  BY <1>1, <1>2, <1>3 DEF RecRight
<1>4. CASE object[l].kind = "rec_mutex"
  <2>1. m = "wr"
    BY <1>1, <1>4 DEF Modes
  <2>2. Lockers(l) = {t}
    BY <1>1, <2>1 DEF Lockers
  <2>3. recursion'[l] = IF held[t][l] > 0 THEN "recursed"
                        ELSE IF recursion[l] = "none" THEN "locked" ELSE recursion[l]
    BY <1>1, <2>2 DEF RecObserve
  <2>4. \A u \in Threads : ~Recorded(u, l)'
    <3>1. ~Recorded(t, l)'
      BY <1>1 DEF Recorded
    <3>2. \A u \in Threads : u # t => held'[u][l] = 0
      BY <1>1
    <3> QED
      BY <3>1, <3>2 DEF Recorded
  <2>5. CASE ~recursives[l].tracked
    <3>1. recursives[l] = RecUntracked /\ recursion[l] = "recursed"
      BY <1>1, <1>4, <2>5 DEF RecRight
    <3>2. recursion'[l] = "recursed" /\ ~recursives'[l].tracked
      BY <1>2, <2>3, <2>5, <3>1
    <3> QED
      BY <1>1, <1>2, <1>4, <3>1, <3>2 DEF RecRight
  <2>6. CASE recursives[l].tracked
    <3>1. RecTracked(l)
      BY <1>1, <1>4, <2>6 DEF RecRight
    <3>2. \A u \in Threads : u # t => ~Doing(u, "acquired", l)
      <4>1. ASSUME NEW u \in Threads, u # t, Doing(u, "acquired", l) PROVE FALSE
        <5>1. pc[u][3] = "wr"
          BY <1>4, <4>1 DEF SyncInv, CallInv, Modes
        <5>2. held[u][l] > 0
          BY <4>1, <5>1 DEF SyncInv, CallInv
        <5> QED
          BY <1>1, <4>1, <5>2
      <4> QED
        BY <4>1
    <3>3. recursion[l] # "recursed"
      BY <1>1, <3>1, <3>2 DEF RecTracked
    <3>4. CASE held[t][l] > 0
      <4>1. Recorded(t, l)
        BY <1>1, <3>4 DEF Recorded
      <4>2. recursives[l].owned
        BY <3>1, <3>3, <4>1 DEF RecTracked
      <4>3. recursion'[l] = "recursed"
        BY <2>3, <3>4
      <4>4. RecTracked(l)'
        BY <1>1, <1>2, <4>2, <4>3 DEF RecTracked
      <4> QED
        BY <1>1, <1>2, <1>4, <2>6, <4>4 DEF RecRight
    <3>5. CASE ~(held[t][l] > 0)
      <4>1. \A u \in Threads : held[u][l] = 0 /\ held'[u][l] <= 1
        BY <1>1, <2>1, <3>5
      <4>2. ~recursives[l].owned
        <5>1. \A u \in Threads : ~Recorded(u, l)
          BY <4>1 DEF Recorded
        <5> QED
          BY <3>1, <3>3, <5>1 DEF RecTracked
      <4>3. recursion'[l] = "locked"
        BY <2>3, <3>3, <3>5 DEF RecTypes
      <4>4. RecTracked(l)'
        BY <1>1, <1>2, <2>4, <4>1, <4>2, <4>3 DEF RecTracked
      <4> QED
        BY <1>1, <1>2, <1>4, <2>6, <4>4 DEF RecRight
    <3> QED
      BY <3>4, <3>5
  <2> QED
    BY <2>5, <2>6
<1> QED
  BY <1>3, <1>4

\* Only the thread that has a mutex can have a capture or a release due on it.
LEMMA HolderAlone ==
    ASSUME SyncInv, NEW l \in Locks, object[l].kind # "rwlock", NEW t \in Threads,
           held[t][l] > 0, NEW u \in Threads, u # t
    PROVE  held[u][l] = 0 /\ ~Doing(u, "acquired", l) /\ ~Doing(u, "unlock", l)
<1>1. held[u][l] = 0 /\ ~(shared[u][l] > 0)
  BY DEF SyncInv, HoldInv
<1>2. Doing(u, "acquired", l) => pc[u][3] = "wr"
  BY DEF SyncInv, CallInv, Modes
<1>3. ~(held[u][l] > 0)
  BY <1>1
<1> QED
  BY <1>1, <1>2, <1>3 DEF SyncInv, CallInv

LEMMA CapturesRec ==
    ASSUME SyncInv, DbInv, RecTypes, RecHandle(event', Before(event')), RecObserve,
           NEW t \in Threads, NEW l \in Locks \ StaticLocks, NEW m \in {"rd", "wr"},
           CapturesTaken(t, l, m), RecRight(l)
    PROVE  RecRight(l)'
<1>1. /\ UNCHANGED <<object, held>>
      /\ event'.type = "after" /\ event'.object = l /\ event'.bits = Bits(l)
      /\ Doing(t, "acquired", l) /\ m \in Modes(l) /\ pc[t][3] = m
      /\ ~Doing(t, "acquired", l)' /\ ~Doing(t, "unlock", l)'
      /\ \A u \in Threads : u # t => pc'[u] = pc[u]
  BY DEF CapturesTaken, Event
<1>2. /\ object[l].alive
      /\ \A u \in Threads : held[u][l] \in Nat
  BY <1>1, BoundsAssumption DEF SyncInv, SyncTypeOK, CallInv, LockSteps
<1>3. recursion'[l] = recursion[l]
  BY <1>1, <1>2, NotLocked
<1>4. ObjectType(event', Before(event')) = "rec_mutex" <=> object[l].kind = "rec_mutex"
  BY <1>1, <1>2, RecObjects DEF Created
<1>5. CASE object[l].kind # "rec_mutex"
  BY <1>1, <1>4, <1>5, RecEffects DEF RecRight
<1>6. CASE object[l].kind = "rec_mutex"
  <2>1. held[t][l] > 0
    BY <1>1, <1>6 DEF SyncInv, CallInv, Modes
  <2>2. \A u \in Threads : u # t => held[u][l] = 0 /\ ~Doing(u, "acquired", l)
    BY <1>6, <2>1, HolderAlone
  <2>3. CASE ~recursives[l].tracked
    <3>1. recursives'[l] = recursives[l]
      BY <1>1, <1>4, <1>6, <2>3, RecEffects
    <3> QED
      BY <1>1, <1>2, <1>3, <1>6, <2>3, <3>1 DEF RecRight
  <2>4. CASE recursives[l].tracked /\ recursives[l].owned
    <3>1. recursives'[l] = RecUntracked
      BY <1>1, <1>4, <1>6, <2>4, RecEffects
    <3>2. \A u \in Threads : ~Recorded(u, l)
      BY <1>1, <2>2 DEF Recorded
    <3>3. recursion[l] = "recursed"
      BY <1>2, <1>6, <2>4, <3>2 DEF RecRight, RecTracked
    <3> QED
      BY <1>1, <1>2, <1>3, <1>6, <3>1, <3>3 DEF RecRight, RecUntracked
  <2>5. CASE recursives[l].tracked /\ ~recursives[l].owned
    <3>1. recursives'[l].tracked /\ recursives'[l].locked /\ recursives'[l].owned
      BY <1>1, <1>4, <1>6, <2>5, RecEffects
    <3>2. recursion[l] = "locked" /\ \A u \in Threads : held[u][l] <= 1
      BY <1>2, <1>6, <2>1, <2>5 DEF RecRight, RecTracked, RecTypes
    <3>3. Recorded(t, l)'
      BY <1>1, <2>1 DEF Recorded
    <3>4. RecTracked(l)'
      BY <1>1, <1>3, <3>1, <3>2, <3>3 DEF RecTracked
    <3> QED
      BY <1>1, <1>2, <1>6, <3>1, <3>4 DEF RecRight
  <2> QED
    BY <2>3, <2>4, <2>5
<1> QED
  BY <1>5, <1>6

LEMMA UnlockRec ==
    ASSUME SyncInv, DbInv, RecTypes, RecHandle(event', Before(event')), RecObserve,
           NEW t \in Threads, NEW l \in Locks \ StaticLocks, CapturesUnlock(t, l),
           RecRight(l)
    PROVE  RecRight(l)'
<1>1. /\ UNCHANGED <<object, held>>
      /\ event'.type = "unlock" /\ event'.object = l /\ event'.bits = Bits(l)
      /\ held[t][l] > 0 \/ shared[t][l] > 0
      /\ ~Doing(t, "acquired", l) /\ ~Doing(t, "acquired", l)'
      /\ Doing(t, "unlock", l)'
      /\ \A u \in Threads : u # t => pc'[u] = pc[u]
  BY DEF CapturesUnlock, Event
<1>2. /\ object[l].alive
      /\ \A u \in Threads : held[u][l] \in Nat
  BY <1>1, BoundsAssumption DEF SyncInv, SyncTypeOK, HoldInv
<1>3. recursion'[l] = recursion[l]
  BY <1>1, <1>2, NotLocked
<1>4. ObjectType(event', Before(event')) = "rec_mutex" <=> object[l].kind = "rec_mutex"
  BY <1>1, <1>2, RecObjects DEF Created
<1>5. CASE object[l].kind # "rec_mutex"
  BY <1>1, <1>4, <1>5, RecEffects DEF RecRight
<1>6. CASE object[l].kind = "rec_mutex"
  <2>1. held[t][l] > 0
    BY <1>1, <1>6 DEF SyncInv, HoldInv
  <2>2. \A u \in Threads : u # t => held[u][l] = 0 /\ ~Doing(u, "acquired", l)
    BY <1>6, <2>1, HolderAlone
  <2>3. CASE ~recursives[l].tracked
    <3>1. recursives'[l] = recursives[l]
      BY <1>1, <1>4, <1>6, <2>3, RecEffects
    <3> QED
      BY <1>1, <1>2, <1>3, <1>6, <2>3, <3>1 DEF RecRight
  <2>4. CASE recursives[l].tracked
    <3>1. /\ recursives'[l].tracked /\ ~recursives'[l].owned
          /\ recursives'[l].locked = recursives[l].locked
      BY <1>1, <1>4, <1>6, <2>4, RecEffects
    <3>2. RecTracked(l)
      BY <1>2, <1>6, <2>4 DEF RecRight
    <3>3. /\ recursion[l] = "locked" /\ recursives[l].locked
          /\ \A u \in Threads : held[u][l] <= 1
      BY <1>1, <2>1, <2>2, <3>2 DEF RecTracked, RecTypes
    <3>4. \A u \in Threads : ~Recorded(u, l)'
      BY <1>1, <2>2 DEF Recorded
    <3>5. RecTracked(l)'
      BY <1>1, <1>3, <3>1, <3>3, <3>4 DEF RecTracked
    <3> QED
      BY <1>1, <1>2, <1>6, <3>1, <3>5 DEF RecRight
  <2> QED
    BY <2>3, <2>4
<1> QED
  BY <1>5, <1>6

LEMMA LetsGoRec ==
    ASSUME SyncInv, SyncInv', RecTypes, RecHandle(event', Before(event')), RecObserve,
           NEW t \in Threads, NEW l \in Locks, LetsGo(t, l), RecRight(l)
    PROVE  RecRight(l)'
<1>1. /\ UNCHANGED object /\ event' = NoEvent
      /\ Doing(t, "unlock", l) /\ ~Doing(t, "acquired", l)
      /\ held[t][l] > 0 \/ shared[t][l] > 0
      /\ \A u \in Threads :
             held'[u][l] = IF u = t /\ held[t][l] > 0 THEN held[u][l] - 1 ELSE held[u][l]
      /\ ~Doing(t, "acquired", l)' /\ ~Doing(t, "unlock", l)'
      /\ \A u \in Threads : u # t => pc'[u] = pc[u]
  BY DEF LetsGo
<1>2. /\ object[l].alive
      /\ \A u \in Threads : held[u][l] \in Nat /\ held'[u][l] \in Nat
  BY <1>1, BoundsAssumption DEF SyncInv, SyncTypeOK, HoldInv
<1>3. recursion'[l] = recursion[l] /\ recursives' = recursives
  <2>1. \A u \in Threads : held'[u][l] <= held[u][l]
    BY <1>1, <1>2
  <2>2. recursives' = recursives
    BY <1>1 DEF RecHandle, ObjectType, NoEvent
  <2> QED
    BY <1>1, <1>2, <2>1, <2>2, NotLocked
<1>4. CASE object[l].kind # "rec_mutex" \/ ~recursives[l].tracked
  BY <1>1, <1>2, <1>3, <1>4 DEF RecRight
<1>5. CASE object[l].kind = "rec_mutex" /\ recursives[l].tracked
  <2>1. held[t][l] > 0
    BY <1>1, <1>5 DEF SyncInv, HoldInv
  <2>2. \A u \in Threads : u # t => held[u][l] = 0 /\ ~Doing(u, "acquired", l)
    BY <1>5, <2>1, HolderAlone
  <2>3. RecTracked(l)
    BY <1>2, <1>5 DEF RecRight
  <2>4. \A u \in Threads : ~Recorded(u, l)
    BY <1>1, <2>2 DEF Recorded
  <2>5. /\ recursion[l] = "locked" /\ recursives[l].locked /\ ~recursives[l].owned
        /\ \A u \in Threads : held[u][l] <= 1
    BY <1>1, <2>1, <2>2, <2>3, <2>4 DEF RecTracked, RecTypes
  <2>6. \A u \in Threads : held'[u][l] = 0
    BY <1>1, <1>2, <2>1, <2>2, <2>5
  <2>7. \A u \in Threads : ~Recorded(u, l)'
    BY <2>6 DEF Recorded
  <2>8. RecTracked(l)'
    BY <1>3, <2>5, <2>6, <2>7 DEF RecTracked
  <2> QED
    BY <1>1, <1>2, <1>3, <1>5, <2>8 DEF RecRight
<1> QED
  BY <1>4, <1>5

LEMMA RecTypesNext ==
    ASSUME RecTypes, Quiet(event') \/ LockEvent(event'), NEW d,
           (RecHandle(event', d) /\ RecObserve) \/ UNCHANGED recVars
    PROVE  RecTypes'
<1>1. CASE UNCHANGED recVars
  BY <1>1 DEF recVars, RecTypes
<1>2. CASE RecHandle(event', d) /\ RecObserve
  <2>1. recursives' \in [Locks -> RecEntries]
    <3>1. event'.object \in Locks \/ ObjectType(event', d) # "rec_mutex"
      BY DEF Quiet, LockEvent, ObjectType
    <3> QED
      BY <1>2, <3>1, RecEffects
  <2>2. recursion' \in [Locks -> {"none", "locked", "recursed"}]
    <3>1. ASSUME NEW l \in Locks
          PROVE  (IF object'[l].id # object[l].id THEN "none"
                  ELSE CASE Lockers(l) = {} -> recursion[l]
                         [] \E t \in Lockers(l) : held[t][l] > 0 -> "recursed"
                         [] OTHER -> IF recursion[l] = "none" THEN "locked"
                                     ELSE recursion[l])
                     \in {"none", "locked", "recursed"}
      <4>1. recursion[l] \in {"none", "locked", "recursed"}
        BY DEF RecTypes
      <4>2. CASE Lockers(l) = {}
        BY <4>1, <4>2
      <4>3. CASE Lockers(l) # {}
        BY <4>1, <4>3
      <4> QED
        BY <4>2, <4>3
    <3> QED
      BY <1>2, <3>1 DEF RecObserve
  <2> QED
    BY <2>1, <2>2 DEF RecTypes
<1> QED
  BY <1>1, <1>2

LEMMA NextRec == SyncInv /\ DbInv /\ RecInv /\ [Next]_vars => RecInv'
<1> SUFFICES ASSUME SyncInv, DbInv, RecInv, [Next]_vars PROVE RecInv'
  OBVIOUS
<1>0. SyncInv'
  BY NextSync
<1>1. CASE UNCHANGED <<object, held, shared, pc, recVars>>
           /\ (analysis = "terminated" => analysis' = analysis)
  <2>1. RecTypes'
    BY <1>1 DEF RecInv, RecTypes, recVars
  <2>2. \A l \in Locks : Apart(l)
    BY <1>1 DEF Apart, Doing
  <2>3. \A l \in Locks : RecRight(l) => RecRight(l)'
    BY <1>1, <2>2, RecFrame DEF recVars
  <2> QED
    BY <1>1, <2>1, <2>3 DEF RecInv
<1>2. CASE ProgramStep
  <2>1. PICK pick \in Picks : Handled(pick) \/ Terminated
    BY <1>2, HandleCases
  <2>2. analysis = "running" /\ SyncNext
    BY <1>2, HandleCases
  <2>3. CASE Terminated
    BY <2>3 DEF Terminated, analyzerVars, recVars, RecInv, RecTypes
  <2>4. CASE Handled(pick) /\ "redundant-recursive-mutex" \notin Analyzers
    BY <2>4 DEF Handled, Analyze, recVars, RecInv, RecTypes
  <2>5. CASE Handled(pick) /\ "redundant-recursive-mutex" \in Analyzers
    <3>1. RecHandle(event', Before(event')) /\ RecObserve
      BY <2>5 DEF Handled, Analyze
    <3>2. RecTypes /\ \A l \in Locks \ StaticLocks : RecRight(l)
      BY <2>2, <2>5 DEF RecInv
    <3>3. RecTypes'
      BY <2>2, <3>1, <3>2, EventCases, RecTypesNext
    <3>4. \A x \in Locks : x # event'.object => recursives'[x] = recursives[x]
      BY <3>1, <3>2, RecEffects
    <3>5. event' = NoEvent => recursives' = recursives
      BY <3>1 DEF RecHandle, ObjectType, NoEvent
    <3> SUFFICES ASSUME NEW x \in Locks \ StaticLocks PROVE RecRight(x)'
      BY <3>3 DEF RecInv
    <3>6. Apart(x) /\ recursives'[x] = recursives[x] => RecRight(x)'
      BY <3>1, <3>2, ApartRec
    <3>7. CASE \E t \in Threads, l \in Locks, k \in Kinds :
                   CreateLock(t, l, k) /\ \A y \in Locks : y # l => Apart(y)
      <4>1. PICK t \in Threads, l \in Locks, k \in Kinds :
                CreateLock(t, l, k) /\ \A y \in Locks : y # l => Apart(y)
        BY <3>7
      <4>2. event'.object = l
        BY <4>1 DEF CreateLock, Event
      <4> QED
        BY <2>2, <3>1, <3>2, <3>4, <3>6, <4>1, <4>2, CreateRec
    <3>8. CASE \E t \in Threads, l \in Locks :
                   DestroyLock(t, l) /\ \A y \in Locks : y # l => Apart(y)
      <4>1. PICK t \in Threads, l \in Locks :
                DestroyLock(t, l) /\ \A y \in Locks : y # l => Apart(y)
        BY <3>8
      <4>2. event'.object = l
        BY <4>1 DEF DestroyLock, Event
      <4> QED
        BY <3>1, <3>2, <3>4, <3>6, <4>1, <4>2, DestroyRec
    <3>9. CASE \E t \in Threads, l \in Locks, m \in {"rd", "wr"} :
                   Takes(t, l, m) /\ \A y \in Locks : y # l => Apart(y)
      <4>1. PICK t \in Threads, l \in Locks, m \in {"rd", "wr"} :
                Takes(t, l, m) /\ \A y \in Locks : y # l => Apart(y)
        BY <3>9
      <4>2. recursives' = recursives
        BY <3>5, <4>1 DEF Takes
      <4> QED
        BY <3>1, <3>2, <3>6, <4>1, <4>2, TakesRec
    <3>10. CASE \E t \in Threads, l \in Locks, m \in {"rd", "wr"} :
                    CapturesTaken(t, l, m) /\ \A y \in Locks : y # l => Apart(y)
      <4>1. PICK t \in Threads, l \in Locks, m \in {"rd", "wr"} :
                CapturesTaken(t, l, m) /\ \A y \in Locks : y # l => Apart(y)
        BY <3>10
      <4>2. event'.object = l
        BY <4>1 DEF CapturesTaken, Event
      <4> QED
        BY <3>1, <3>2, <3>4, <3>6, <4>1, <4>2, CapturesRec
    <3>11. CASE \E t \in Threads, l \in Locks :
                    CapturesUnlock(t, l) /\ \A y \in Locks : y # l => Apart(y)
      <4>1. PICK t \in Threads, l \in Locks :
                CapturesUnlock(t, l) /\ \A y \in Locks : y # l => Apart(y)
        BY <3>11
      <4>2. event'.object = l
        BY <4>1 DEF CapturesUnlock, Event
      <4> QED
        BY <3>1, <3>2, <3>4, <3>6, <4>1, <4>2, UnlockRec
    <3>12. CASE \E t \in Threads, l \in Locks :
                    LetsGo(t, l) /\ \A y \in Locks : y # l => Apart(y)
      <4>1. PICK t \in Threads, l \in Locks :
                LetsGo(t, l) /\ \A y \in Locks : y # l => Apart(y)
        BY <3>12
      <4>2. recursives' = recursives
        BY <3>5, <4>1 DEF LetsGo
      <4> QED
        BY <1>0, <3>1, <3>2, <3>6, <4>1, <4>2, LetsGoRec
    <3>13. CASE Passes
      <4>1. recursives' = recursives
        BY <3>1, <3>2, <3>13, RecEffects DEF Passes, Quiet, ObjectType
      <4> QED
        BY <3>6, <3>13, <4>1 DEF Passes
    <3> QED
      BY <2>2, <3>7, <3>8, <3>9, <3>10, <3>11, <3>12, <3>13, StepCases
  <2> QED
    BY <2>1, <2>3, <2>4, <2>5
<1> QED
  BY <1>1, <1>2 DEF Next, ShutDown, vars, syncVars, analyzerVars

\* What the analyzer keeps of a recursive mutex is what was done with it: its
\* owner is the thread whose lock is captured and whose unlock is not, and an
\* entry is let go only for a lock by the thread that had the mutex already.
THEOREM RecInvariance == Spec => []RecInv
BY InitRec, NextRec, ProgramInvariance, DatabaseInvariance, PTL DEF Spec

LEMMA RecVerdictRight ==
    ASSUME RecTypes, NEW l \in Locks, object[l].alive, object[l].kind = "rec_mutex",
           RecRight(l), \A t \in Threads : ~Doing(t, "acquired", l)
    PROVE  <<"not recursive", l>> \in RecVerdict(l) <=> recursion[l] = "locked"
<1>1. recursives[l].locked <=> recursion[l] = "locked"
  BY DEF RecRight, RecTracked, RecTypes, RecUntracked
<1> QED
  BY <1>1 DEF RecVerdict

LEMMA RecExactNext ==
    SyncInv /\ DbInv /\ RecInv /\ RecExact /\ "redundant-recursive-mutex" \in Analyzers
        /\ [Next]_vars => RecExact'
<1> SUFFICES ASSUME SyncInv, DbInv, RecInv, RecExact,
                    "redundant-recursive-mutex" \in Analyzers, [Next]_vars
             PROVE  RecExact'
  OBVIOUS
<1>1. CASE UNCHANGED vars
  BY <1>1 DEF RecExact, Judged, Settled, vars, syncVars, analyzerVars, recVars
<1>2. CASE Next
  <2> SUFFICES ASSUME NEW l \in Locks, Judged(l)', object'[l].kind = "rec_mutex"
               PROVE  <<"not recursive", l>> \in reported' <=> recursion'[l] = "locked"
    BY DEF RecExact
  <2>1. l \notin StaticLocks
    BY <1>2, JudgedCases
  <2>2. CASE /\ \E t \in Threads : DestroyLock(t, l)
             /\ \E pick \in Picks : Handled(pick)
             /\ event'.type = "destroy" /\ event'.object = l
    <3>1. PICK t \in Threads : DestroyLock(t, l)
      BY <2>2
    <3>2. PICK pick \in Picks : Handled(pick)
      BY <2>2
    <3>3. object[l].alive /\ analysis = "running" /\ \A u \in Threads : ~Uses(u, l)
      BY <1>2, <3>1, <3>2 DEF DestroyLock, Event, Next, ShutDown, ProgramStep, Handled
    <3>4. RecRight(l) /\ RecTypes
      BY <2>1, <3>3 DEF RecInv
    <3>5. RecHandle(event', Before(event')) /\ RecObserve
      BY <3>2 DEF Handled, Analyze
    <3>6. /\ recursion'[l] = recursion[l] /\ object[l].kind = "rec_mutex"
          /\ ObjectType(event', Before(event')) = "rec_mutex"
      BY <2>1, <3>1, <3>4, <3>5, DestroyRec
    <3>7. RecReports(event', Before(event')) = RecVerdict(l)
      BY <2>2, <3>6 DEF RecReports
    <3>8. <<"not recursive", l>> \in reported' <=> <<"not recursive", l>> \in RecVerdict(l)
      <4>1. reported' = Reports(event', Before(event'), pick)
        BY <3>2 DEF Handled
      <4>2. /\ <<"not recursive", l>> \notin UselessReports(event')
            /\ <<"not recursive", l>> \notin ShadowReports(event', Before(event'), pick)
            /\ <<"not recursive", l>> \notin RwReports(event')
            /\ <<"not recursive", l>> \notin OrderReports(event')
        <5>1. PICK n : n = "not recursive"
          OBVIOUS
        <5>2. n \notin {"never locked", "one thread"} /\ n \notin {"only read", "only written"}
          BY <5>1
        <5> QED
          BY <5>1, <5>2, ReportWords
      <4> QED
        BY <3>7, <4>1, <4>2, Zenon DEF Reports
    <3>9. \A u \in Threads : ~Doing(u, "acquired", l)
      BY <3>3, UsesMeaning DEF SyncInv, LockSteps
    <3> QED
      BY <3>3, <3>4, <3>6, <3>8, <3>9, RecVerdictRight
  <2>3. CASE /\ ShutDown /\ analysis' = "done"
             /\ \E pick \in Picks : reported' = LastReports(pick)
             /\ object[l].alive /\ Settled(l)
    <3>1. PICK pick \in Picks : reported' = LastReports(pick)
      BY <2>3
    <3>2. RecRight(l) /\ RecTypes /\ recursion' = recursion /\ object[l].kind = "rec_mutex"
      BY <2>1, <2>3 DEF RecInv, ShutDown, analyzerVars, recVars
    <3>3. <<"not recursive", l>> \in reported' <=> <<"not recursive", l>> \in RecVerdict(l)
      <4>1. <<"not recursive", l>> \in RecLastReports <=> <<"not recursive", l>> \in RecVerdict(l)
        BY LastVerdicts
      <4>2. /\ <<"not recursive", l>> \notin UselessLastReports
            /\ <<"not recursive", l>> \notin RwLastReports
        BY LastVerdicts, VerdictWords
      <4>3. <<"not recursive", l>> \notin ShadowLastReports(pick)
        BY VerdictWords
      <4> QED
        BY <3>1, <4>1, <4>2, <4>3, Zenon DEF LastReports
    <3>4. \A u \in Threads : ~Doing(u, "acquired", l)
      BY <2>3, SettledMeaning DEF SyncInv, LockSteps
    <3> QED
      BY <2>3, <3>2, <3>3, <3>4, RecVerdictRight
  <2> QED
    BY <1>2, <2>2, <2>3, JudgedCases
<1> QED
  BY <1>1, <1>2

\* redundant-recursive-mutex warns of exactly the recursive mutexes that were
\* locked, and never by the thread that had them: for any number of threads the
\* file never shows a second lock before an unlock that is not a recursion.
THEOREM RedundantRecursiveMutexIsExact ==
    ASSUME "redundant-recursive-mutex" \in Analyzers
    PROVE  Spec => []RecExact
<1>1. Init => RecExact
  BY DEF Init, SyncInit, RecExact, Judged
<1>2. SyncInv /\ DbInv /\ RecInv /\ RecExact /\ [Next]_vars => RecExact'
  BY RecExactNext
<1> QED
  BY <1>1, <1>2, ProgramInvariance, DatabaseInvariance, RecInvariance, PTL DEF Spec

-----------------------------------------------------------------------------
(* mutex-lock-order.                                                       *)

OrderTypes ==
    /\ owned \in [Threads -> SUBSET Locks]
    /\ edges \subseteq Locks \X Locks

\* What a thread has and the file knows of is among what it owns, which is never
\* taken away, and edges has every pair really locked one inside the other.
OrderRight ==
    /\ \A t \in Threads, k \in Locks :
           held[t][k] > 0 /\ object[k].kind # "rwlock" /\ ~Doing(t, "acquired", k)
               => k \in owned[t]
    /\ nested \subseteq edges

OrderInv ==
    /\ OrderTypes
    /\ "mutex-lock-order" \in Analyzers /\ analysis # "terminated" => OrderRight
    /\ "mutex-lock-order" \notin Analyzers => nested = {}

LEMMA InitOrder == Init => OrderInv
BY DEF Init, SyncInit, OrderInit, OrderInv, OrderTypes, OrderRight

\* What the analyzer and the history make of an event.
LEMMA OrderEffects ==
    ASSUME OrderTypes, OrderHandle(event'), OrderObserve, Quiet(event') \/ LockEvent(event')
    PROVE  /\ OrderTypes'
           /\ \A t \in Threads : owned[t] \subseteq owned'[t]
           /\ edges \subseteq edges'
           /\ event'.bits # "mutex" \/ event'.type # "after" => nested' = nested
           /\ event'.bits = "mutex" /\ event'.type = "after" =>
                  /\ event'.object \in owned'[event'.thread]
                  /\ \A k \in owned[event'.thread] : <<k, event'.object>> \in edges'
                  /\ \A p \in nested' :
                         \/ p \in nested
                         \/ /\ p[2] = event'.object /\ p = <<p[1], p[2]>> /\ p[1] # p[2]
                            /\ p[1] \in Locks /\ held[event'.thread][p[1]] > 0
                            /\ object[p[1]].kind # "rwlock"
<1>1. CASE event'.bits # "mutex" \/ event'.type # "after"
  <2>1. UNCHANGED <<owned, edges>> /\ nested' = nested
    BY <1>1 DEF OrderHandle, OrderObserve, Nesting
  <2> QED
    BY <1>1, <2>1 DEF OrderTypes
<1>2. CASE event'.bits = "mutex" /\ event'.type = "after"
  <2>1. PICK t, l, own : /\ t = event'.thread /\ l = event'.object
                         /\ own = owned[t] \cup {l}
    OBVIOUS
  <2>2. t \in Threads /\ l \in Locks
    BY <1>2, <2>1 DEF Quiet, LockEvent
  <2>3. /\ owned' = [owned EXCEPT ![t] = own]
        /\ edges' = edges \cup (own \X {l})
    BY <1>2, <2>1 DEF OrderHandle, OwnedAfter
  <2>4. own \subseteq Locks /\ owned'[t] = own /\ \A u \in Threads : owned[u] \subseteq owned'[u]
    BY <2>1, <2>2, <2>3 DEF OrderTypes
  <2>5. OrderTypes'
    BY <2>2, <2>3, <2>4 DEF OrderTypes
  <2>6. \A k \in owned[t] : <<k, l>> \in edges'
    BY <2>1, <2>3
  <2>7. nested' = nested \cup
            {p \in {k \in Locks : held[t][k] > 0 /\ object[k].kind # "rwlock"} \X {l} :
                 p[1] # p[2]}
    BY <1>2, <2>1 DEF OrderObserve, Nesting
  <2>8. ASSUME NEW p \in nested', p \notin nested
        PROVE  /\ p[2] = l /\ p = <<p[1], p[2]>> /\ p[1] # p[2] /\ p[1] \in Locks
               /\ held[t][p[1]] > 0 /\ object[p[1]].kind # "rwlock"
    BY <2>7, <2>8
  <2> QED
    BY <1>2, <2>1, <2>3, <2>4, <2>5, <2>6, <2>8
<1> QED
  BY <1>1, <1>2

\* A step that gives nobody a lock.
LEMMA OrderKept ==
    ASSUME OrderTypes, OrderRight, nested' = nested, edges \subseteq edges',
           \A t \in Threads : owned[t] \subseteq owned'[t],
           \A t \in Threads, k \in Locks :
               held'[t][k] > 0 /\ object'[k].kind # "rwlock" /\ ~Doing(t, "acquired", k)'
                   => /\ held[t][k] > 0 /\ object[k].kind # "rwlock"
                      /\ ~Doing(t, "acquired", k)
    PROVE  OrderRight'
BY DEF OrderRight

LEMMA CapturesOrder ==
    ASSUME SyncInv, OrderTypes, OrderRight, OrderHandle(event'), OrderObserve,
           NEW t \in Threads, NEW l \in Locks, NEW m \in {"rd", "wr"},
           CapturesTaken(t, l, m), \A x \in Locks : x # l => Apart(x)
    PROVE  OrderRight'
<1>1. /\ UNCHANGED <<object, held>> /\ Doing(t, "acquired", l)
      /\ event'.type = "after" /\ event'.object = l /\ event'.thread = t
      /\ (event'.bits = "mutex" <=> object[l].kind # "rwlock")
      /\ \A u \in Threads : u # t => pc'[u] = pc[u]
      /\ LockEvent(event')
  BY DEF CapturesTaken, Event, Bits, LockEvent
<1>2. /\ \A u \in Threads : owned[u] \subseteq owned'[u]
      /\ edges \subseteq edges'
  BY <1>1, OrderEffects
<1>3. ASSUME NEW u \in Threads, NEW k \in Locks, held'[u][k] > 0, object'[k].kind # "rwlock",
             ~Doing(u, "acquired", k)'
      PROVE  k \in owned'[u]
  <2>1. held[u][k] > 0 /\ object[k].kind # "rwlock"
    BY <1>1, <1>3
  <2>2. CASE u = t /\ k = l
    BY <1>1, <2>1, <2>2, OrderEffects
  <2>3. CASE ~(u = t /\ k = l)
    <3>1. ~Doing(u, "acquired", k)
      BY <1>1, <1>3, <2>3 DEF Doing
    <3>2. k \in owned[u]
      BY <2>1, <3>1 DEF OrderRight
    <3> QED
      BY <1>2, <3>2
  <2> QED
    BY <2>2, <2>3
<1>4. nested' \subseteq edges'
  <2>1. CASE object[l].kind = "rwlock"
    <3>1. nested' = nested
      BY <1>1, <2>1, OrderEffects
    <3> QED
      BY <1>2, <3>1 DEF OrderRight
  <2>2. CASE object[l].kind # "rwlock"
    <3> SUFFICES ASSUME NEW p \in nested' PROVE p \in edges'
      OBVIOUS
    <3>1. CASE p \in nested
      BY <1>2, <3>1 DEF OrderRight
    <3>2. CASE p \notin nested
      <4>1. /\ p[2] = l /\ p = <<p[1], p[2]>> /\ p[1] # p[2] /\ p[1] \in Locks
            /\ held[t][p[1]] > 0 /\ object[p[1]].kind # "rwlock"
        BY <1>1, <2>2, <3>2, OrderEffects
      <4>2. ~Doing(t, "acquired", p[1])
        BY <1>1, <4>1 DEF Doing
      <4>3. p[1] \in owned[t]
        BY <4>1, <4>2 DEF OrderRight
      <4>4. <<p[1], l>> \in edges'
        BY <1>1, <2>2, <4>3, OrderEffects
      <4> QED
        BY <4>1, <4>4
    <3> QED
      BY <3>1, <3>2
  <2> QED
    BY <2>1, <2>2
<1> QED
  BY <1>3, <1>4 DEF OrderRight

LEMMA NextOrder == SyncInv /\ OrderInv /\ [Next]_vars => OrderInv'
<1> SUFFICES ASSUME SyncInv, OrderInv, [Next]_vars PROVE OrderInv'
  OBVIOUS
<1>0. SyncInv'
  BY NextSync
<1>1. CASE UNCHANGED <<object, held, pc, orderVars>>
           /\ (analysis = "terminated" => analysis' = analysis)
  <2>1. OrderTypes' /\ (nested = {} => nested' = {})
    BY <1>1 DEF OrderInv, OrderTypes, orderVars
  <2>2. OrderRight => OrderRight'
    BY <1>1 DEF OrderRight, orderVars, Doing
  <2> QED
    BY <1>1, <2>1, <2>2 DEF OrderInv
<1>2. CASE ProgramStep
  <2>1. PICK pick \in Picks : Handled(pick) \/ Terminated
    BY <1>2, HandleCases
  <2>2. analysis = "running" /\ SyncNext
    BY <1>2, HandleCases
  <2>3. CASE Terminated
    BY <2>3 DEF Terminated, analyzerVars, orderVars, OrderInv, OrderTypes
  <2>4. CASE Handled(pick) /\ "mutex-lock-order" \notin Analyzers
    BY <2>4 DEF Handled, Analyze, orderVars, OrderInv, OrderTypes
  <2>5. CASE Handled(pick) /\ "mutex-lock-order" \in Analyzers
    <3>1. OrderHandle(event') /\ OrderObserve /\ (Quiet(event') \/ LockEvent(event'))
      BY <2>2, <2>5, EventCases DEF Handled, Analyze
    <3>2. OrderTypes /\ OrderRight
      BY <2>2, <2>5 DEF OrderInv
    <3>3. /\ OrderTypes' /\ edges \subseteq edges'
          /\ \A t \in Threads : owned[t] \subseteq owned'[t]
      BY <3>1, <3>2, OrderEffects
    <3>4. \A u \in Threads, x \in Locks : held[u][x] \in Nat /\ held'[u][x] \in Nat
      BY <1>0, BoundsAssumption DEF SyncInv, SyncTypeOK
    <3> SUFFICES OrderRight'
      BY <2>5, <3>3 DEF OrderInv
    <3>5. CASE \E t \in Threads, l \in Locks, m \in {"rd", "wr"} :
                   CapturesTaken(t, l, m) /\ \A y \in Locks : y # l => Apart(y)
      BY <3>1, <3>2, <3>5, CapturesOrder
    <3>6. CASE \/ \E t \in Threads, l \in Locks, k \in Kinds :
                      CreateLock(t, l, k) /\ \A x \in Locks : x # l => Apart(x)
               \/ \E t \in Threads, l \in Locks :
                      DestroyLock(t, l) /\ \A x \in Locks : x # l => Apart(x)
      <4>1. PICK t \in Threads, l \in Locks :
                /\ DestroyLock(t, l) \/ \E k \in Kinds : CreateLock(t, l, k)
                /\ \A x \in Locks : x # l => Apart(x)
        BY <3>6
      <4>2. event'.type # "after" /\ UNCHANGED held
        BY <4>1 DEF CreateLock, DestroyLock, Event
      <4>3. \A u \in Threads : ~(held'[u][l] > 0)
        <5>1. CASE DestroyLock(t, l)
          BY <4>2, <5>1, UsesMeaning DEF DestroyLock, SyncInv
        <5>2. CASE \E k \in Kinds : CreateLock(t, l, k)
          BY <4>2, <5>2 DEF CreateLock, SyncInv, HoldInv
        <5> QED
          BY <4>1, <5>1, <5>2
      <4>4. nested' = nested
        BY <3>1, <3>2, <4>2, OrderEffects
      <4> QED
        BY <3>2, <3>3, <4>1, <4>3, <4>4, OrderKept DEF Apart
    <3>7. CASE \E t \in Threads, l \in Locks, m \in {"rd", "wr"} :
                   Takes(t, l, m) /\ \A x \in Locks : x # l => Apart(x)
      <4>1. PICK t \in Threads, l \in Locks, m \in {"rd", "wr"} :
                Takes(t, l, m) /\ \A x \in Locks : x # l => Apart(x)
        BY <3>7
      <4>2. /\ UNCHANGED object /\ event' = NoEvent /\ Doing(t, "acquired", l)'
            /\ \A u \in Threads : u # t => held'[u][l] = held[u][l] /\ pc'[u] = pc[u]
        BY <4>1 DEF Takes
      <4>3. nested' = nested
        BY <3>1, <3>2, <4>2, OrderEffects DEF NoEvent
      <4>4. \A u \in Threads : u # t => (Doing(u, "acquired", l)' <=> Doing(u, "acquired", l))
        BY <4>2 DEF Doing
      <4> QED
        BY <3>2, <3>3, <4>1, <4>2, <4>3, <4>4, OrderKept DEF Apart
    <3>8. CASE \E t \in Threads, l \in Locks :
                   /\ CapturesUnlock(t, l) \/ LetsGo(t, l)
                   /\ \A x \in Locks : x # l => Apart(x)
      <4>1. PICK t \in Threads, l \in Locks :
                /\ CapturesUnlock(t, l) \/ LetsGo(t, l)
                /\ \A x \in Locks : x # l => Apart(x)
        BY <3>8
      <4>2. /\ UNCHANGED object /\ event'.type # "after"
            /\ \A u \in Threads : held'[u][l] > 0 => held[u][l] > 0
            /\ \A u \in Threads : u # t => pc'[u] = pc[u]
            /\ ~Doing(t, "acquired", l)
        BY <3>4, <4>1 DEF CapturesUnlock, LetsGo, Event, NoEvent
      <4>3. nested' = nested
        BY <3>1, <3>2, <4>2, OrderEffects
      <4>4. \A u \in Threads : u # t => (Doing(u, "acquired", l)' <=> Doing(u, "acquired", l))
        BY <4>2 DEF Doing
      <4> QED
        BY <3>2, <3>3, <4>1, <4>2, <4>3, <4>4, OrderKept DEF Apart
    <3>9. CASE Passes
      <4>1. event'.type # "after"
        BY <3>9 DEF Passes, Quiet
      <4>2. nested' = nested
        BY <3>1, <3>2, <4>1, OrderEffects
      <4> QED
        BY <3>2, <3>3, <3>9, <4>2, OrderKept DEF Apart, Passes
    <3> QED
      BY <2>2, <3>5, <3>6, <3>7, <3>8, <3>9, StepCases
  <2> QED
    BY <2>1, <2>3, <2>4, <2>5
<1> QED
  BY <1>1, <1>2 DEF Next, ShutDown, vars, syncVars, analyzerVars

\* mutex-lock-order knows of every mutex that a thread has, and of every order in
\* which two mutexes were locked one inside the other.
THEOREM OrderInvariance == Spec => []OrderInv
BY InitOrder, NextOrder, ProgramInvariance, PTL DEF Spec

LEMMA OrderCompleteNext == SyncInv /\ OrderInv /\ OrderComplete /\ [Next]_vars => OrderComplete'
<1> SUFFICES ASSUME SyncInv, OrderInv, OrderComplete, [Next]_vars PROVE OrderComplete'
  OBVIOUS
<1>1. CASE UNCHANGED vars
  BY <1>1 DEF OrderComplete, vars, syncVars, analyzerVars, orderVars
<1>2. CASE ShutDown
  BY <1>2 DEF ShutDown, NoEvent, OrderComplete
<1>3. CASE ProgramStep
  <2> SUFFICES ASSUME analysis' = "running", event'.type = "before", event'.bits = "mutex",
                      NEW k \in Locks, held'[event'.thread][k] > 0,
                      object'[k].kind # "rwlock", <<event'.object, k>> \in nested'
               PROVE  <<"order", event'.object, k>> \in reported'
    BY DEF OrderComplete
  <2>1. PICK pick \in Picks : Handled(pick)
    BY <1>3, HandleCases DEF Terminated
  <2>2. analysis = "running" /\ SyncNext
    BY <1>3, HandleCases
  <2>3. CASE "mutex-lock-order" \notin Analyzers
    BY <2>1, <2>3 DEF Handled, Analyze, orderVars, OrderInv
  <2>4. CASE "mutex-lock-order" \in Analyzers
    <3>1. OrderTypes /\ OrderRight
      BY <2>2, <2>4 DEF OrderInv
    <3>2. OrderHandle(event') /\ OrderObserve /\ (Quiet(event') \/ LockEvent(event'))
      BY <2>1, <2>2, <2>4, EventCases DEF Handled, Analyze
    <3>3. nested' = nested
      BY <3>1, <3>2, OrderEffects
    <3>4. <<event'.object, k>> \in edges
      BY <3>1, <3>3 DEF OrderRight
    <3>5. PICK t \in Threads, l \in Locks, type \in {"before", "try"}, m \in {"rd", "wr"} :
              RequestLock(t, l, m, type)
      <4>1. PICK t \in Threads :
                \/ \E l \in Locks, k1 \in Kinds : CreateLock(t, l, k1)
                \/ \E l \in Locks : DestroyLock(t, l)
                \/ \E l \in Locks, type \in {"before", "try"} :
                       \E m \in Modes(l) : RequestLock(t, l, m, type)
                \/ Acquire(t) \/ AcquireFails(t) \/ CaptureAcquired(t)
                \/ \E l \in Locks : CaptureUnlock(t, l)
                \/ Release(t)
                \/ ThreadStep(t)
        BY <2>2, ProgramCases
      <4>2. ~(Acquire(t) \/ AcquireFails(t) \/ Release(t) \/ ThreadStep(t))
        BY QuietSteps DEF Quiet
      <4> QED
        BY <4>1, <4>2 DEF CreateLock, DestroyLock, CaptureAcquired, CaptureUnlock, Event, Modes
    <3>6. /\ UNCHANGED <<object, held>> /\ pc[t] = Idle /\ event'.thread = t
      BY <3>5 DEF RequestLock, Ready, Event
    <3>7. ~Doing(t, "acquired", k)
      BY <3>6, IdleFacts DEF Doing, LockSteps
    <3>8. k \in owned[event'.thread]
      BY <3>1, <3>6, <3>7 DEF OrderRight
    <3>9. <<"order", event'.object, k>> \in OrderReports(event')
      BY <3>4, <3>8 DEF OrderReports
    <3> QED
      BY <2>1, <3>9 DEF Handled, Reports
  <2> QED
    BY <2>3, <2>4
<1> QED
  BY <1>1, <1>2, <1>3 DEF Next

\* When a thread that has a mutex asks for another and the two were ever locked
\* in the opposite order, mutex-lock-order reports it before the thread can wait.
THEOREM LockOrderIsComplete == Spec => []OrderComplete
<1>1. Init => OrderComplete
  BY DEF Init, SyncInit, OrderComplete
<1>2. SyncInv /\ OrderInv /\ OrderComplete /\ [Next]_vars => OrderComplete'
  BY OrderCompleteNext
<1> QED
  BY <1>1, <1>2, ProgramInvariance, OrderInvariance, PTL DEF Spec

-----------------------------------------------------------------------------
(* lock-shadow: what the file says each thread has.                        *)

Copies(e, B) == IF e \in DOMAIN B THEN B[e] ELSE 0

\* Bag C has one more copy of e than bag B, and is otherwise the same.
OneMoreCopy(B, e, C) ==
    /\ IsABag(C) /\ Copies(e, C) = Copies(e, B) + 1
    /\ \A x : x # e => Copies(x, C) = Copies(x, B)
    /\ DOMAIN C = DOMAIN B \cup {e}

LEMMA BagAddsOne ==
    ASSUME NEW B, IsABag(B), NEW e, NEW C, C = B (+) SetToBag({e})
    PROVE  OneMoreCopy(B, e, C)
<1>1. DOMAIN SetToBag({e}) = {e} /\ SetToBag({e})[e] = 1
  BY DEF SetToBag
<1>2. /\ DOMAIN C = DOMAIN B \cup {e}
      /\ \A x \in DOMAIN B : x # e => C[x] = B[x] + 0
      /\ C[e] = (IF e \in DOMAIN B THEN B[e] ELSE 0) + 1
  BY <1>1 DEF (+)
<1>3. \A x \in DOMAIN B : B[x] \in Nat /\ B[x] > 0
  BY DEF IsABag
<1>4. \A x \in DOMAIN C : C[x] \in Nat /\ C[x] > 0
  BY <1>2, <1>3
<1>5. C = [x \in DOMAIN C |-> C[x]]
  BY DEF (+)
<1>6. IsABag(C)
  BY <1>4, <1>5 DEF IsABag
<1> QED
  BY <1>2, <1>3, <1>6 DEF Copies, OneMoreCopy

LEMMA BagLosesOne ==
    ASSUME NEW B, IsABag(B), NEW e, NEW C, C = B (-) SetToBag({e})
    PROVE  /\ IsABag(C)
           /\ Copies(e, C) = IF e \in DOMAIN B THEN Copies(e, B) - 1 ELSE 0
           /\ \A x : x # e => Copies(x, C) = Copies(x, B)
           /\ DOMAIN C \subseteq DOMAIN B
<1>1. DOMAIN SetToBag({e}) = {e} /\ SetToBag({e})[e] = 1
  BY DEF SetToBag
<1> DEFINE D == [x \in DOMAIN B |-> IF x \in DOMAIN SetToBag({e})
                                    THEN B[x] - SetToBag({e})[x] ELSE B[x]]
           R == {x \in DOMAIN D : D[x] > 0}
<1>2. C = [x \in R |-> D[x]]
  BY DEF (-)
<1>3. \A x \in DOMAIN B : B[x] \in Nat /\ B[x] > 0
  BY DEF IsABag
<1>4. \A x \in DOMAIN B : D[x] = IF x = e THEN B[x] - 1 ELSE B[x]
  BY <1>1
<1>5. DOMAIN D = DOMAIN B
  OBVIOUS
<1> HIDE DEF D
<1>6. DOMAIN C = R /\ \A x \in R : C[x] = D[x]
  BY <1>2
<1>7. \A x : x \in R <=> x \in DOMAIN B /\ (x = e => B[x] > 1)
  BY <1>3, <1>4, <1>5
<1> HIDE DEF R
<1>8. \A x \in DOMAIN C : C[x] \in Nat /\ C[x] > 0
  BY <1>3, <1>4, <1>6, <1>7
<1>9. C = [x \in DOMAIN C |-> C[x]]
  BY <1>2, <1>6
<1>10. IsABag(C)
  BY <1>8, <1>9 DEF IsABag
<1> QED
  BY <1>3, <1>4, <1>6, <1>7, <1>10 DEF Copies

\* The captures still due of what thread t has: 1 before that of a lock, and 1
\* after that of an unlock.
Due(t, l) ==
    IF (Doing(t, "acquired", l) /\ pc[t][3] = "wr") \/ (Doing(t, "unlock", l) /\ held[t][l] > 0)
    THEN 1 ELSE 0

\* What the file says thread t has of l.
Noted(t, l) == held[t][l] - Due(t, l)

LogRight ==
    \A t \in Threads :
        /\ \A l \in Locks : Copies(<<l, object[l].id>>, threadLocks[t]) = Noted(t, l)
        /\ \A e \in DOMAIN threadLocks[t] : \E l \in Locks : e = <<l, object[l].id>>

LogTypes ==
    /\ DOMAIN threadLocks = Threads
    /\ \A t \in Threads : IsABag(threadLocks[t])

LogInv ==
    /\ LogTypes
    /\ "lock-shadow" \in Analyzers /\ analysis # "terminated" => LogRight
    /\ "lock-shadow" \notin Analyzers =>
           \A t \in Threads : DOMAIN threadLocks[t] = {}

LEMMA InitLog == Init => LogInv
<1> SUFFICES ASSUME Init PROVE LogInv
  OBVIOUS
<1>1. threadLocks = [t \in Threads |-> EmptyBag]
  BY DEF Init, ShadowInit
<1>2. DOMAIN EmptyBag = {} /\ IsABag(EmptyBag)
  BY DEF EmptyBag, SetToBag, IsABag
<1>3. \A t \in Threads, l \in Locks : held[t][l] = 0 /\ Noted(t, l) = 0
  BY IdleFacts DEF Init, SyncInit, Noted, Due, Doing, LockSteps
<1>4. LogTypes
  BY <1>1, <1>2 DEF LogTypes
<1>5. LogRight
  BY <1>1, <1>2, <1>3 DEF LogRight, Copies
<1> QED
  BY <1>1, <1>2, <1>4, <1>5 DEF LogInv

\* What lock-shadow makes of an event: only captures after a lock for writing
\* and before an unlock change what a thread has.
LEMMA LogEffects ==
    ASSUME LogTypes, NEW d, ShadowHandle(event', d), event'.thread \in Threads
    PROVE  LET t == event'.thread
               e == CreateEvent(event'.object, d)
           IN  /\ LogTypes'
               /\ \A u \in Threads : u # t => threadLocks'[u] = threadLocks[u]
               /\ event'.type # "unlock" /\ (event'.type = "after" => event'.mode # "wr") =>
                      threadLocks'[t] = threadLocks[t]
               /\ event'.type = "after" /\ event'.mode = "wr" =>
                      /\ Copies(e, threadLocks'[t]) = Copies(e, threadLocks[t]) + 1
                      /\ \A x : x # e => Copies(x, threadLocks'[t]) = Copies(x, threadLocks[t])
                      /\ DOMAIN threadLocks'[t] = DOMAIN threadLocks[t] \cup {e}
               /\ event'.type = "unlock" =>
                      /\ Copies(e, threadLocks'[t]) =
                             IF e \in DOMAIN threadLocks[t] THEN Copies(e, threadLocks[t]) - 1
                             ELSE 0
                      /\ \A x : x # e => Copies(x, threadLocks'[t]) = Copies(x, threadLocks[t])
                      /\ DOMAIN threadLocks'[t] \subseteq DOMAIN threadLocks[t]
<1>1. PICK t, e, own, new : /\ t = event'.thread /\ e = CreateEvent(event'.object, d)
                            /\ own = threadLocks[t] /\ new = ThreadLocksAfter(event', d)
  OBVIOUS
<1>2. t \in Threads /\ IsABag(own) /\ threadLocks' = [threadLocks EXCEPT ![t] = new]
  BY <1>1 DEF LogTypes, ShadowHandle
<1>3. /\ DOMAIN threadLocks' = Threads
      /\ threadLocks'[t] = new
      /\ \A u \in Threads : u # t => threadLocks'[u] = threadLocks[u]
  BY <1>2 DEF LogTypes
<1>4. CASE event'.type = "after" /\ event'.mode = "wr"
  <2>1. new = own (+) SetToBag({e})
    BY <1>1, <1>4 DEF ThreadLocksAfter
  <2>2. /\ IsABag(new) /\ Copies(e, new) = Copies(e, own) + 1
        /\ \A x : x # e => Copies(x, new) = Copies(x, own)
        /\ DOMAIN new = DOMAIN own \cup {e}
    <3>1. OneMoreCopy(own, e, new)
      BY <1>2, <2>1, BagAddsOne
    <3> QED
      BY <3>1 DEF OneMoreCopy
  <2>3. LogTypes'
    BY <1>2, <1>3, <2>2 DEF LogTypes
  <2> QED
    BY <1>1, <1>3, <1>4, <2>2, <2>3
<1>5. CASE event'.type = "unlock"
  <2>1. new = own (-) SetToBag({e})
    BY <1>1, <1>5 DEF ThreadLocksAfter
  <2>2. /\ IsABag(new)
        /\ Copies(e, new) = IF e \in DOMAIN own THEN Copies(e, own) - 1 ELSE 0
        /\ \A x : x # e => Copies(x, new) = Copies(x, own)
        /\ DOMAIN new \subseteq DOMAIN own
    BY <1>2, <2>1, BagLosesOne
  <2>3. LogTypes'
    BY <1>2, <1>3, <2>2 DEF LogTypes
  <2> QED
    BY <1>1, <1>3, <1>5, <2>2, <2>3
<1>6. CASE event'.type # "unlock" /\ (event'.type = "after" => event'.mode # "wr")
  <2>1. new = own
    BY <1>1, <1>6 DEF ThreadLocksAfter
  <2>2. LogTypes'
    BY <1>2, <1>3, <2>1 DEF LogTypes
  <2> QED
    BY <1>1, <1>3, <1>6, <2>1, <2>2
<1> QED
  BY <1>4, <1>5, <1>6

LEMMA NotedApart ==
    ASSUME NEW x \in Locks, Apart(x), NEW u \in Threads
    PROVE  Noted(u, x)' = Noted(u, x)
<1>1. /\ held'[u][x] = held[u][x]
      /\ Doing(u, "acquired", x)' <=> Doing(u, "acquired", x)
      /\ Doing(u, "acquired", x) => pc'[u] = pc[u]
      /\ Doing(u, "unlock", x)' <=> Doing(u, "unlock", x)
  BY DEF Apart
<1>2. Due(u, x)' = Due(u, x)
  BY <1>1 DEF Due
<1> QED
  BY <1>1, <1>2 DEF Noted

\* A thread that a step does not concern.
LEMMA NotedOthers ==
    ASSUME NEW u \in Threads, NEW x \in Locks, held'[u][x] = held[u][x], pc'[u] = pc[u]
    PROVE  Noted(u, x)' = Noted(u, x)
BY DEF Noted, Due, Doing

LEMMA LogKept ==
    ASSUME LogRight, \A u \in Threads : threadLocks'[u] = threadLocks[u],
           \A l \in Locks : object'[l].id = object[l].id,
           \A u \in Threads, l \in Locks : Noted(u, l)' = Noted(u, l)
    PROVE  LogRight'
BY DEF LogRight

\* An event that thread_locks does not depend on.
LEMMA LogPasses ==
    ASSUME LogTypes, NEW d, ShadowHandle(event', d), event'.thread \in Threads,
           event'.type \notin {"after", "unlock"}
    PROVE  \A u \in Threads : threadLocks'[u] = threadLocks[u]
<1>1. \A u \in Threads : u # event'.thread => threadLocks'[u] = threadLocks[u]
  BY LogEffects
<1>2. threadLocks'[event'.thread] = threadLocks[event'.thread]
  BY LogEffects
<1> QED
  BY <1>1, <1>2

\* The create event found for a capture of lock-shadow is the lock's own.
LEMMA CreateEventFound ==
    ASSUME DbInv, NEW pick, Handled(pick), "lock-shadow" \in Analyzers,
           analysis = "running", NEW l \in Locks, event'.object = l,
           event'.type = "unlock" \/ (event'.type = "after" /\ event'.mode = "wr")
    PROVE  Created(l) /\ CreateEvent(l, Before(event')) = <<l, object[l].id>>
<1>1. l \in ShadowLookups(event', pick)
  BY DEF ShadowLookups
<1>2. l \in Lookups(event', pick)
  BY <1>1 DEF Lookups, Enabled
<1>3. l \in Known(Before(event'))
  BY <1>2 DEF Handled
<1>4. Before(event') = db
  BY DEF Before
<1>5. db[l] # NoEntry
  BY <1>3, <1>4 DEF Known
<1>6. Created(l)
  BY <1>5 DEF DbInv
<1>7. db[l] = Entry(l)
  BY <1>6 DEF DbInv
<1>8. db[l].name = object[l].id
  BY <1>7 DEF Entry
<1> QED
  BY <1>4, <1>6, <1>8 DEF CreateEvent

LEMMA CreateLog ==
    ASSUME SyncInv, LogTypes, LogRight, NEW d, ShadowHandle(event', d),
           NEW t \in Threads, NEW l \in Locks, NEW k \in Kinds, CreateLock(t, l, k),
           \A x \in Locks : x # l => Apart(x)
    PROVE  LogRight'
<1>1. /\ object' = [object EXCEPT ![l] = [alive |-> TRUE, kind |-> k, id |-> creations + 1]]
      /\ ~object[l].alive /\ UNCHANGED <<held, pc>>
      /\ event'.type = "create" /\ event'.thread = t
  BY DEF CreateLock, Event
<1>2. \A u \in Threads : threadLocks'[u] = threadLocks[u]
  BY <1>1, LogPasses
<1>3. /\ object'[l].id = creations + 1
      /\ \A x \in Locks : object[x].id <= creations /\ object[x].id \in Nat
      /\ creations \in Nat
      /\ \A u \in Threads, x \in Locks : held[u][x] \in Nat
      /\ \A x \in Locks : x # l => object'[x].id = object[x].id
  BY <1>1, BoundsAssumption DEF SyncInv, SyncTypeOK
<1>4. \A u \in Threads : Noted(u, l) = 0 /\ Noted(u, l)' = 0
  <2>1. \A u \in Threads : ~Doing(u, "acquired", l) /\ ~Doing(u, "unlock", l)
    BY <1>1 DEF SyncInv, CallInv, LockSteps
  <2>2. \A u \in Threads : held[u][l] = 0
    BY <1>1, <1>3 DEF SyncInv, HoldInv
  <2>3. \A u \in Threads : Noted(u, l) = 0
    BY <2>1, <2>2 DEF Noted, Due
  <2> QED
    BY <1>1, <2>3, NotedOthers
<1>5. ASSUME NEW u \in Threads, NEW e \in DOMAIN threadLocks[u]
      PROVE  \E x \in Locks : x # l /\ e = <<x, object[x].id>>
  <2>1. PICK x \in Locks : e = <<x, object[x].id>>
    BY DEF LogRight
  <2>2. Copies(e, threadLocks[u]) > 0
    BY DEF LogTypes, IsABag, Copies
  <2>3. Copies(<<x, object[x].id>>, threadLocks[u]) = Noted(u, x)
    BY DEF LogRight
  <2>4. x # l
    BY <1>4, <2>1, <2>2, <2>3
  <2> QED
    BY <2>1, <2>4
<1>6. ASSUME NEW u \in Threads, NEW x \in Locks
      PROVE  Copies(<<x, object'[x].id>>, threadLocks'[u]) = Noted(u, x)'
  <2>1. CASE x = l
    <3>1. <<l, object'[l].id>> \notin DOMAIN threadLocks[u]
      BY <1>5
    <3> QED
      BY <1>2, <1>4, <2>1, <3>1 DEF Copies
  <2>2. CASE x # l
    BY <1>2, <1>3, <2>2, NotedApart DEF LogRight
  <2> QED
    BY <2>1, <2>2
<1>7. ASSUME NEW u \in Threads, NEW e \in DOMAIN threadLocks'[u]
      PROVE  \E x \in Locks : e = <<x, object'[x].id>>
  BY <1>2, <1>3, <1>5
<1> QED
  BY <1>6, <1>7 DEF LogRight

LEMMA CapturesLog ==
    ASSUME SyncInv, LogTypes, LogRight, NEW d, ShadowHandle(event', d),
           NEW t \in Threads, NEW l \in Locks, NEW m \in {"rd", "wr"}, CapturesTaken(t, l, m),
           m = "wr" => CreateEvent(l, d) = <<l, object[l].id>>,
           \A x \in Locks : x # l => Apart(x)
    PROVE  LogRight'
<1>1. /\ UNCHANGED <<object, held>>
      /\ event'.type = "after" /\ event'.mode = m /\ event'.object = l /\ event'.thread = t
      /\ Doing(t, "acquired", l) /\ pc[t][3] = m /\ ~Doing(t, "unlock", l)
      /\ ~Doing(t, "acquired", l)' /\ ~Doing(t, "unlock", l)'
      /\ \A u \in Threads : u # t => pc'[u] = pc[u]
      /\ held[t][l] \in Nat
  BY BoundsAssumption DEF CapturesTaken, Event, SyncInv, SyncTypeOK
<1>2. PICK e : e = <<l, object[l].id>>
  OBVIOUS
<1>3. /\ \A u \in Threads : u # t => threadLocks'[u] = threadLocks[u]
      /\ m = "rd" => threadLocks'[t] = threadLocks[t]
      /\ m = "wr" => /\ Copies(e, threadLocks'[t]) = Copies(e, threadLocks[t]) + 1
                     /\ \A x : x # e => Copies(x, threadLocks'[t]) = Copies(x, threadLocks[t])
                     /\ DOMAIN threadLocks'[t] = DOMAIN threadLocks[t] \cup {e}
  BY <1>1, <1>2, LogEffects
<1>4. Noted(t, l)' = held[t][l] /\ Noted(t, l) = IF m = "wr" THEN held[t][l] - 1 ELSE held[t][l]
  BY <1>1 DEF Noted, Due
<1>5. ASSUME NEW u \in Threads, NEW x \in Locks, ~(u = t /\ x = l)
      PROVE  Noted(u, x)' = Noted(u, x)
  <2>1. CASE x = l
    BY <1>1, <1>5, <2>1, NotedOthers
  <2>2. CASE x # l
    BY <2>2, NotedApart
  <2> QED
    BY <2>1, <2>2
<1>6. CASE m = "rd"
  <2>1. \A u \in Threads : threadLocks'[u] = threadLocks[u]
    BY <1>3, <1>6
  <2>2. \A u \in Threads, x \in Locks : Noted(u, x)' = Noted(u, x)
    BY <1>4, <1>5, <1>6
  <2> QED
    BY <1>1, <2>1, <2>2, LogKept
<1>7. CASE m = "wr"
  <2>1. ASSUME NEW u \in Threads, NEW x \in Locks
        PROVE  Copies(<<x, object[x].id>>, threadLocks'[u]) = Noted(u, x)'
    <3>1. Copies(<<x, object[x].id>>, threadLocks[u]) = Noted(u, x)
      BY DEF LogRight
    <3>2. CASE u = t /\ x = l
      <4>1. Copies(e, threadLocks'[t]) = held[t][l] - 1 + 1
        BY <1>2, <1>3, <1>4, <1>7, <3>1, <3>2
      <4> QED
        BY <1>1, <1>2, <1>4, <3>2, <4>1
    <3>3. CASE u = t /\ x # l
      <4>1. <<x, object[x].id>> # e
        BY <1>2, <3>3
      <4>2. Copies(<<x, object[x].id>>, threadLocks'[t])
                = Copies(<<x, object[x].id>>, threadLocks[t])
        BY <1>3, <1>7, <4>1
      <4> QED
        BY <1>5, <3>1, <3>3, <4>2
    <3>4. CASE u # t
      BY <1>3, <1>5, <3>1, <3>4
    <3> QED
      BY <3>2, <3>3, <3>4
  <2>2. ASSUME NEW u \in Threads, NEW b \in DOMAIN threadLocks'[u]
        PROVE  \E x \in Locks : b = <<x, object[x].id>>
    <3>1. b \in DOMAIN threadLocks[u] \/ b = e
      BY <1>3, <1>7
    <3> QED
      BY <1>2, <3>1 DEF LogRight
  <2> QED
    BY <1>1, <2>1, <2>2 DEF LogRight
<1> QED
  BY <1>6, <1>7

LEMMA UnlockLog ==
    ASSUME SyncInv, LogTypes, LogRight, NEW d, ShadowHandle(event', d),
           NEW t \in Threads, NEW l \in Locks, CapturesUnlock(t, l),
           CreateEvent(l, d) = <<l, object[l].id>>, \A x \in Locks : x # l => Apart(x)
    PROVE  LogRight'
<1>1. /\ UNCHANGED <<object, held>>
      /\ event'.type = "unlock" /\ event'.object = l /\ event'.thread = t
      /\ ~Doing(t, "acquired", l) /\ ~Doing(t, "unlock", l)
      /\ ~Doing(t, "acquired", l)' /\ Doing(t, "unlock", l)'
      /\ \A u \in Threads : u # t => pc'[u] = pc[u]
      /\ held[t][l] \in Nat
  BY BoundsAssumption DEF CapturesUnlock, Event, SyncInv, SyncTypeOK
<1>2. PICK e : e = <<l, object[l].id>>
  OBVIOUS
<1>3. /\ \A u \in Threads : u # t => threadLocks'[u] = threadLocks[u]
      /\ Copies(e, threadLocks'[t]) =
             IF e \in DOMAIN threadLocks[t] THEN Copies(e, threadLocks[t]) - 1 ELSE 0
      /\ \A x : x # e => Copies(x, threadLocks'[t]) = Copies(x, threadLocks[t])
      /\ DOMAIN threadLocks'[t] \subseteq DOMAIN threadLocks[t]
  BY <1>1, <1>2, LogEffects
<1>4. /\ Noted(t, l) = held[t][l]
      /\ Noted(t, l)' = IF held[t][l] > 0 THEN held[t][l] - 1 ELSE held[t][l]
  BY <1>1 DEF Noted, Due
<1>5. ASSUME NEW u \in Threads, NEW x \in Locks, ~(u = t /\ x = l)
      PROVE  Noted(u, x)' = Noted(u, x)
  <2>1. CASE x = l
    BY <1>1, <1>5, <2>1, NotedOthers
  <2>2. CASE x # l
    BY <2>2, NotedApart
  <2> QED
    BY <2>1, <2>2
<1>6. ASSUME NEW u \in Threads, NEW x \in Locks
      PROVE  Copies(<<x, object[x].id>>, threadLocks'[u]) = Noted(u, x)'
  <2>1. Copies(<<x, object[x].id>>, threadLocks[u]) = Noted(u, x)
    BY DEF LogRight
  <2>2. CASE u = t /\ x = l
    <3>1. e \in DOMAIN threadLocks[t] <=> held[t][l] > 0
      <4>1. e \in DOMAIN threadLocks[t] => Copies(e, threadLocks[t]) > 0
        BY DEF LogTypes, IsABag, Copies
      <4>2. e \notin DOMAIN threadLocks[t] => Copies(e, threadLocks[t]) = 0
        BY DEF Copies
      <4> QED
        BY <1>1, <1>2, <1>4, <2>1, <2>2, <4>1, <4>2
    <3> QED
      BY <1>1, <1>2, <1>3, <1>4, <2>1, <2>2, <3>1
  <2>3. CASE u = t /\ x # l
    <3>1. <<x, object[x].id>> # e
      BY <1>2, <2>3
    <3>2. Copies(<<x, object[x].id>>, threadLocks'[t]) = Copies(<<x, object[x].id>>, threadLocks[t])
      BY <1>3, <3>1
    <3> QED
      BY <1>5, <2>1, <2>3, <3>2
  <2>4. CASE u # t
    BY <1>3, <1>5, <2>1, <2>4
  <2> QED
    BY <2>2, <2>3, <2>4
<1>7. ASSUME NEW u \in Threads, NEW b \in DOMAIN threadLocks'[u]
      PROVE  \E x \in Locks : b = <<x, object[x].id>>
  <2>1. b \in DOMAIN threadLocks[u]
    BY <1>3
  <2> QED
    BY <2>1 DEF LogRight
<1> QED
  BY <1>1, <1>6, <1>7 DEF LogRight

\* The pthread calls themselves leave no trace in the file.
LEMMA CallsNoted ==
    ASSUME SyncInv, NEW t \in Threads, NEW l \in Locks,
           (\E m \in {"rd", "wr"} : Takes(t, l, m)) \/ LetsGo(t, l),
           \A x \in Locks : x # l => Apart(x)
    PROVE  \A u \in Threads, x \in Locks : Noted(u, x)' = Noted(u, x)
<1>1. /\ \A u \in Threads : u # t => pc'[u] = pc[u] /\ held'[u][l] = held[u][l]
      /\ \A u \in Threads, x \in Locks : held[u][x] \in Nat
  BY BoundsAssumption DEF Takes, LetsGo, SyncInv, SyncTypeOK
<1>2. Noted(t, l)' = Noted(t, l)
  <2>1. CASE \E m \in {"rd", "wr"} : Takes(t, l, m)
    <3>1. PICK m \in {"rd", "wr"} : Takes(t, l, m)
      BY <2>1
    <3>2. /\ held'[t][l] = IF m = "wr" THEN held[t][l] + 1 ELSE held[t][l]
          /\ ~Doing(t, "acquired", l) /\ ~Doing(t, "unlock", l)
          /\ Doing(t, "acquired", l)' /\ ~Doing(t, "unlock", l)' /\ pc'[t][3] = m
      BY <3>1 DEF Takes
    <3> QED
      BY <1>1, <3>2 DEF Noted, Due
  <2>2. CASE LetsGo(t, l)
    <3>1. /\ held'[t][l] = IF held[t][l] > 0 THEN held[t][l] - 1 ELSE held[t][l]
          /\ ~Doing(t, "acquired", l) /\ Doing(t, "unlock", l)
          /\ ~Doing(t, "acquired", l)' /\ ~Doing(t, "unlock", l)'
      BY <2>2 DEF LetsGo
    <3> QED
      BY <1>1, <3>1 DEF Noted, Due
  <2> QED
    BY <2>1, <2>2
<1> SUFFICES ASSUME NEW u \in Threads, NEW x \in Locks PROVE Noted(u, x)' = Noted(u, x)
  OBVIOUS
<1>3. CASE x # l
  BY <1>3, NotedApart
<1>4. CASE x = l /\ u # t
  BY <1>1, <1>4, NotedOthers
<1> QED
  BY <1>2, <1>3, <1>4

LEMMA CallsLog ==
    ASSUME SyncInv, LogTypes, LogRight, NEW d, ShadowHandle(event', d),
           NEW t \in Threads, NEW l \in Locks,
           (\E m \in {"rd", "wr"} : Takes(t, l, m)) \/ LetsGo(t, l),
           \A x \in Locks : x # l => Apart(x)
    PROVE  LogRight'
<1>1. UNCHANGED object /\ event' = NoEvent
  BY DEF Takes, LetsGo
<1>2. event'.thread \in Threads /\ event'.type \notin {"after", "unlock"}
  BY <1>1, MainAssumption DEF NoEvent
<1>3. \A u \in Threads : threadLocks'[u] = threadLocks[u]
  BY <1>2, LogPasses
<1>4. \A u \in Threads, x \in Locks : Noted(u, x)' = Noted(u, x)
  BY CallsNoted
<1> QED
  BY <1>1, <1>3, <1>4, LogKept

LEMMA NextLog == SyncInv /\ DbInv /\ LogInv /\ [Next]_vars => LogInv'
<1> SUFFICES ASSUME SyncInv, DbInv, LogInv, [Next]_vars PROVE LogInv'
  OBVIOUS
<1>1. CASE UNCHANGED <<object, held, pc, threadLocks>>
           /\ (analysis = "terminated" => analysis' = analysis)
  <2>1. LogTypes'
    BY <1>1 DEF LogInv, LogTypes
  <2>2. \A u \in Threads, x \in Locks : Noted(u, x)' = Noted(u, x)
    BY <1>1, NotedOthers
  <2>3. LogRight => LogRight'
    BY <1>1, <2>2, LogKept
  <2> QED
    BY <1>1, <2>1, <2>3 DEF LogInv
<1>2. CASE ProgramStep
  <2>1. PICK pick \in Picks : Handled(pick) \/ Terminated
    BY <1>2, HandleCases
  <2>2. analysis = "running" /\ SyncNext
    BY <1>2, HandleCases
  <2>3. CASE Terminated
    BY <2>3 DEF Terminated, analyzerVars, shadowVars, LogInv, LogTypes
  <2>4. CASE Handled(pick) /\ "lock-shadow" \notin Analyzers
    BY <2>4 DEF Handled, Analyze, shadowVars, LogInv, LogTypes
  <2>5. CASE Handled(pick) /\ "lock-shadow" \in Analyzers
    <3>1. PICK d : d = Before(event')
      OBVIOUS
    <3>2. ShadowHandle(event', d)
      BY <2>5, <3>1 DEF Handled, Analyze
    <3>3. LogTypes /\ LogRight
      BY <2>2, <2>5 DEF LogInv
    <3>4. event'.thread \in Threads
      BY <2>2, EventCases DEF Quiet, LockEvent
    <3>5. LogTypes'
      BY <3>2, <3>3, <3>4, LogEffects
    <3> SUFFICES LogRight'
      BY <2>5, <3>5 DEF LogInv
    <3>6. ASSUME NEW l \in Locks, event'.object = l,
                 event'.type = "unlock" \/ (event'.type = "after" /\ event'.mode = "wr")
          PROVE  CreateEvent(l, d) = <<l, object[l].id>>
      BY <2>2, <2>5, <3>1, <3>6, CreateEventFound
    <3>7. CASE \E t \in Threads, l \in Locks, k \in Kinds :
                   CreateLock(t, l, k) /\ \A x \in Locks : x # l => Apart(x)
      BY <3>2, <3>3, <3>7, CreateLog
    <3>8. CASE \E t \in Threads, l \in Locks :
                   DestroyLock(t, l) /\ \A x \in Locks : x # l => Apart(x)
      <4>1. PICK t \in Threads, l \in Locks :
                DestroyLock(t, l) /\ \A x \in Locks : x # l => Apart(x)
        BY <3>8
      <4>2. /\ UNCHANGED <<held, pc>> /\ event'.type = "destroy"
            /\ \A x \in Locks : object'[x].id = object[x].id
        BY <4>1 DEF DestroyLock, Event, SyncInv, SyncTypeOK
      <4>3. \A u \in Threads : threadLocks'[u] = threadLocks[u]
        BY <3>2, <3>3, <3>4, <4>2, LogPasses
      <4>4. \A u \in Threads, x \in Locks : Noted(u, x)' = Noted(u, x)
        BY <4>2, NotedOthers
      <4> QED
        BY <3>3, <4>2, <4>3, <4>4, LogKept
    <3>9. CASE \E t \in Threads, l \in Locks, m \in {"rd", "wr"} :
                   Takes(t, l, m) /\ \A x \in Locks : x # l => Apart(x)
      BY <3>2, <3>3, <3>9, CallsLog
    <3>10. CASE \E t \in Threads, l \in Locks, m \in {"rd", "wr"} :
                    CapturesTaken(t, l, m) /\ \A x \in Locks : x # l => Apart(x)
      <4>1. PICK t \in Threads, l \in Locks, m \in {"rd", "wr"} :
                CapturesTaken(t, l, m) /\ \A x \in Locks : x # l => Apart(x)
        BY <3>10
      <4>2. event'.type = "after" /\ event'.mode = m /\ event'.object = l
        BY <4>1 DEF CapturesTaken, Event
      <4> QED
        BY <3>2, <3>3, <3>6, <4>1, <4>2, CapturesLog
    <3>11. CASE \E t \in Threads, l \in Locks :
                    CapturesUnlock(t, l) /\ \A x \in Locks : x # l => Apart(x)
      <4>1. PICK t \in Threads, l \in Locks :
                CapturesUnlock(t, l) /\ \A x \in Locks : x # l => Apart(x)
        BY <3>11
      <4>2. event'.type = "unlock" /\ event'.object = l
        BY <4>1 DEF CapturesUnlock, Event
      <4> QED
        BY <3>2, <3>3, <3>6, <4>1, <4>2, UnlockLog
    <3>12. CASE \E t \in Threads, l \in Locks :
                    LetsGo(t, l) /\ \A x \in Locks : x # l => Apart(x)
      BY <3>2, <3>3, <3>12, CallsLog
    <3>13. CASE Passes
      <4>1. /\ event'.type \notin {"after", "unlock"}
            /\ \A x \in Locks : Apart(x) /\ object'[x] = object[x]
        BY <3>13 DEF Passes, Quiet
      <4>2. \A u \in Threads : threadLocks'[u] = threadLocks[u]
        BY <3>2, <3>3, <3>4, <4>1, LogPasses
      <4> QED
        BY <3>3, <4>1, <4>2, LogKept, NotedApart
    <3> QED
      BY <2>2, <3>7, <3>8, <3>9, <3>10, <3>11, <3>12, <3>13, StepCases
  <2> QED
    BY <2>1, <2>3, <2>4, <2>5
<1> QED
  BY <1>1, <1>2 DEF Next, ShutDown, vars, syncVars, analyzerVars, shadowVars

\* thread_locks has, for every thread, each lock as often as the thread has it
\* for writing, but for the captures still to come.
THEOREM LogInvariance == Spec => []LogInv
BY InitLog, NextLog, ProgramInvariance, DatabaseInvariance, PTL DEF Spec

LEMMA LogExclusiveNext ==
    SyncInv /\ SyncInv' /\ LogInv' /\ LogExclusive /\ [Next]_vars => LogExclusive'
<1> SUFFICES ASSUME SyncInv, SyncInv', LogInv', LogExclusive, [Next]_vars PROVE LogExclusive'
  OBVIOUS
<1>1. CASE threadLocks' = threadLocks
  BY <1>1 DEF LogExclusive
<1>2. CASE threadLocks' # threadLocks
  <2>1. analysis' = "running" /\ "lock-shadow" \in Analyzers
    <3>1. CASE ProgramStep
      <4>1. PICK pick \in Picks : Handled(pick)
        BY <1>2, <3>1, HandleCases DEF Terminated, analyzerVars, shadowVars
      <4> QED
        BY <1>2, <4>1 DEF Handled, Analyze, shadowVars
    <3> QED
      BY <1>2, <3>1 DEF Next, ShutDown, vars, analyzerVars, shadowVars
  <2>2. LogTypes' /\ LogRight'
    BY <2>1 DEF LogInv
  <2>3. ASSUME NEW t \in Threads, NEW e \in DOMAIN threadLocks'[t]
        PROVE  \E l \in Locks : e = <<l, object'[l].id>> /\ held'[t][l] > 0
    <3>1. PICK l \in Locks : e = <<l, object'[l].id>>
      BY <2>2 DEF LogRight
    <3>2. Copies(e, threadLocks'[t]) > 0 /\ Copies(e, threadLocks'[t]) = Noted(t, l)'
      BY <2>2, <3>1 DEF LogRight, LogTypes, IsABag, Copies
    <3>3. held'[t][l] \in Nat /\ Due(t, l)' \in Nat
      BY BoundsAssumption DEF SyncInv, SyncTypeOK, Due
    <3>4. held'[t][l] > 0
      BY <3>2, <3>3 DEF Noted
    <3> QED
      BY <3>1, <3>4
  <2> SUFFICES ASSUME NEW t \in Threads, NEW u \in Threads, t # u,
                      NEW e, e \in DOMAIN threadLocks'[t], e \in DOMAIN threadLocks'[u]
               PROVE  FALSE
    BY DEF LogExclusive, BagToSet
  <2>4. PICK k \in Locks : e = <<k, object'[k].id>> /\ held'[t][k] > 0
    BY <2>3
  <2>5. PICK l \in Locks : e = <<l, object'[l].id>> /\ held'[u][l] > 0
    BY <2>3
  <2>6. k = l
    BY <2>4, <2>5
  <2> QED
    BY <2>4, <2>5, <2>6 DEF SyncInv, HoldInv
<1> QED
  BY <1>1, <1>2

\* In the file the critical sections of one object never overlap, although the
\* capture of a lock comes after the lock and that of an unlock before it.
THEOREM SectionsDoNotOverlap == Spec => []LogExclusive
<1>1. Init => LogExclusive
  <2> SUFFICES ASSUME Init PROVE LogExclusive
    OBVIOUS
  <2>1. threadLocks = [t \in Threads |-> EmptyBag]
    BY DEF Init, ShadowInit
  <2>2. BagToSet(EmptyBag) = {}
    BY DEF EmptyBag, SetToBag, BagToSet
  <2> QED
    BY <2>1, <2>2 DEF LogExclusive
<1>2. SyncInv /\ SyncInv' /\ LogInv' /\ LogExclusive /\ [Next]_vars => LogExclusive'
  BY LogExclusiveNext
<1> QED
  BY <1>1, <1>2, ProgramInvariance, LogInvariance, PTL DEF Spec

-----------------------------------------------------------------------------
(* lock-shadow: the shadows.                                               *)

ShadowEntries ==
    [tracked : BOOLEAN, wasLocked : BOOLEAN, shadows : SUBSET (Locks \X (0 .. MaxCreations))]

\* What a thread has besides l.
Besides(t, l) == HeldBy(t) \ {<<l, object[l].id>>}

\* An entry in the map: covers is what is left of the shadows when the captures
\* still due are counted in.
ShadowTracked(l) ==
    LET was == lockStates[l].wasLocked
    IN  /\ covers[l][1] = "never" <=> ~was /\ \A t \in Threads : ~Doing(t, "acquired", l)
        /\ \A e : e \in covers[l][2] <=>
                      /\ was \/ \E t \in Threads : Doing(t, "acquired", l)
                      /\ was => e \in lockStates[l].shadows
                      /\ \A t \in Threads : Doing(t, "acquired", l) => e \in Besides(t, l)
        /\ was => lockStates[l].shadows # {} /\ <<l, object[l].id>> \notin lockStates[l].shadows
        /\ ~was => \A t \in Threads : Noted(t, l) = 0

\* Only an object with nothing that covers it is let go.
ShadowRight(l) ==
    IF object[l].alive
    THEN IF lockStates[l].tracked THEN ShadowTracked(l)
         ELSE /\ lockStates[l] = ShadowUntracked
              /\ covers[l][1] # "never" /\ covers[l][2] = {}
    ELSE lockStates[l] = ShadowUntracked

ShadowInv ==
    /\ lockStates \in [Locks -> ShadowEntries]
    /\ "lock-shadow" \in Analyzers /\ analysis # "terminated" =>
           \A l \in Locks \ StaticLocks : ShadowRight(l)
    /\ "lock-shadow" \notin Analyzers =>
           \A l \in Locks : ~lockStates[l].wasLocked /\ covers[l][2] = {}

LEMMA InitShadow == Init => ShadowInv
<1> SUFFICES ASSUME Init PROVE ShadowInv
  OBVIOUS
<1>1. lockStates \in [Locks -> ShadowEntries]
  BY DEF Init, ShadowInit, ShadowUntracked, ShadowEntries
<1>2. ASSUME NEW l \in Locks \ StaticLocks PROVE ShadowRight(l)
  BY DEF Init, SyncInit, ShadowInit, ShadowRight
<1>3. \A l \in Locks : ~lockStates[l].wasLocked /\ covers[l][2] = {}
  BY DEF Init, ShadowInit, ShadowUntracked
<1> QED
  BY <1>1, <1>2, <1>3 DEF ShadowInv

\* What lock-shadow makes of an event.
LEMMA ShadowEffects ==
    ASSUME lockStates \in [Locks -> ShadowEntries], NEW d, ShadowHandle(event', d),
           Quiet(event') \/ LockEvent(event'),
           event'.type = "after" =>
               BagToSet(threadLocks[event'.thread]) \subseteq Locks \X (0 .. MaxCreations)
    PROVE  LET l == event'.object
               now == BagToSet(threadLocks[event'.thread])
           IN  /\ lockStates' \in [Locks -> ShadowEntries]
               /\ \A x \in Locks : x # l => lockStates'[x] = lockStates[x]
               /\ Quiet(event') \/ event'.type \notin {"create", "destroy", "after"} =>
                      lockStates' = lockStates
               /\ LockEvent(event') =>
                  /\ event'.type = "create" /\ lockStates[l] = ShadowUntracked =>
                         /\ lockStates'[l].tracked /\ ~lockStates'[l].wasLocked
                  /\ event'.type = "destroy" => lockStates'[l] = ShadowUntracked
                  /\ event'.type = "after" =>
                         lockStates'[l] = IF lockStates[l].tracked THEN ShadowLock(l, now)
                                          ELSE lockStates[l]
<1>1. PICK l, now : l = event'.object /\ now = BagToSet(threadLocks[event'.thread])
  OBVIOUS
<1>2. lockStates' = ShadowStates(event', d)
  BY DEF ShadowHandle
<1>3. CASE Quiet(event')
  <2>1. lockStates' = lockStates
    BY <1>2, <1>3 DEF ShadowStates, Quiet
  <2>2. ~LockEvent(event')
    BY <1>3 DEF Quiet, LockEvent
  <2> QED
    BY <2>1, <2>2
<1>4. CASE LockEvent(event')
  <2>1. l \in Locks /\ lockStates[l] \in ShadowEntries /\ ~Quiet(event')
    BY <1>1, <1>4 DEF LockEvent, Quiet
  <2>2. ShadowUntracked \in ShadowEntries
    BY DEF ShadowUntracked, ShadowEntries
  <2>3. CASE event'.type = "create"
    <3>1. event'.bits # "thread"
      BY <1>4 DEF LockEvent
    <3>2. CASE lockStates[l].tracked
      <4>1. lockStates' = lockStates
        BY <1>1, <1>2, <2>3, <3>1, <3>2 DEF ShadowStates
      <4>2. lockStates[l] # ShadowUntracked
        BY <3>2 DEF ShadowUntracked
      <4> QED
        BY <1>1, <2>1, <2>3, <4>1, <4>2
    <3>3. CASE ~lockStates[l].tracked
      <4>1. lockStates' = [lockStates EXCEPT ![l].tracked = TRUE]
        BY <1>1, <1>2, <2>3, <3>1, <3>3 DEF ShadowStates
      <4>2. /\ lockStates'[l].tracked
            /\ lockStates'[l].wasLocked = lockStates[l].wasLocked
            /\ lockStates' \in [Locks -> ShadowEntries]
            /\ \A x \in Locks : x # l => lockStates'[x] = lockStates[x]
        BY <2>1, <4>1 DEF ShadowEntries
      <4>3. lockStates[l] = ShadowUntracked => ~lockStates[l].wasLocked
        BY DEF ShadowUntracked
      <4> QED
        BY <1>1, <2>1, <2>3, <4>2, <4>3
    <3> QED
      BY <3>2, <3>3
  <2>4. CASE event'.type = "destroy"
    <3>1. lockStates' = [lockStates EXCEPT ![l] = ShadowUntracked]
      BY <1>1, <1>2, <2>4 DEF ShadowStates
    <3> QED
      BY <1>1, <2>1, <2>2, <2>4, <3>1
  <2>5. CASE event'.type = "after"
    <3>1. CASE lockStates[l].tracked
      <4>1. lockStates' = [lockStates EXCEPT ![l] = ShadowLock(l, now)]
        BY <1>1, <1>2, <2>5, <3>1 DEF ShadowStates
      <4>2. now \subseteq Locks \X (0 .. MaxCreations)
        BY <1>1, <2>5
      <4>3. Shadows(l, now) \subseteq Locks \X (0 .. MaxCreations)
        BY <2>1, <4>2 DEF Shadows, ShadowEntries
      <4>4. ShadowLock(l, now) \in ShadowEntries
        BY <2>2, <4>3 DEF ShadowLock, ShadowEntries
      <4> QED
        BY <1>1, <2>1, <2>5, <3>1, <4>1, <4>4
    <3>2. CASE ~lockStates[l].tracked
      <4>1. lockStates' = lockStates
        BY <1>1, <1>2, <2>5, <3>2 DEF ShadowStates
      <4> QED
        BY <1>1, <2>1, <2>5, <3>2, <4>1
    <3> QED
      BY <3>1, <3>2
  <2>6. CASE event'.type \notin {"create", "destroy", "after"}
    <3>1. lockStates' = lockStates
      BY <1>2, <2>6 DEF ShadowStates
    <3> QED
      BY <2>6, <3>1
  <2> QED
    BY <2>3, <2>4, <2>5, <2>6
<1> QED
  BY <1>3, <1>4

\* While the capture of a lock is due its thread has what it had.
LEMMA HeldKept ==
    ASSUME SyncInv, SyncNext, NEW u \in Threads, NEW x, Doing(u, "acquired", x)
    PROVE  HeldBy(u)' = HeldBy(u)
<1>1. ASSUME \A k \in Locks : /\ held'[u][k] = held[u][k]
                              /\ held[u][k] > 0 => object'[k].id = object[k].id
      PROVE  HeldBy(u)' = HeldBy(u)
  <2>1. \A e : e \in HeldBy(u) <=> \E k \in Locks : held[u][k] > 0 /\ e = <<k, object[k].id>>
    BY DEF HeldBy
  <2>2. \A e : e \in HeldBy(u)' <=> \E k \in Locks : held'[u][k] > 0 /\ e = <<k, object'[k].id>>
    BY DEF HeldBy
  <2>3. \A e : e \in HeldBy(u)' <=> e \in HeldBy(u)
    BY <1>1, <2>1, <2>2
  <2> QED
    BY <2>3
<1>2. CASE \E t \in Threads, l \in Locks, k \in Kinds :
               CreateLock(t, l, k) /\ \A y \in Locks : y # l => Apart(y)
  <2>1. PICK t \in Threads, l \in Locks, k \in Kinds :
            CreateLock(t, l, k) /\ \A y \in Locks : y # l => Apart(y)
    BY <1>2
  <2>2. ~(held[u][l] > 0) /\ held' = held
    BY <2>1 DEF CreateLock, SyncInv, HoldInv
  <2> QED
    BY <1>1, <2>1, <2>2 DEF Apart
<1>3. CASE \E t \in Threads, l \in Locks :
               DestroyLock(t, l) /\ \A y \in Locks : y # l => Apart(y)
  BY <1>1, <1>3 DEF DestroyLock, SyncInv, SyncTypeOK
<1>4. CASE \E t \in Threads, l \in Locks, m \in {"rd", "wr"} :
               Takes(t, l, m) /\ \A y \in Locks : y # l => Apart(y)
  BY <1>1, <1>4 DEF Takes
<1>5. CASE \E t \in Threads, l \in Locks, m \in {"rd", "wr"} :
               CapturesTaken(t, l, m) /\ \A y \in Locks : y # l => Apart(y)
  BY <1>1, <1>5 DEF CapturesTaken
<1>6. CASE \E t \in Threads, l \in Locks :
               CapturesUnlock(t, l) /\ \A y \in Locks : y # l => Apart(y)
  BY <1>1, <1>6 DEF CapturesUnlock
<1>7. CASE \E t \in Threads, l \in Locks :
               LetsGo(t, l) /\ \A y \in Locks : y # l => Apart(y)
  BY <1>1, <1>7 DEF LetsGo
<1>8. CASE Passes
  BY <1>1, <1>8 DEF Passes, Apart
<1> QED
  BY <1>2, <1>3, <1>4, <1>5, <1>6, <1>7, <1>8, StepCases

\* What the history makes of an object that nobody acquires, and of one that a
\* thread acquires.
LEMMA CoversKept ==
    ASSUME SyncInv, ShadowObserve, NEW x \in Locks, object'[x].id = object[x].id,
           \A u \in Threads : /\ held'[u][x] = held[u][x] \/ held'[u][x] = held[u][x] - 1
                              /\ shared'[u][x] = shared[u][x] \/ shared'[u][x] = shared[u][x] - 1
    PROVE  covers'[x] = covers[x]
<1>1. \A u \in Threads : held[u][x] \in Nat /\ shared[u][x] \in Nat
  BY BoundsAssumption DEF SyncInv, SyncTypeOK
<1>2. \A u \in Threads : ~(held'[u][x] > held[u][x] \/ shared'[u][x] > shared[u][x])
  BY <1>1
<1>3. Acquirers(x) = {}
  BY <1>2 DEF Acquirers
<1> QED
  BY <1>3 DEF ShadowObserve

LEMMA CoversTaken ==
    ASSUME ShadowObserve, NEW t \in Threads, NEW l \in Locks, Acquirers(l) = {t},
           object'[l].id = object[l].id
    PROVE  covers'[l] = IF covers[l][1] = "never" THEN <<"held", Besides(t, l)>>
                        ELSE <<"held", covers[l][2] \cap Besides(t, l)>>
<1>1. \A e : e \in AcquirersHave(l) <=> e \in Besides(t, l)
  <2>1. \A e : e \in AcquirersHave(l) <=>
            \E x \in Locks \ {l} : held[t][x] > 0 /\ e = <<x, object[x].id>>
    BY DEF AcquirersHave
  <2>2. \A e : e \in HeldBy(t) <=> \E x \in Locks : held[t][x] > 0 /\ e = <<x, object[x].id>>
    BY DEF HeldBy
  <2>3. \A e : e \in Besides(t, l) <=> e \in HeldBy(t) /\ e # <<l, object[l].id>>
    BY DEF Besides
  <2> QED
    BY <2>1, <2>2, <2>3
<1>2. AcquirersHave(l) = Besides(t, l)
  BY <1>1
<1>3. Acquirers(l) # {}
  OBVIOUS
<1> QED
  BY <1>2, <1>3 DEF ShadowObserve

\* Nothing that ShadowRight looks at changes.
LEMMA ShadowFrame ==
    ASSUME NEW x \in Locks, object'[x] = object[x], lockStates'[x] = lockStates[x],
           covers'[x] = covers[x],
           \A u \in Threads : /\ Doing(u, "acquired", x)' <=> Doing(u, "acquired", x)
                              /\ Doing(u, "acquired", x) => HeldBy(u)' = HeldBy(u)
                              /\ Noted(u, x) = 0 => Noted(u, x)' = 0,
           ShadowRight(x)
    PROVE  ShadowRight(x)'
<1>1. ASSUME NEW u \in Threads, Doing(u, "acquired", x) PROVE Besides(u, x)' = Besides(u, x)
  BY <1>1 DEF Besides
<1>2. ShadowTracked(x) => ShadowTracked(x)'
  BY <1>1 DEF ShadowTracked
<1> QED
  BY <1>2 DEF ShadowRight, ShadowUntracked

LEMMA ApartShadow ==
    ASSUME SyncInv, SyncNext, ShadowObserve, NEW x \in Locks, Apart(x),
           lockStates'[x] = lockStates[x], ShadowRight(x)
    PROVE  ShadowRight(x)'
<1>1. object'[x] = object[x]
  BY DEF Apart
<1>2. covers'[x] = covers[x]
  BY <1>1, CoversKept DEF Apart
<1>3. ASSUME NEW u \in Threads
      PROVE  /\ Doing(u, "acquired", x)' <=> Doing(u, "acquired", x)
             /\ Doing(u, "acquired", x) => HeldBy(u)' = HeldBy(u)
             /\ Noted(u, x) = 0 => Noted(u, x)' = 0
  BY HeldKept, NotedApart DEF Apart
<1> QED
  BY <1>1, <1>2, <1>3, ShadowFrame

LEMMA CreateShadow ==
    ASSUME SyncInv, ShadowObserve, NEW t \in Threads, NEW l \in Locks, NEW k \in Kinds,
           CreateLock(t, l, k), ShadowRight(l),
           lockStates[l] = ShadowUntracked => lockStates'[l].tracked /\ ~lockStates'[l].wasLocked
    PROVE  ShadowRight(l)'
<1>1. /\ ~object[l].alive /\ object'[l].alive /\ object'[l].id = creations + 1
      /\ UNCHANGED <<held, pc>> /\ object[l].id <= creations /\ creations \in Int
      /\ object[l].id \in Int
  BY BoundsAssumption DEF CreateLock, SyncInv, SyncTypeOK
<1>2. lockStates'[l].tracked /\ ~lockStates'[l].wasLocked
  BY <1>1 DEF ShadowRight
<1>3. covers'[l] = <<"never", {}>>
  BY <1>1 DEF ShadowObserve
<1>4. ASSUME NEW u \in Threads
      PROVE  held[u][l] = 0 /\ ~Doing(u, "acquired", l) /\ ~Doing(u, "unlock", l)
  <2>1. held[u][l] \in Nat /\ ~(held[u][l] > 0)
    BY <1>1, BoundsAssumption DEF SyncInv, HoldInv, SyncTypeOK
  <2> QED
    BY <1>1, <2>1 DEF SyncInv, CallInv, LockSteps
<1>5. \A u \in Threads : ~Doing(u, "acquired", l)' /\ Noted(u, l)' = 0
  BY <1>1, <1>4 DEF Noted, Due, Doing
<1>6. ShadowTracked(l)'
  BY <1>2, <1>3, <1>5 DEF ShadowTracked
<1> QED
  BY <1>1, <1>2, <1>6 DEF ShadowRight

\* An acquisition: the history has it at once, the analyzer when it is captured.
LEMMA TakesShadow ==
    ASSUME SyncInv, SyncNext, ShadowObserve, NEW t \in Threads, NEW l \in Locks,
           NEW m \in {"rd", "wr"}, Takes(t, l, m), lockStates'[l] = lockStates[l],
           \A u \in Threads : Noted(u, l)' = Noted(u, l), ShadowRight(l)
    PROVE  ShadowRight(l)'
<1>1. /\ object' = object /\ object[l].alive
      /\ ~Doing(t, "acquired", l) /\ Doing(t, "acquired", l)'
      /\ \A u \in Threads : u # t => pc'[u] = pc[u]
      /\ \A u \in Threads, x \in Locks : u # t \/ x # l => held'[u][x] = held[u][x]
  BY DEF Takes
<1>2. Acquirers(l) = {t}
  <2>1. \A u \in Threads : held[u][l] \in Nat /\ shared[u][l] \in Nat
    BY BoundsAssumption DEF SyncInv, SyncTypeOK
  <2>2. \A u \in Threads : held'[u][l] > held[u][l] \/ shared'[u][l] > shared[u][l] <=> u = t
    BY <2>1 DEF Takes
  <2> QED
    BY <2>2 DEF Acquirers
<1>3. covers'[l] = IF covers[l][1] = "never" THEN <<"held", Besides(t, l)>>
                   ELSE <<"held", covers[l][2] \cap Besides(t, l)>>
  BY <1>1, <1>2, CoversTaken
<1>4. PICK now : now = Besides(t, l)
  OBVIOUS
<1>5. /\ covers'[l][1] # "never"
      /\ covers[l][1] = "never" => covers'[l][2] = now
      /\ covers[l][1] # "never" => covers'[l][2] = covers[l][2] \cap now
  BY <1>3, <1>4
<1>6. Besides(t, l)' = now
  <2>1. \A e : e \in HeldBy(t) <=> \E x \in Locks : held[t][x] > 0 /\ e = <<x, object[x].id>>
    BY DEF HeldBy
  <2>2. \A e : e \in HeldBy(t)' <=> \E x \in Locks : held'[t][x] > 0 /\ e = <<x, object[x].id>>
    BY <1>1 DEF HeldBy
  <2>3. \A e : e \in Besides(t, l)' <=> e \in HeldBy(t)' /\ e # <<l, object[l].id>>
    BY <1>1 DEF Besides
  <2>4. \A e : e \in now <=> e \in HeldBy(t) /\ e # <<l, object[l].id>>
    BY <1>4 DEF Besides
  <2>5. \A e : e \in Besides(t, l)' <=> e \in now
    BY <1>1, <2>1, <2>2, <2>3, <2>4
  <2> QED
    BY <2>5
<1>7. ASSUME NEW u \in Threads, u # t
      PROVE  /\ Doing(u, "acquired", l)' <=> Doing(u, "acquired", l)
             /\ Doing(u, "acquired", l) => Besides(u, l)' = Besides(u, l)
  <2>1. Doing(u, "acquired", l)' <=> Doing(u, "acquired", l)
    BY <1>1, <1>7 DEF Doing
  <2>2. Doing(u, "acquired", l) => Besides(u, l)' = Besides(u, l)
    BY <1>1, HeldKept DEF Besides
  <2> QED
    BY <2>1, <2>2
<1>8. CASE lockStates[l].tracked
  <2>1. ShadowTracked(l)
    BY <1>1, <1>8 DEF ShadowRight
  <2>2. ASSUME NEW e
        PROVE  e \in covers'[l][2] <=>
                   /\ lockStates[l].wasLocked => e \in lockStates[l].shadows
                   /\ \A u \in Threads : Doing(u, "acquired", l)' => e \in Besides(u, l)'
    <3>1. (\A u \in Threads : Doing(u, "acquired", l)' => e \in Besides(u, l)')
              <=> /\ e \in now
                  /\ \A u \in Threads : Doing(u, "acquired", l) => e \in Besides(u, l)
      BY <1>1, <1>6, <1>7
    <3>2. CASE covers[l][1] = "never"
      <4>1. ~lockStates[l].wasLocked /\ \A u \in Threads : ~Doing(u, "acquired", l)
        BY <2>1, <3>2 DEF ShadowTracked
      <4> QED
        BY <1>5, <3>1, <3>2, <4>1
    <3>3. CASE covers[l][1] # "never"
      <4>1. e \in covers[l][2] <=>
                /\ lockStates[l].wasLocked => e \in lockStates[l].shadows
                /\ \A u \in Threads : Doing(u, "acquired", l) => e \in Besides(u, l)
        BY <2>1, <3>3 DEF ShadowTracked
      <4> QED
        BY <1>5, <3>1, <3>3, <4>1
    <3> QED
      BY <3>2, <3>3
  <2>3. ShadowTracked(l)'
    BY <1>1, <1>5, <2>1, <2>2 DEF ShadowTracked
  <2> QED
    BY <1>1, <1>8, <2>3 DEF ShadowRight
<1>9. CASE ~lockStates[l].tracked
  BY <1>1, <1>5, <1>9 DEF ShadowRight, ShadowUntracked
<1> QED
  BY <1>8, <1>9

\* When the capture of a lock is handled, the shadow that the analyzer takes is
\* what the thread has besides, whatever other captures are due.
LEMMA CapturesShadow ==
    ASSUME SyncInv, LogTypes, LogRight, ShadowObserve,
           NEW t \in Threads, NEW l \in Locks, NEW m \in {"rd", "wr"}, CapturesTaken(t, l, m),
           lockStates'[l] = IF lockStates[l].tracked
                            THEN ShadowLock(l, BagToSet(threadLocks[t])) ELSE lockStates[l],
           ShadowRight(l)
    PROVE  ShadowRight(l)'
<1>1. /\ UNCHANGED <<object, held, shared>> /\ Doing(t, "acquired", l)
      /\ ~Doing(t, "acquired", l)' /\ \A u \in Threads : u # t => pc'[u] = pc[u]
      /\ \A x \in Locks : x # l => ~Doing(t, "acquired", x) /\ ~Doing(t, "unlock", x)
  BY DEF CapturesTaken, Doing
<1>2. object[l].alive /\ covers'[l] = covers[l]
  BY <1>1, CoversKept DEF SyncInv, CallInv, LockSteps
<1>3. PICK self, S, shades : /\ self = <<l, object[l].id>> /\ S = BagToSet(threadLocks[t])
                             /\ shades = Shadows(l, S)
  OBVIOUS
<1>4. \A x \in Locks : <<x, object[x].id>> \in S <=> Noted(t, x) > 0
  <2>1. ASSUME NEW x \in Locks PROVE <<x, object[x].id>> \in S <=> Noted(t, x) > 0
    <3>1. PICK e : e = <<x, object[x].id>>
      OBVIOUS
    <3>2. Copies(e, threadLocks[t]) = Noted(t, x)
      BY <3>1 DEF LogRight
    <3>3. e \in DOMAIN threadLocks[t] => Copies(e, threadLocks[t]) > 0
      BY DEF LogTypes, IsABag, Copies
    <3>4. e \notin DOMAIN threadLocks[t] => ~(Copies(e, threadLocks[t]) > 0)
      BY DEF Copies
    <3>5. S = DOMAIN threadLocks[t]
      BY <1>3 DEF BagToSet
    <3> QED
      BY <3>1, <3>2, <3>3, <3>4, <3>5
  <2> QED
    BY <2>1
<1>5. \A x \in Locks : x # l => Noted(t, x) = held[t][x]
  BY <1>1, BoundsAssumption DEF Noted, Due, SyncInv, SyncTypeOK
<1>6. \A e \in S : \E x \in Locks : e = <<x, object[x].id>>
  BY <1>3 DEF LogRight, BagToSet
<1>7. \A e : e \in Besides(t, l) <=>
          \E x \in Locks : held[t][x] > 0 /\ e = <<x, object[x].id>> /\ x # l
  <2>1. \A e : e \in HeldBy(t) <=> \E x \in Locks : held[t][x] > 0 /\ e = <<x, object[x].id>>
    BY DEF HeldBy
  <2> QED
    BY <2>1 DEF Besides
<1>8. \A e : e # self => (e \in S <=> e \in Besides(t, l))
  BY <1>3, <1>4, <1>5, <1>6, <1>7
<1>9. self \notin Besides(t, l)
  BY <1>3 DEF Besides
<1>10. CASE lockStates[l].tracked
  <2>1. ShadowTracked(l)
    BY <1>2, <1>10 DEF ShadowRight
  <2>2. self \notin shades /\ \A e : e \in shades <=>
            (lockStates[l].wasLocked => e \in lockStates[l].shadows) /\ e \in Besides(t, l)
    <3>1. CASE lockStates[l].wasLocked
      <4>1. shades = lockStates[l].shadows \cap S /\ self \notin lockStates[l].shadows
        BY <1>3, <2>1, <3>1 DEF Shadows, ShadowTracked
      <4> QED
        BY <1>8, <1>9, <3>1, <4>1
    <3>2. CASE ~lockStates[l].wasLocked
      <4>1. shades = S
        BY <1>3, <3>2 DEF Shadows
      <4>2. Noted(t, l) = 0
        BY <2>1, <3>2 DEF ShadowTracked
      <4>3. self \notin S
        BY <1>3, <1>4, <4>2
      <4> QED
        BY <1>8, <1>9, <3>2, <4>1, <4>3
    <3> QED
      BY <3>1, <3>2
  <2>3. \A e : e \in covers[l][2] <=>
            /\ e \in shades
            /\ \A u \in Threads : Doing(u, "acquired", l)' => e \in Besides(u, l)'
    <3>1. \A u \in Threads : Besides(u, l)' = Besides(u, l)
      BY <1>1 DEF Besides, HeldBy
    <3>2. \A u \in Threads : Doing(u, "acquired", l) <=> u = t \/ Doing(u, "acquired", l)'
      BY <1>1 DEF Doing
    <3>3. \A e : e \in covers[l][2] <=>
              /\ lockStates[l].wasLocked => e \in lockStates[l].shadows
              /\ \A u \in Threads : Doing(u, "acquired", l) => e \in Besides(u, l)
      BY <1>1, <2>1 DEF ShadowTracked
    <3> QED
      BY <2>2, <3>1, <3>2, <3>3
  <2>4. covers[l][1] # "never"
    BY <1>1, <2>1 DEF ShadowTracked
  <2>5. CASE shades = {}
    <3>1. lockStates'[l] = ShadowUntracked
      BY <1>3, <1>10, <2>5 DEF ShadowLock
    <3>2. covers[l][2] = {}
      BY <2>3, <2>5
    <3> QED
      BY <1>1, <1>2, <2>4, <3>1, <3>2 DEF ShadowRight, ShadowUntracked
  <2>6. CASE shades # {}
    <3>1. lockStates'[l] = [tracked |-> TRUE, wasLocked |-> TRUE, shadows |-> shades]
      BY <1>3, <1>10, <2>6 DEF ShadowLock
    <3>2. lockStates'[l].tracked /\ lockStates'[l].wasLocked /\ lockStates'[l].shadows = shades
      BY <3>1
    <3>3. ShadowTracked(l)'
      BY <1>1, <1>2, <1>3, <2>2, <2>3, <2>4, <2>6, <3>2 DEF ShadowTracked
    <3> QED
      BY <1>1, <1>2, <3>2, <3>3 DEF ShadowRight
  <2> QED
    BY <2>5, <2>6
<1>11. CASE ~lockStates[l].tracked
  BY <1>1, <1>2, <1>11 DEF ShadowRight, ShadowUntracked
<1> QED
  BY <1>10, <1>11

\* The capture that begins an unlock, and the call that lets go.
LEMMA UnlockShadow ==
    ASSUME SyncInv, SyncNext, ShadowObserve, NEW t \in Threads, NEW l \in Locks,
           CapturesUnlock(t, l) \/ LetsGo(t, l), lockStates'[l] = lockStates[l],
           \A x \in Locks : x # l => Apart(x), ShadowRight(l)
    PROVE  ShadowRight(l)'
<1>1. /\ UNCHANGED object /\ \A u \in Threads : u # t => pc'[u] = pc[u]
      /\ ~Doing(t, "acquired", l) /\ ~Doing(t, "acquired", l)'
  BY DEF CapturesUnlock, LetsGo
<1>2. \A u \in Threads : /\ held'[u][l] = held[u][l] \/ held'[u][l] = held[u][l] - 1
                         /\ shared'[u][l] = shared[u][l] \/ shared'[u][l] = shared[u][l] - 1
  BY DEF CapturesUnlock, LetsGo
<1>3. covers'[l] = covers[l]
  BY <1>1, <1>2, CoversKept
<1>4. ASSUME NEW u \in Threads, Noted(u, l) = 0 PROVE Noted(u, l)' = 0
  <2>1. CASE LetsGo(t, l)
    BY <1>4, <2>1, CallsNoted
  <2>2. CASE CapturesUnlock(t, l) /\ u = t
    <3>1. /\ held' = held /\ ~Doing(t, "unlock", l) /\ held[t][l] \in Nat
      BY <2>2, BoundsAssumption DEF CapturesUnlock, SyncInv, SyncTypeOK
    <3>2. held[t][l] = 0
      BY <1>1, <1>4, <2>2, <3>1 DEF Noted, Due
    <3>3. held'[t][l] = 0 /\ ~(held'[t][l] > 0)
      BY <3>1, <3>2
    <3>4. Due(t, l)' = 0
      BY <1>1, <3>3 DEF Due
    <3>5. Noted(t, l)' = 0
      BY <3>3, <3>4 DEF Noted
    <3> QED
      BY <2>2, <3>5
  <2>3. CASE CapturesUnlock(t, l) /\ u # t
    <3>1. held'[u][l] = held[u][l] /\ pc'[u] = pc[u]
      BY <1>1, <2>3 DEF CapturesUnlock
    <3> QED
      BY <1>4, <3>1, NotedOthers
  <2> QED
    BY <2>1, <2>2, <2>3
<1>5. ASSUME NEW u \in Threads
      PROVE  /\ Doing(u, "acquired", l)' <=> Doing(u, "acquired", l)
             /\ Doing(u, "acquired", l) => HeldBy(u)' = HeldBy(u)
  <2>1. Doing(u, "acquired", l)' <=> Doing(u, "acquired", l)
    BY <1>1 DEF Doing
  <2> QED
    BY <2>1, HeldKept
<1> QED
  BY <1>1, <1>3, <1>4, <1>5, ShadowFrame

LEMMA NextShadow == SyncInv /\ DbInv /\ LogInv /\ ShadowInv /\ [Next]_vars => ShadowInv'
<1> SUFFICES ASSUME SyncInv, DbInv, LogInv, ShadowInv, [Next]_vars PROVE ShadowInv'
  OBVIOUS
<1>1. CASE UNCHANGED <<object, held, pc, shadowVars>>
           /\ (analysis = "terminated" => analysis' = analysis)
  <2>1. UNCHANGED <<object, held, pc, lockStates, covers>>
    BY <1>1 DEF shadowVars
  <2>2. ASSUME NEW u \in Threads
        PROVE  /\ HeldBy(u)' = HeldBy(u)
               /\ \A x \in Locks : /\ Doing(u, "acquired", x)' <=> Doing(u, "acquired", x)
                                   /\ Noted(u, x)' = Noted(u, x)
    <3>1. HeldBy(u)' = HeldBy(u)
      BY <2>1 DEF HeldBy
    <3>2. \A x \in Locks : Doing(u, "acquired", x)' <=> Doing(u, "acquired", x)
      BY <2>1 DEF Doing
    <3>3. \A x \in Locks : Noted(u, x)' = Noted(u, x)
      BY <2>1, NotedOthers
    <3> QED
      BY <3>1, <3>2, <3>3
  <2>3. ASSUME NEW x \in Locks, ShadowRight(x) PROVE ShadowRight(x)'
    BY <2>1, <2>2, <2>3, ShadowFrame
  <2> QED
    BY <1>1, <2>1, <2>3 DEF ShadowInv
<1>2. CASE ProgramStep
  <2>1. PICK pick \in Picks : Handled(pick) \/ Terminated
    BY <1>2, HandleCases
  <2>2. analysis = "running" /\ SyncNext
    BY <1>2, HandleCases
  <2>3. CASE Terminated
    BY <2>3 DEF Terminated, analyzerVars, shadowVars, ShadowInv
  <2>4. CASE Handled(pick) /\ "lock-shadow" \notin Analyzers
    BY <2>4 DEF Handled, Analyze, shadowVars, ShadowInv
  <2>5. CASE Handled(pick) /\ "lock-shadow" \in Analyzers
    <3>1. PICK d : d = Before(event') /\ ShadowHandle(event', d) /\ ShadowObserve
      BY <2>5 DEF Handled, Analyze
    <3>2. /\ lockStates \in [Locks -> ShadowEntries] /\ LogTypes /\ LogRight
          /\ \A l \in Locks \ StaticLocks : ShadowRight(l)
      BY <2>2, <2>5 DEF ShadowInv, LogInv
    <3>3. Quiet(event') \/ LockEvent(event')
      BY <2>2, EventCases
    <3>4. event'.type = "after" =>
              BagToSet(threadLocks[event'.thread]) \subseteq Locks \X (0 .. MaxCreations)
      <4>1. \A l \in Locks : object[l].id \in 0 .. MaxCreations
        BY DEF SyncInv, SyncTypeOK
      <4>2. ASSUME NEW t \in Threads, NEW e \in DOMAIN threadLocks[t]
            PROVE  e \in Locks \X (0 .. MaxCreations)
        <5>1. PICK l \in Locks : e = <<l, object[l].id>>
          BY <3>2 DEF LogRight
        <5> QED
          BY <4>1, <5>1
      <4>3. event'.thread \in Threads
        BY <3>3 DEF Quiet, LockEvent
      <4> QED
        BY <4>2, <4>3 DEF BagToSet
    <3>5. /\ lockStates' \in [Locks -> ShadowEntries]
          /\ \A x \in Locks : x # event'.object => lockStates'[x] = lockStates[x]
          /\ Quiet(event') \/ event'.type \notin {"create", "destroy", "after"} =>
                 lockStates' = lockStates
      BY <3>1, <3>2, <3>3, <3>4, ShadowEffects
    <3> SUFFICES ASSUME NEW x \in Locks \ StaticLocks PROVE ShadowRight(x)'
      BY <2>5, <3>5 DEF ShadowInv
    <3>6. Apart(x) /\ lockStates'[x] = lockStates[x] => ShadowRight(x)'
      BY <2>2, <3>1, <3>2, ApartShadow
    <3>7. CASE \E t \in Threads, l \in Locks, k \in Kinds :
                   CreateLock(t, l, k) /\ \A y \in Locks : y # l => Apart(y)
      <4>1. PICK t \in Threads, l \in Locks, k \in Kinds :
                CreateLock(t, l, k) /\ \A y \in Locks : y # l => Apart(y)
        BY <3>7
      <4>2. event'.object = l /\ event'.type = "create" /\ LockEvent(event')
        BY <4>1, KindsAssumption DEF CreateLock, Event, LockEvent
      <4>3. lockStates[l] = ShadowUntracked =>
                lockStates'[l].tracked /\ ~lockStates'[l].wasLocked
        BY <3>1, <3>2, <3>3, <3>4, <4>2, ShadowEffects
      <4>4. CASE x = l
        BY <3>1, <3>2, <4>1, <4>3, <4>4, CreateShadow
      <4> QED
        BY <3>5, <3>6, <4>1, <4>2, <4>4
    <3>8. CASE \E t \in Threads, l \in Locks :
                   DestroyLock(t, l) /\ \A y \in Locks : y # l => Apart(y)
      <4>1. PICK t \in Threads, l \in Locks :
                DestroyLock(t, l) /\ \A y \in Locks : y # l => Apart(y)
        BY <3>8
      <4>2. event'.object = l /\ event'.type = "destroy" /\ LockEvent(event')
        BY <4>1 DEF DestroyLock, Event, LockEvent, Bits
      <4>3. lockStates'[l] = ShadowUntracked /\ ~object'[l].alive
        BY <3>1, <3>2, <3>3, <3>4, <4>1, <4>2, ShadowEffects DEF DestroyLock, SyncInv, SyncTypeOK
      <4>4. CASE x = l
        BY <4>3, <4>4 DEF ShadowRight, ShadowUntracked
      <4> QED
        BY <3>5, <3>6, <4>1, <4>2, <4>4
    <3>9. CASE \E t \in Threads, l \in Locks, m \in {"rd", "wr"} :
                   Takes(t, l, m) /\ \A y \in Locks : y # l => Apart(y)
      <4>1. PICK t \in Threads, l \in Locks, m \in {"rd", "wr"} :
                Takes(t, l, m) /\ \A y \in Locks : y # l => Apart(y)
        BY <3>9
      <4>2. lockStates' = lockStates
        BY <3>5, <4>1, NoEventQuiet DEF Takes
      <4>3. \A u \in Threads : Noted(u, l)' = Noted(u, l)
        BY <4>1, CallsNoted
      <4>4. CASE x = l
        BY <2>2, <3>1, <3>2, <4>1, <4>2, <4>3, <4>4, TakesShadow
      <4> QED
        BY <3>6, <4>1, <4>2, <4>4
    <3>10. CASE \E t \in Threads, l \in Locks, m \in {"rd", "wr"} :
                    CapturesTaken(t, l, m) /\ \A y \in Locks : y # l => Apart(y)
      <4>1. PICK t \in Threads, l \in Locks, m \in {"rd", "wr"} :
                CapturesTaken(t, l, m) /\ \A y \in Locks : y # l => Apart(y)
        BY <3>10
      <4>2. event'.object = l /\ event'.thread = t /\ event'.type = "after" /\ LockEvent(event')
        BY <4>1 DEF CapturesTaken, Event, LockEvent, Bits
      <4>3. lockStates'[l] = IF lockStates[l].tracked
                             THEN ShadowLock(l, BagToSet(threadLocks[t])) ELSE lockStates[l]
        BY <3>1, <3>2, <3>3, <3>4, <4>2, ShadowEffects
      <4>4. CASE x = l
        BY <3>1, <3>2, <4>1, <4>3, <4>4, CapturesShadow
      <4> QED
        BY <3>5, <3>6, <4>1, <4>2, <4>4
    <3>11. CASE \E t \in Threads, l \in Locks :
                    /\ CapturesUnlock(t, l) \/ LetsGo(t, l)
                    /\ \A y \in Locks : y # l => Apart(y)
      <4>1. PICK t \in Threads, l \in Locks :
                /\ CapturesUnlock(t, l) \/ LetsGo(t, l)
                /\ \A y \in Locks : y # l => Apart(y)
        BY <3>11
      <4>2. event'.type \notin {"create", "destroy", "after"}
        BY <4>1 DEF CapturesUnlock, LetsGo, Event, NoEvent
      <4>3. lockStates' = lockStates
        BY <3>5, <4>2
      <4>4. CASE x = l
        BY <2>2, <3>1, <3>2, <4>1, <4>3, <4>4, UnlockShadow
      <4> QED
        BY <3>6, <4>1, <4>3, <4>4
    <3>12. CASE Passes
      BY <3>5, <3>6, <3>12 DEF Passes
    <3> QED
      BY <2>2, <3>7, <3>8, <3>9, <3>10, <3>11, <3>12, StepCases
  <2> QED
    BY <2>1, <2>3, <2>4, <2>5
<1> QED
  BY <1>1, <1>2 DEF Next, ShutDown, vars, syncVars, analyzerVars

\* lock-shadow's entry for an object is what was held besides at every acquisition,
\* up to the captures still to come.
THEOREM ShadowInvariance == Spec => []ShadowInv
BY InitShadow, NextShadow, ProgramInvariance, DatabaseInvariance, LogInvariance, PTL DEF Spec

\* A report of a shadow is made by lock-shadow.
LEMMA ShadowedWord ==
    ASSUME NEW x, x[1] = "shadowed"
    PROVE  /\ \A e : x \notin UselessReports(e) \cup RwReports(e) \cup OrderReports(e)
           /\ \A e, d : x \notin RecReports(e, d)
           /\ x \notin UselessLastReports \cup RwLastReports \cup RecLastReports
<1>1. ASSUME NEW l PROVE x \notin UselessVerdict(l) \cup RwVerdict(l) \cup RecVerdict(l)
  <2>1. ASSUME NEW n, x = <<n, l>> PROVE n = "shadowed"
    BY <2>1
  <2>2. UselessVerdict(l) \subseteq {<<"never locked", l>>, <<"one thread", l>>}
    BY DEF UselessVerdict
  <2>3. RwVerdict(l) \subseteq {<<"only read", l>>, <<"only written", l>>}
    BY DEF RwVerdict
  <2>4. RecVerdict(l) \subseteq {<<"not recursive", l>>}
    BY DEF RecVerdict
  <2>5. /\ x # <<"never locked", l>> /\ x # <<"one thread", l>> /\ x # <<"only read", l>>
        /\ x # <<"only written", l>> /\ x # <<"not recursive", l>>
    BY <2>1
  <2> QED
    BY <2>2, <2>3, <2>4, <2>5
<1>2. \A e : x \notin UselessReports(e)
  BY <1>1 DEF UselessReports
<1>3. \A e : x \notin RwReports(e)
  BY <1>1 DEF RwReports
<1>4. \A e, d : x \notin RecReports(e, d)
  BY <1>1 DEF RecReports
<1>5. \A e : x \notin OrderReports(e)
  <2>1. ASSUME NEW e, NEW k PROVE x # <<"order", e.object, k>>
    OBVIOUS
  <2>2. \A e : \A y \in OrderReports(e) : \E k : y = <<"order", e.object, k>>
    BY DEF OrderReports
  <2> QED
    BY <2>1, <2>2
<1>6. x \notin UselessLastReports
  BY <1>1, Zenon DEF UselessLastReports
<1>7. x \notin RwLastReports
  BY <1>1, Zenon DEF RwLastReports
<1>8. x \notin RecLastReports
  BY <1>1, Zenon DEF RecLastReports
<1> QED
  BY <1>2, <1>3, <1>4, <1>5, <1>6, <1>7, <1>8

\* What is said of an object that no capture of a lock is due on.
LEMMA ShadowVerdict ==
    ASSUME NEW l \in Locks, object[l].alive, NEW pick \in Picks,
           lockStates \in [Locks -> ShadowEntries],
           ShadowRight(l) \/ (~lockStates[l].wasLocked /\ covers[l][2] = {}),
           \A u \in Threads : ~Doing(u, "acquired", l)
    PROVE  /\ l \in Shadowed <=> covers[l][2] # {}
           /\ l \in Shadowed => pick[l] \in covers[l][2]
<1>1. l \in Shadowed <=> lockStates[l].wasLocked /\ lockStates[l].shadows # {}
  BY DEF Shadowed
<1>2. l \in Shadowed => pick[l] \in lockStates[l].shadows
  BY DEF Picks
<1>3. CASE ShadowRight(l) /\ lockStates[l].tracked
  <2>1. ShadowTracked(l)
    BY <1>3 DEF ShadowRight
  <2>2. \A e : e \in covers[l][2] <=> lockStates[l].wasLocked /\ e \in lockStates[l].shadows
    BY <2>1 DEF ShadowTracked
  <2> QED
    BY <1>1, <1>2, <2>2
<1>4. CASE ~lockStates[l].wasLocked /\ covers[l][2] = {}
  BY <1>1, <1>4
<1> QED
  BY <1>3, <1>4 DEF ShadowRight, ShadowUntracked

\* Under the address of a shadow that is looked up stands the object that has it now.
LEMMA NameFound ==
    ASSUME DbInv, analysis = "running", NEW a \in Known(db) \cap Locks
    PROVE  db[a].name = object[a].id
<1>1. Created(a)
  BY DEF DbInv, Known
<1>2. db[a] = Entry(a)
  BY <1>1 DEF DbInv
<1> QED
  BY <1>2 DEF Entry

LEMMA ShadowExactNext ==
    SyncInv /\ DbInv /\ ShadowInv /\ ShadowExact /\ [Next]_vars => ShadowExact'
<1> SUFFICES ASSUME SyncInv, DbInv, ShadowInv, ShadowExact, [Next]_vars PROVE ShadowExact'
  OBVIOUS
<1>1. CASE UNCHANGED vars
  BY <1>1 DEF ShadowExact, Judged, Settled, vars, syncVars, analyzerVars, shadowVars
<1>2. CASE Next
  <2> SUFFICES ASSUME NEW l \in Locks, Judged(l)'
               PROVE  LET said == {r \in reported' : r[1] = "shadowed" /\ r[2] = l}
                      IN  /\ said = {} <=> covers'[l][2] = {}
                          /\ \A r \in said : /\ r[3] \in covers'[l][2]
                                             /\ r[4] = object'[r[3][1]].id
    BY DEF ShadowExact
  <2>1. l \notin StaticLocks
    BY <1>2, JudgedCases
  <2>2. \E pick \in Picks :
            /\ covers'[l] = covers[l]
            /\ \A x \in Locks : object'[x].id = object[x].id
            /\ l \in Shadowed <=> covers[l][2] # {}
            /\ l \in Shadowed => pick[l] \in covers[l][2] /\ pick[l][1] \in Known(db)
            /\ \A x : x \in reported' /\ x[1] = "shadowed" /\ x[2] = l <=>
                          l \in Shadowed /\ x = ShadowReport(l, pick[l], db)
    <3>1. CASE /\ \E t \in Threads : DestroyLock(t, l)
               /\ \E pick \in Picks : Handled(pick)
               /\ event'.type = "destroy" /\ event'.object = l
      <4>1. PICK t \in Threads : DestroyLock(t, l)
        BY <3>1
      <4>2. PICK pick \in Picks : Handled(pick)
        BY <3>1
      <4>3. /\ object[l].alive /\ analysis = "running" /\ UNCHANGED <<held, shared>>
            /\ \A u \in Threads : ~Uses(u, l)
        BY <1>2, <4>1, <4>2 DEF DestroyLock, Event, Next, ShutDown, ProgramStep, Handled
      <4>4. \A u \in Threads : ~Doing(u, "acquired", l)
        BY <4>3, UsesMeaning DEF SyncInv, LockSteps
      <4>5. \A x \in Locks : object'[x].id = object[x].id
        BY <4>1 DEF DestroyLock, SyncInv, SyncTypeOK
      <4>6. covers'[l] = covers[l]
        <5>1. CASE "lock-shadow" \in Analyzers
          <6>1. ShadowObserve
            BY <4>2, <5>1 DEF Handled, Analyze
          <6> QED
            BY <4>3, <4>5, <6>1, CoversKept
        <5>2. CASE "lock-shadow" \notin Analyzers
          BY <4>2, <5>2 DEF Handled, Analyze, shadowVars
        <5> QED
          BY <5>1, <5>2
      <4>7. (l \in Shadowed <=> covers[l][2] # {}) /\ (l \in Shadowed => pick[l] \in covers[l][2])
        BY <2>1, <4>3, <4>4, ShadowVerdict DEF ShadowInv
      <4>8. Before(event') = db /\ (l \in Shadowed => Dropped(event') = {l})
                                /\ (l \notin Shadowed => Dropped(event') = {})
        BY <3>1 DEF Before, Dropped
      <4>9. l \in Shadowed => pick[l][1] \in Known(db)
        <5> SUFFICES ASSUME l \in Shadowed PROVE pick[l][1] \in Known(db)
          OBVIOUS
        <5>1. "lock-shadow" \in Analyzers
          BY DEF ShadowInv, Shadowed
        <5>2. pick[l][1] \in ShadowLookups(event', pick)
          BY <4>8 DEF ShadowLookups
        <5>3. ShadowLookups(event', pick) \subseteq Lookups(event', pick)
          BY <5>1 DEF Lookups, Enabled
        <5> QED
          BY <4>2, <4>8, <5>2, <5>3 DEF Handled
      <4>10. \A x : x \in reported' /\ x[1] = "shadowed" /\ x[2] = l <=>
                        l \in Shadowed /\ x = ShadowReport(l, pick[l], db)
        <5>1. \A x : x[1] = "shadowed" =>
                  (x \in reported' <=> x \in ShadowReports(event', Before(event'), pick))
          BY <4>2, ShadowedWord DEF Handled, Reports
        <5>2. \A x : x \in ShadowReports(event', db, pick) <=>
                         l \in Shadowed /\ x = ShadowReport(l, pick[l], db)
          BY <4>8 DEF ShadowReports
        <5> QED
          BY <4>8, <5>1, <5>2 DEF ShadowReport
      <4> QED
        BY <4>5, <4>6, <4>7, <4>9, <4>10
    <3>2. CASE /\ ShutDown /\ analysis' = "done"
               /\ \E pick \in Picks : /\ LastLookups(pick) \subseteq Known(db)
                                      /\ reported' = LastReports(pick)
               /\ object[l].alive /\ Settled(l)
      <4>1. PICK pick \in Picks : /\ LastLookups(pick) \subseteq Known(db)
                                 /\ reported' = LastReports(pick)
        BY <3>2
      <4>2. covers' = covers /\ object' = object /\ analysis = "running"
        BY <3>2 DEF ShutDown, analyzerVars, shadowVars
      <4>3. \A u \in Threads : ~Doing(u, "acquired", l)
        BY <3>2, SettledMeaning DEF SyncInv, LockSteps
      <4>4. (l \in Shadowed <=> covers[l][2] # {}) /\ (l \in Shadowed => pick[l] \in covers[l][2])
        BY <2>1, <3>2, <4>2, <4>3, ShadowVerdict DEF ShadowInv
      <4>5. l \in Shadowed => pick[l][1] \in Known(db)
        BY <4>1 DEF LastLookups, ShadowLastLookups
      <4>6. \A x : x \in reported' /\ x[1] = "shadowed" /\ x[2] = l <=>
                       l \in Shadowed /\ x = ShadowReport(l, pick[l], db)
        <5>1. \A x : x[1] = "shadowed" => (x \in reported' <=> x \in ShadowLastReports(pick))
          BY <4>1, ShadowedWord DEF LastReports
        <5>2. \A x : x \in ShadowLastReports(pick) <=>
                         \E k \in Shadowed : x = ShadowReport(k, pick[k], db)
          BY DEF ShadowLastReports
        <5>3. \A k : ShadowReport(k, pick[k], db)[1] = "shadowed"
                     /\ ShadowReport(k, pick[k], db)[2] = k
          BY DEF ShadowReport
        <5> QED
          BY <5>1, <5>2, <5>3
      <4> QED
        BY <4>2, <4>4, <4>5, <4>6
    <3> QED
      BY <1>2, <3>1, <3>2, JudgedCases
  <2>3. PICK pick \in Picks :
            /\ covers'[l] = covers[l]
            /\ \A x \in Locks : object'[x].id = object[x].id
            /\ l \in Shadowed <=> covers[l][2] # {}
            /\ l \in Shadowed => pick[l] \in covers[l][2] /\ pick[l][1] \in Known(db)
            /\ \A x : x \in reported' /\ x[1] = "shadowed" /\ x[2] = l <=>
                          l \in Shadowed /\ x = ShadowReport(l, pick[l], db)
    BY <2>2
  <2>4. ASSUME l \in Shadowed
        PROVE  LET r == ShadowReport(l, pick[l], db)
               IN  /\ r[1] = "shadowed" /\ r[2] = l /\ r[3] = pick[l]
                   /\ r[4] = object'[pick[l][1]].id
    <3>1. pick[l][1] \in Known(db) \cap Locks /\ analysis = "running"
      <4>1. pick[l][1] \in Locks
        BY <2>4 DEF Picks, ShadowInv, ShadowEntries, Shadowed
      <4>2. analysis = "running"
        BY <1>2 DEF Next, ProgramStep, ShutDown
      <4> QED
        BY <2>3, <2>4, <4>1, <4>2
    <3>2. db[pick[l][1]].name = object'[pick[l][1]].id
      BY <2>3, <3>1, NameFound
    <3> QED
      BY <3>2 DEF ShadowReport
  <2>5. PICK said : said = {r \in reported' : r[1] = "shadowed" /\ r[2] = l}
    OBVIOUS
  <2>6. \A r : r \in said <=> l \in Shadowed /\ r = ShadowReport(l, pick[l], db)
    BY <2>3, <2>5
  <2>7. said = {} <=> covers'[l][2] = {}
    BY <2>3, <2>6
  <2>8. \A r \in said : r[3] \in covers'[l][2] /\ r[4] = object'[r[3][1]].id
    BY <2>3, <2>4, <2>6
  <2> QED
    BY <2>5, <2>7, <2>8
<1> QED
  BY <1>1, <1>2

\* lock-shadow warns of exactly the objects with another object that the locking
\* thread had for writing at every acquisition, shows the create event of one of those
\* and prints the number of the object that has its address now; a disabled lock-shadow
\* says and remembers nothing.
THEOREM LockShadowIsExact == Spec => []ShadowExact
<1>1. Init => ShadowExact
  BY DEF Init, SyncInit, ShadowExact, Judged
<1>2. SyncInv /\ DbInv /\ ShadowInv /\ ShadowExact /\ [Next]_vars => ShadowExact'
  BY ShadowExactNext
<1> QED
  BY <1>1, <1>2, ProgramInvariance, DatabaseInvariance, ShadowInvariance, PTL DEF Spec

-----------------------------------------------------------------------------
(* Types.                                                                  *)

AnalysisType == analysis \in {"running", "done", "terminated"}

LEMMA AnalysisTypes == AnalysisType /\ [Next]_vars => AnalysisType'
BY HandleCases DEF AnalysisType, Next, vars, ShutDown, Handled, Terminated

\* The type invariant of the program, the database and the five analyzers.
THEOREM AnalysisTypeCorrect == Spec => []TypeOK
<1>1. Init => AnalysisType
  BY DEF Init, AnalysisType
<1>2. Spec => []AnalysisType
  BY <1>1, AnalysisTypes, PTL DEF Spec
<1>3. SyncInv /\ DbInv /\ UselessInv /\ RwInv /\ RecInv /\ LogInv /\ OrderInv
          /\ AnalysisType => TypeOK
  BY DEF SyncInv, DbInv, Entries, UselessInv, UselessTypes, RwInv, RwTypes, RecInv, RecTypes,
         RecEntries, LogInv, LogTypes, OrderInv, OrderTypes, AnalysisType, TypeOK
<1> QED
  BY <1>2, <1>3, ProgramInvariance, DatabaseInvariance, UselessInvariance, RwInvariance,
     RecInvariance, LogInvariance, OrderInvariance, PTL

-----------------------------------------------------------------------------
(* The threads of the events.                                              *)

\* A thread in the middle of a call runs, and the main thread always does.
LivesInv ==
    /\ thread[Main] = "running"
    /\ \A t \in Threads : pc[t] # Idle => thread[t] \in {"running", "detached"}

LEMMA SyncLives ==
    ASSUME SyncInv, LivesInv, SyncNext
    PROVE  /\ LivesInv'
           /\ event'.thread \in Threads /\ thread[event'.thread] # "none"
<1>1. PICK t \in Threads : LockStep(t) \/ ThreadStep(t)
  BY DEF SyncNext
<1>2. /\ pc \in [Threads -> Operations] /\ Main \in Threads
      /\ thread \in [Threads -> {"none", "starting", "running", "detached", "ended"}]
  BY MainAssumption DEF SyncInv, SyncTypeOK
<1>3. NoEvent.thread = Main /\ \A type, mode, bits, o : Event(type, mode, bits, o, t).thread = t
  BY DEF NoEvent, Event
<1>4. \A o \in {"before", "try", "acquired", "unlock", "spawn", "join", "detach"} :
          pc[t][1] = o => pc[t] # Idle
  BY IdleFacts DEF LockSteps
<1>5. CASE /\ thread' = thread
           /\ \A u \in Threads : u # t => pc'[u] = pc[u]
           /\ thread[t] \in {"running", "detached"}
           /\ event'.thread \in {t, Main}
  BY <1>2, <1>5 DEF LivesInv
<1>6. CASE LockStep(t)
  <2>1. /\ thread' = thread
        /\ thread[t] \in {"running", "detached"}
        /\ pc' = pc \/ \E op : pc' = [pc EXCEPT ![t] = op]
        /\ event'.thread \in {t, Main}
    <3>1. CASE \E l \in Locks, k \in Kinds : CreateLock(t, l, k)
      BY <1>3, <3>1 DEF CreateLock, Ready
    <3>2. CASE \E l \in Locks : DestroyLock(t, l)
      BY <1>3, <3>2 DEF DestroyLock, Ready
    <3>3. CASE \E l \in Locks : CaptureUnlock(t, l)
      <4>1. PICK l \in Locks : CaptureUnlock(t, l)
        BY <3>3
      <4>2. /\ thread[t] \in {"running", "detached"} /\ thread' = thread
            /\ pc' = [pc EXCEPT ![t] = <<"unlock", l>>]
        BY <4>1 DEF CaptureUnlock, Ready
      <4>3. event'.thread = t
        BY <1>3, <4>1 DEF CaptureUnlock
      <4> QED
        BY <4>2, <4>3
    <3>4. CASE \E l \in Locks, type \in {"before", "try"} :
                   \E m \in Modes(l) : RequestLock(t, l, m, type)
      <4>1. PICK l \in Locks, type \in {"before", "try"}, m \in {"rd", "wr"} :
                 RequestLock(t, l, m, type)
        BY <3>4 DEF Modes
      <4>2. /\ thread[t] \in {"running", "detached"} /\ thread' = thread
            /\ pc' = [pc EXCEPT ![t] = <<type, l, m>>]
        BY <4>1 DEF RequestLock, Ready
      <4>3. event'.thread = t
        BY <1>3, <4>1 DEF RequestLock
      <4> QED
        BY <4>2, <4>3
    <3>5. CASE Acquire(t) \/ AcquireFails(t) \/ CaptureAcquired(t) \/ Release(t)
      <4>1. pc[t] # Idle
        BY <1>4, <3>5 DEF Acquire, AcquireFails, CaptureAcquired, Release, Requesting
      <4>2. thread' = thread /\ event'.thread \in {t, Main}
        BY <1>3, <3>5 DEF Acquire, AcquireFails, CaptureAcquired, Release
      <4>3. \E op : pc' = [pc EXCEPT ![t] = op]
        BY <3>5 DEF Acquire, AcquireFails, CaptureAcquired, Release
      <4> QED
        BY <4>1, <4>2, <4>3 DEF LivesInv
    <3> QED
      BY <1>6, <3>1, <3>2, <3>3, <3>4, <3>5 DEF LockStep
  <2> QED
    BY <1>2, <1>5, <2>1
<1>7. CASE \E u \in Threads : ReserveThread(t, u)
  BY <1>2, <1>3, <1>7 DEF ReserveThread, Ready, LivesInv
<1>8. CASE \E u \in Threads : JoinThread(t, u)
  BY <1>2, <1>3, <1>8 DEF JoinThread, Ready, LivesInv
<1>9. CASE \E u \in Threads : DetachThread(t, u)
  BY <1>2, <1>3, <1>9 DEF DetachThread, Ready, LivesInv
<1>10. CASE \E g \in StaleIds : StartFails(t, g)
  BY <1>3, <1>5, <1>10 DEF StartFails, Ready
<1>11. CASE StartThread(t)
  BY <1>2, <1>3, <1>4, <1>11 DEF StartThread, LivesInv
<1>12. CASE EndThread(t)
  BY <1>2, <1>3, <1>12 DEF EndThread, Ready, LivesInv
<1>13. CASE CaptureReaped(t)
  BY <1>2, <1>3, <1>4, <1>13 DEF CaptureReaped, LivesInv
<1> QED
  BY <1>1, <1>6, <1>7, <1>8, <1>9, <1>10, <1>11, <1>12, <1>13 DEF ThreadStep

LEMMA NextLives == SyncInv /\ LivesInv /\ [Next]_vars => LivesInv'
<1> SUFFICES ASSUME SyncInv, LivesInv, [Next]_vars PROVE LivesInv'
  OBVIOUS
<1>1. CASE UNCHANGED <<thread, pc>>
  BY <1>1 DEF LivesInv
<1>2. CASE ProgramStep
  BY <1>2, SyncLives DEF ProgramStep
<1> QED
  BY <1>1, <1>2 DEF Next, ShutDown, vars, syncVars

LEMMA NextThreadsKnown ==
    SyncInv /\ DbInv /\ LivesInv /\ [Next]_vars
        => [\A u \in Threads : db[u] # NoEntry \/ event'.thread = u => db'[u] # NoEntry]_vars
<1> SUFFICES ASSUME SyncInv, DbInv, LivesInv, Next, NEW u \in Threads,
                    db[u] # NoEntry \/ event'.thread = u
             PROVE  db'[u] # NoEntry
  OBVIOUS
<1>1. thread[event'.thread] # "none"
  BY SyncLives, MainAssumption DEF Next, ProgramStep, ShutDown, NoEvent, LivesInv
<1>2. db[u] # NoEntry
  BY <1>1 DEF DbInv
<1>3. CASE ProgramStep
  <2>1. CASE Terminated
    BY <1>2, <2>1 DEF Terminated
  <2>2. CASE db' = After(event', Before(event'))
    <3>1. Before(event')[u] = db[u] /\ DOMAIN Before(event') = Ids
      BY <1>2, Emplaced DEF Before, DbInv
    <3>2. event'.type = "destroy" => event'.object # u
      BY <1>3, EventCases, IdsAssumption DEF ProgramStep, Quiet, LockEvent
    <3> QED
      BY <1>2, <2>2, <3>1, <3>2 DEF After
  <2> QED
    BY <1>3, <2>1, <2>2, HandleCases DEF Handled
<1>4. CASE ShutDown
  BY <1>2, <1>4 DEF ShutDown
<1> QED
  BY <1>3, <1>4 DEF Next

\* The thread of every event is in the database from then on, whatever threads are
\* joined or detached and whatever ids are used again, so no report looks it up in vain.
THEOREM ThreadsAreKnown == Spec => ThreadsStayKnown
<1>1. Init => LivesInv
  BY MainAssumption DEF Init, SyncInit, LivesInv
<1> QED
  BY <1>1, NextLives, NextThreadsKnown, ProgramInvariance, DatabaseInvariance, PTL
     DEF Spec, ThreadsStayKnown

-----------------------------------------------------------------------------
(* What can end the analysis before its time.                              *)

\* A disabled analyzer has nothing to look up when it is deleted.
CalmInv ==
    /\ analysis # "terminated"
    /\ "useless-lock" \notin Analyzers => \A l \in Locks : useless[l] = "untracked"
    /\ "lock-shadow" \notin Analyzers => \A l \in Locks : ~lockStates[l].wasLocked

\* The database has the object of every event that reaches the analyzers.
LEMMA EventObjectKnown ==
    ASSUME SyncInv, DbInv, SyncNext, analysis = "running", StaticLocks = {},
           event'.bits # "none"
    PROVE  \/ event'.bits = "thread" /\ event'.type \in {"join", "detach"}
           \/ event'.object \in Known(Before(event'))
<1>1. db \in [Ids -> Entries] /\ \A l \in Locks : Created(l) => db[l] = Entry(l)
  BY DEF DbInv
<1>2. CASE event'.type = "create"
  <2>1. event'.object \in Ids
    BY EventCases DEF Quiet, LockEvent, Ids
  <2>2. [name |-> event'.id, bits |-> event'.bits] # NoEntry
    BY NoEntryFacts
  <2> QED
    BY <1>1, <1>2, <2>1, <2>2 DEF Before, Known
<1>3. CASE event'.type # "create" /\ LockEvent(event')
  <2>1. PICK t \in Threads :
             \/ \E l \in Locks, k \in Kinds : CreateLock(t, l, k)
             \/ \E l \in Locks : DestroyLock(t, l)
             \/ \E l \in Locks, type \in {"before", "try"} :
                    \E m \in Modes(l) : RequestLock(t, l, m, type)
             \/ Acquire(t) \/ AcquireFails(t) \/ CaptureAcquired(t)
             \/ \E l \in Locks : CaptureUnlock(t, l)
             \/ Release(t)
             \/ ThreadStep(t)
    BY ProgramCases
  <2>2. ~(Acquire(t) \/ AcquireFails(t) \/ Release(t) \/ ThreadStep(t))
    BY <1>3, QuietSteps DEF Quiet, LockEvent
  <2>3. ~\E l \in Locks, k \in Kinds : CreateLock(t, l, k)
    BY <1>3 DEF CreateLock, Event
  <2>4. ASSUME CaptureAcquired(t)
        PROVE  object[event'.object].alive
    <3>1. event'.object = pc[t][2] /\ Doing(t, "acquired", pc[t][2])
      BY <2>4 DEF CaptureAcquired, Event, Doing
    <3> QED
      BY <1>3, <3>1 DEF LockEvent, SyncInv, CallInv, LockSteps
  <2>5. ASSUME NEW l \in Locks, CaptureUnlock(t, l)
        PROVE  object[event'.object].alive
    <3>1. event'.object = l /\ (held[t][l] > 0 \/ shared[t][l] > 0)
      BY <2>5 DEF CaptureUnlock, Event
    <3> QED
      BY <3>1 DEF SyncInv, HoldInv
  <2>6. ASSUME \/ \E l \in Locks : DestroyLock(t, l)
               \/ \E l \in Locks, type \in {"before", "try"} :
                      \E m \in Modes(l) : RequestLock(t, l, m, type)
        PROVE  object[event'.object].alive
    BY <2>6 DEF DestroyLock, RequestLock, Event
  <2>7. object[event'.object].alive
    BY <2>1, <2>2, <2>3, <2>4, <2>5, <2>6
  <2>8. db[event'.object] = Entry(event'.object) /\ event'.object \in Ids
    BY <1>1, <1>3, <2>7 DEF Created, LockEvent, Ids
  <2>9. object[event'.object].kind # "none"
    BY <1>3 DEF LockEvent, SyncInv, SyncTypeOK
  <2>10. db[event'.object] # NoEntry
    BY <2>8, <2>9, NoEntryFacts DEF Entry
  <2> QED
    BY <1>3, <2>8, <2>10 DEF Before, Known
<1>4. CASE event'.type # "create" /\ Quiet(event')
  BY <1>4 DEF Quiet
<1> QED
  BY <1>2, <1>3, <1>4, EventCases

\* A verdict of useless-lock names the object it is about, which it has an entry of.
LEMMA VerdictNames ==
    ASSUME NEW l, NEW r \in UselessVerdict(l)
    PROVE  r[2] = l /\ useless[l] # "untracked"
<1>1. useless[l] # "untracked"
  BY DEF UselessVerdict
<1>2. r = <<"never locked", l>> \/ r = <<"one thread", l>>
  BY <1>1, Zenon DEF UselessVerdict
<1>3. CASE r = <<"never locked", l>>
  <2>1. <<"never locked", l>>[2] = l
    OBVIOUS
  <2> QED
    BY ONLY <1>1, <1>3, <2>1
<1>4. CASE r = <<"one thread", l>>
  <2>1. <<"one thread", l>>[2] = l
    OBVIOUS
  <2> QED
    BY ONLY <1>1, <1>4, <2>1
<1> QED
  BY <1>2, <1>3, <1>4

\* The analyzers of single objects look up the object of their event only.
LEMMA SingleLookups ==
    ASSUME Analyzers \cap {"lock-shadow", "mutex-lock-order"} = {}, NEW e, NEW pick
    PROVE  /\ Lookups(e, pick) \subseteq {e.object}
           /\ e.bits = "thread" => Lookups(e, pick) = {}
           /\ e.bits = "none" /\ e.type = "none" => Lookups(e, pick) = {}
<1>1. /\ TypeLookups(e) \subseteq {e.object}
      /\ e.bits # "mutex" => TypeLookups(e) = {}
  BY DEF TypeLookups
<1>2. /\ \A r \in UselessReports(e) : r[2] = e.object
      /\ e.bits = "thread" \/ e.type # "destroy" => UselessReports(e) = {}
  <2>1. IF e.bits # "thread" /\ e.type = "destroy"
        THEN UselessReports(e) = UselessVerdict(e.object) ELSE UselessReports(e) = {}
    BY DEF UselessReports
  <2> QED
    BY <2>1, VerdictNames
<1>3. /\ {r[2] : r \in UselessReports(e)} \subseteq {e.object}
      /\ UselessReports(e) = {} => {r[2] : r \in UselessReports(e)} = {}
  BY <1>2
<1>4. /\ UselessLookups(e) \subseteq {e.object}
      /\ RwLookups(e) \subseteq {e.object} /\ RecLookups(e) \subseteq {e.object}
  BY <1>1, <1>3 DEF UselessLookups, RwLookups, RecLookups
<1>5. e.bits = "thread" \/ (e.bits = "none" /\ e.type = "none")
          => UselessLookups(e) = {} /\ RwLookups(e) = {} /\ RecLookups(e) = {}
  BY <1>1, <1>2, <1>3 DEF UselessLookups, RwLookups, RecLookups
<1>6. \A s : Enabled("lock-shadow", s) = {} /\ Enabled("mutex-lock-order", s) = {}
  BY DEF Enabled
<1>7. \A n, s : Enabled(n, s) \subseteq s
  BY DEF Enabled
<1>8. Lookups(e, pick) \subseteq UselessLookups(e) \cup RwLookups(e) \cup RecLookups(e)
  BY <1>6, <1>7, Zenon DEF Lookups
<1>9. Lookups(e, pick) \subseteq {e.object}
  BY <1>4, <1>8
<1>10. e.bits = "thread" \/ (e.bits = "none" /\ e.type = "none") => Lookups(e, pick) = {}
  BY <1>5, <1>8
<1> QED
  BY <1>9, <1>10

\* At the end useless-lock names only objects that the database has.
LEMMA LastLookupsKnown ==
    ASSUME SyncInv, DbInv, UselessInv, CalmInv, StaticLocks = {},
           Analyzers \cap {"lock-shadow", "mutex-lock-order"} = {}, NEW pick
    PROVE  LastLookups(pick) \subseteq Known(db)
<1>1. ShadowLastLookups(pick) = {}
  BY DEF CalmInv, ShadowLastLookups, Shadowed
<1>2. ASSUME NEW l \in Locks, useless[l] # "untracked"
      PROVE  l \in Known(db)
  <2>1. object[l].alive
    BY <1>2 DEF UselessInv, CalmInv, UselessRight
  <2>2. db[l] = Entry(l) /\ object[l].kind # "none"
    BY <2>1 DEF DbInv, Created, SyncInv, SyncTypeOK
  <2> QED
    BY <2>2, NoEntryFacts DEF Entry, Known, Ids
<1>3. ASSUME NEW r \in UselessLastReports
      PROVE  r[2] \in Known(db)
  <2>1. PICK l \in Locks : r \in UselessVerdict(l)
    BY <1>3, Zenon DEF UselessLastReports
  <2>2. r[2] = l /\ useless[l] # "untracked"
    BY <2>1, VerdictNames
  <2> QED
    BY <1>2, <2>2
<1> QED
  BY <1>1, <1>3 DEF LastLookups

LEMMA NextCalm ==
    ASSUME StaticLocks = {}, Analyzers \cap {"lock-shadow", "mutex-lock-order"} = {}
    PROVE  SyncInv /\ DbInv /\ UselessInv /\ CalmInv /\ [Next]_vars => CalmInv'
<1> SUFFICES ASSUME SyncInv, DbInv, UselessInv, CalmInv, [Next]_vars
             PROVE  CalmInv'
  OBVIOUS
<1>1. CASE UNCHANGED <<analysis, analyzerVars>>
  BY <1>1 DEF CalmInv, analyzerVars, uselessVars, shadowVars
<1>2. CASE ProgramStep
  <2>1. analysis = "running" /\ SyncNext
    BY <1>2, HandleCases
  <2>2. \A pick : Lookups(event', pick) \subseteq Known(Before(event'))
    <3>1. CASE event'.bits \in {"none", "thread"}
      BY <2>1, <3>1, EventCases, SingleLookups DEF Quiet, LockEvent
    <3>2. CASE event'.bits \notin {"none", "thread"}
      BY <2>1, <3>2, EventObjectKnown, SingleLookups
    <3> QED
      BY <3>1, <3>2
  <2>3. PICK pick \in Picks : Handled(pick)
    BY <1>2, <2>2, HandleCases
  <2> QED
    BY <2>3 DEF Handled, Analyze, CalmInv, uselessVars, shadowVars
<1>3. CASE ShutDown
  BY <1>3, LastLookupsKnown DEF ShutDown, CalmInv, analyzerVars, uselessVars, shadowVars
<1> QED
  BY <1>1, <1>2, <1>3 DEF Next, vars

\* Of a program that creates all its mutexes, the three analyzers of single
\* objects never end the analysis by a lookup in vain: whatever the events and
\* wherever they stop, the objects they ask the database for are there.  (With
\* lock-shadow or mutex-lock-order the analysis can end; see analysis_crash.)
THEOREM SingleAnalyzersEndNormally ==
    ASSUME StaticLocks = {}, Analyzers \cap {"lock-shadow", "mutex-lock-order"} = {}
    PROVE  Spec => []NeverTerminates
<1>1. Init => CalmInv
  BY DEF Init, UselessInit, ShadowInit, ShadowUntracked, CalmInv
<1>2. SyncInv /\ DbInv /\ UselessInv /\ CalmInv /\ [Next]_vars => CalmInv'
  BY NextCalm
<1>3. CalmInv => NeverTerminates
  BY DEF CalmInv, NeverTerminates
<1> QED
  BY <1>1, <1>2, <1>3, ProgramInvariance, DatabaseInvariance, UselessInvariance, PTL DEF Spec
=============================================================================
