---------------------------- MODULE MCEventQueue ----------------------------
(* TLC instances of EventQueue. *)
EXTENDS EventQueue, TLC

ThreadSymmetry == Permutations(Threads)

\* No behaviour of these instances reserves a place beyond these: a page is
\* released at most MaxEvents times.
MCPlaces == 0 .. (MaxEvents + 1) * NumPages * PageSize

\* A state that Init leads to: one thread has filled the ring, and the worker has
\* not run yet.
Filled(t) ==
    /\ pagesFront = 0
    /\ pagesBack = NumPages - 1
    /\ storageFront = [p \in Pages |-> 0]
    /\ storageBack = [p \in Pages |-> PageSize]
    /\ record = [p \in Pages |-> [s \in Slots |-> p * PageSize + s + 1]]
    /\ signed = [p \in Pages |-> [s \in Slots |-> TRUE]]
    /\ pc = [u \in Threads |-> "idle"]
    /\ page = [u \in Threads |-> IF u = t THEN NumPages - 1 ELSE 0]
    /\ slot = [u \in Threads |-> IF u = t THEN PageSize - 1 ELSE 0]
    /\ event = [u \in Threads |-> IF u = t THEN NumPages * PageSize ELSE NoEvent]
    /\ wpc = "check"
    /\ wpage = 0
    /\ wback = 0
    /\ wnext = 0
    /\ toClear = {}
    /\ stopToken = FALSE
    /\ draining = FALSE
    /\ shutdown = "running"
    /\ dump = <<>>
    /\ laps = [p \in Pages |-> 0]
    /\ placed = [e \in 1 .. NumPages * PageSize |-> e - 1]
    /\ finalized = 1 .. NumPages * PageSize
    /\ atStop = [placed |-> {}, finalized |-> {}]
    /\ hazards = {}

FilledSpec == Filled(CHOOSE t \in Threads : TRUE) /\ [][Next]_vars /\ Fairness
=============================================================================
