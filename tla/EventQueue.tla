------------------------------ MODULE EventQueue ------------------------------
(***************************************************************************)
(* The event queue of the capture library (lib/src): a ring of pages of    *)
(* event slots that the threads of the captured program fill without locks *)
(* and one worker thread drains into the dump file.                        *)
(*                                                                         *)
(* One action per access to shared memory, interleaved.  A program thread  *)
(* loads pages_back, fetch-adds storage_back of that page, writes the      *)
(* event's fields and later its signature; when the page is full it tries  *)
(* to advance pages_back with one CAS and starts over.  The worker reads   *)
(* storage_back of the front page, waits for each signature, writes the    *)
(* whole range to the file, and resets a page it has drained completely.   *)
(* pages_front and storage_front are private to the worker.                *)
(***************************************************************************)
EXTENDS Integers, Sequences, FiniteSets

CONSTANTS
    Threads,     \* threads of the captured program
    NumPages,    \* SYAN_BUFFER_NUM_PAGES
    PageSize,    \* SYAN_BUFFER_PAGE_SIZE
    MaxEvents,   \* bound: capture calls in one behaviour
    Places       \* places of the abstract file: Nat, or for TLC a finite part

ASSUME ThreadsAssumption == IsFiniteSet(Threads)
ASSUME NumPagesAssumption == NumPages \in Nat /\ NumPages >= 2
ASSUME PageSizeAssumption == PageSize \in Nat \ {0}
ASSUME MaxEventsAssumption == MaxEvents \in Nat
ASSUME PlacesAssumption == Places \subseteq Nat

Pages == 0 .. NumPages - 1
Slots == 0 .. PageSize - 1
NoEvent == 0        \* the content of a zeroed slot; events are numbered from 1

VARIABLES
    pagesFront,     \* page the worker drains
    pagesBack,      \* page the program threads fill
    storageFront,   \* [Pages -> slots already written to the file]
    storageBack,    \* [Pages -> slots handed out], see HandOut
    record,         \* [Pages -> [Slots -> event fields]]
    signed,         \* [Pages -> [Slots -> signature present]]
    pc,             \* [Threads -> where the thread is in a capture call]
    page,           \* [Threads -> local page_index]
    slot,           \* [Threads -> slot returned by the fetch-add]
    event,          \* [Threads -> number of the event being captured]
    wpc,            \* where the worker is
    wpage,          \* local buf_page
    wback,          \* local back
    wnext,          \* local i: next slot whose signature is awaited
    toClear,        \* slots of wpage the memset has not reached
    stopToken,      \* syan_stop_token
    draining,       \* the worker is in its last loop
    shutdown,       \* "running", "joining", "closed" or "exited"
    dump,           \* records written to the file
    \* history, read by no guard:
    laps,           \* [Pages -> times the page was released]
    placed,         \* placed[e] = place of event e, in order of reservation
    finalized,      \* events whose finalize call returned
    atStop,         \* what was placed and finalized when stopToken was set
    hazards         \* the ways a reservation has gone out of turn

queueVars == <<pagesFront, pagesBack, storageFront, storageBack, record, signed>>
threadVars == <<pc, page, slot, event>>
workerVars == <<wpc, wpage, wback, wnext, toClear, draining, dump>>
stopVars == <<stopToken, shutdown, atStop>>
history == <<laps, placed, finalized, hazards>>
vars == <<queueVars, threadVars, workerVars, stopVars, history>>

\* Mutation: the ring index is not wrapped.
NextPageUnwrapped(p) == p + 1

NextPage(p) == IF p + 1 = NumPages THEN 0 ELSE p + 1

\* Where a slot lies in the file: the worker writes pages in ring order, each
\* page as often as it is released.
Place(p, s) == (laps[p] * NumPages + p) * PageSize + s

\* Values of storage_back from PageSize on are told apart by no one (producers
\* compare slot < PAGE_SIZE, the worker clamps), so the counter saturates.
\*
\* Mutation: the increment skips a slot.
HandOutTwo(back) == IF back + 1 < PageSize THEN back + 2 ELSE PageSize

HandOut(back) == IF back < PageSize THEN back + 1 ELSE PageSize

Placed == {placed[e] : e \in DOMAIN placed}
Acquiring == {t \in Threads : pc[t] \in {"loaded", "full", "retry"}}
Holds(t) == pc[t] \in {"acquired", "initialized"}

-----------------------------------------------------------------------------
\* The state syan_init leaves: pages reset, worker started.
Init ==
    /\ pagesFront = 0
    /\ pagesBack = 0
    /\ storageFront = [p \in Pages |-> 0]
    /\ storageBack = [p \in Pages |-> 0]
    /\ record = [p \in Pages |-> [s \in Slots |-> NoEvent]]
    /\ signed = [p \in Pages |-> [s \in Slots |-> FALSE]]
    /\ pc = [t \in Threads |-> "idle"]
    /\ page = [t \in Threads |-> 0]
    /\ slot = [t \in Threads |-> 0]
    /\ event = [t \in Threads |-> NoEvent]
    /\ wpc = "check"
    /\ wpage = 0
    /\ wback = 0
    /\ wnext = 0
    /\ toClear = {}
    /\ stopToken = FALSE
    /\ draining = FALSE
    /\ shutdown = "running"
    /\ dump = <<>>
    /\ laps = [p \in Pages |-> 0]
    /\ placed = <<>>
    /\ finalized = {}
    /\ atStop = [placed |-> {}, finalized |-> {}]
    /\ hazards = {}

-----------------------------------------------------------------------------
(* The program threads: syan_buffer_acquire_event_slot, then the writes of *)
(* syan_initialize_event, then syan_finalize_event.                        *)

LoadPagesBack(t) ==
    /\ \/ pc[t] = "retry"
       \/ pc[t] = "idle" /\ Len(placed) + Cardinality(Acquiring) < MaxEvents
    /\ page' = [page EXCEPT ![t] = pagesBack]
    /\ pc' = [pc EXCEPT ![t] = "loaded"]
    /\ UNCHANGED <<queueVars, slot, event, workerVars, stopVars, history>>

\* The hazards of a fetch-add that succeeds: the page is no longer the one
\* being filled, or the worker is still zeroing the slot.
FetchHazards(t, s) ==
    (IF page[t] # pagesBack THEN {"stale"} ELSE {})
    \cup (IF page[t] = wpage /\ s \in toClear THEN {"window"} ELSE {})

AcquireSlot(t) ==
    LET p == page[t]
        s == storageBack[p]
    IN  /\ pc[t] = "loaded"
        /\ s < PageSize
        /\ storageBack' = [storageBack EXCEPT ![p] = HandOut(s)]
        /\ slot' = [slot EXCEPT ![t] = s]
        /\ event' = [event EXCEPT ![t] = Len(placed) + 1]
        /\ placed' = Append(placed, Place(p, s))
        /\ hazards' = hazards \cup FetchHazards(t, s)
        /\ pc' = [pc EXCEPT ![t] = "acquired"]
        /\ UNCHANGED <<pagesFront, pagesBack, storageFront, record, signed, page,
                       workerVars, stopVars, laps, finalized>>

PageFull(t) ==
    /\ pc[t] = "loaded"
    /\ storageBack[page[t]] >= PageSize
    /\ storageBack' = [storageBack EXCEPT ![page[t]] = HandOut(@)]
    /\ pc' = [pc EXCEPT ![t] = "full"]
    /\ UNCHANGED <<pagesFront, pagesBack, storageFront, record, signed, page,
                   slot, event, workerVars, stopVars, history>>

\* The hazards of a CAS that succeeds: it lands on the page the worker has yet
\* to release, or the page it leaves has been recycled and has room again.
AdvanceHazards(p) ==
    (IF NextPage(p) = pagesFront THEN {"lapped"} ELSE {})
    \cup (IF storageBack[p] < PageSize THEN {"skip"} ELSE {})

AdvancePage(t) ==
    /\ pc[t] = "full"
    /\ IF pagesBack = page[t]
         THEN /\ pagesBack' = NextPage(page[t])
              /\ hazards' = hazards \cup AdvanceHazards(page[t])
         ELSE UNCHANGED <<pagesBack, hazards>>
    /\ pc' = [pc EXCEPT ![t] = "retry"]
    /\ UNCHANGED <<pagesFront, storageFront, storageBack, record, signed, page,
                   slot, event, workerVars, stopVars, laps, placed, finalized>>

InitializeEvent(t) ==
    /\ pc[t] = "acquired"
    /\ record' = [record EXCEPT ![page[t]][slot[t]] = event[t]]
    /\ pc' = [pc EXCEPT ![t] = "initialized"]
    /\ UNCHANGED <<pagesFront, pagesBack, storageFront, storageBack, signed, page,
                   slot, event, workerVars, stopVars, history>>

FinalizeEvent(t) ==
    /\ pc[t] = "initialized"
    /\ signed' = [signed EXCEPT ![page[t]][slot[t]] = TRUE]
    /\ finalized' = finalized \cup {event[t]}
    /\ pc' = [pc EXCEPT ![t] = "idle"]
    /\ UNCHANGED <<pagesFront, pagesBack, storageFront, storageBack, record, page,
                   slot, event, workerVars, stopVars, laps, placed, hazards>>

-----------------------------------------------------------------------------
(* The worker thread: loop() and work().                                   *)

\* Mutation: the worker leaves without its last drain.
LeaveOnStop == IF stopToken THEN "done" ELSE "load"

EnterLoop == "load"

CheckStopToken ==
    /\ wpc = "check"
    /\ draining' = stopToken
    /\ wpc' = EnterLoop
    /\ UNCHANGED <<queueVars, threadVars, wpage, wback, wnext, toClear, dump,
                   stopVars, history>>

\* Mutation: only pages that are full are written.
LoadFullPage ==
    /\ wpc = "load"
    /\ wpage' = pagesFront
    /\ wnext' = storageFront[pagesFront]
    /\ wback' = IF storageBack[pagesFront] = PageSize THEN PageSize
                ELSE storageFront[pagesFront]
    /\ wpc' = "scan"
    /\ UNCHANGED <<queueVars, threadVars, toClear, draining, dump, stopVars,
                   history>>

\* Mutation: the last slot handed out is left for the next round.
LoadOneShort ==
    /\ wpc = "load"
    /\ wpage' = pagesFront
    /\ wnext' = storageFront[pagesFront]
    /\ wback' = IF storageBack[pagesFront] > storageFront[pagesFront]
                THEN storageBack[pagesFront] - 1 ELSE storageFront[pagesFront]
    /\ wpc' = "scan"
    /\ UNCHANGED <<queueVars, threadVars, toClear, draining, dump, stopVars,
                   history>>

LoadFrontPage ==
    /\ wpc = "load"
    /\ wpage' = pagesFront
    /\ wnext' = storageFront[pagesFront]
    /\ wback' = storageBack[pagesFront]
    /\ wpc' = "scan"
    /\ UNCHANGED <<queueVars, threadVars, toClear, draining, dump, stopVars,
                   history>>

\* Mutation: the worker trusts storage_back and does not wait.
ReadyWithoutWait(p, s) == s < storageBack[p]

Ready(p, s) == signed[p][s]

\* The busy wait: enabled once the signature is there.
SeeSignature ==
    /\ wpc = "scan"
    /\ wnext < wback
    /\ Ready(wpage, wnext)
    /\ wnext' = wnext + 1
    /\ UNCHANGED <<queueVars, threadVars, wpc, wpage, wback, toClear, draining,
                   dump, stopVars, history>>

\* Mutation: the write starts at slot 0 instead of storage_front.
BatchFromFirstSlot == [i \in 1 .. wback |-> record[wpage][i - 1]]

\* Mutation: the write is one record short.
BatchOneShort == [i \in 1 .. (wback - storageFront[wpage] - 1) |->
                      record[wpage][storageFront[wpage] + i - 1]]

\* The records that fwrite is given.
Batch == [i \in 1 .. (wback - storageFront[wpage]) |->
              record[wpage][storageFront[wpage] + i - 1]]

WriteBatch ==
    /\ wpc = "scan"
    /\ wnext = wback
    /\ dump' = dump \o Batch
    /\ wpc' = "written"
    /\ UNCHANGED <<queueVars, threadVars, wpage, wback, wnext, toClear, draining,
                   stopVars, history>>

\* A short fwrite: some of the records reach the file and the process exits.
WriteFails ==
    /\ wpc = "scan"
    /\ wnext = wback
    /\ \E n \in 0 .. (wback - storageFront[wpage] - 1) :
           dump' = dump \o SubSeq(Batch, 1, n)
    /\ wpc' = "failed"
    /\ shutdown' = "exited"
    /\ UNCHANGED <<queueVars, threadVars, wpage, wback, wnext, toClear, draining,
                   stopToken, atStop, history>>

\* Mutation: the stop is not seen a second time.
AfterWorkForgetsStop == IF wback > storageFront[wpage] THEN "load" ELSE "check"

\* Whether work() wrote anything decides between its two loops in loop().
AfterWork == IF wback > storageFront[wpage] THEN "load"
             ELSE IF draining THEN "done"
             ELSE "check"

\* The end of work() on a page with room.
KeepPage ==
    /\ wpc = "written"
    /\ wback < PageSize
    /\ storageFront' = [storageFront EXCEPT ![wpage] = wback]
    /\ wpc' = AfterWork
    /\ UNCHANGED <<pagesFront, pagesBack, storageBack, record, signed, threadVars,
                   wpage, wback, wnext, toClear, draining, dump, stopVars, history>>

\* Mutation: the memset starts one slot too far.
ResetRangeShort == 1 .. PageSize - 1

ResetRange == Slots

\* syan_buffer_release_front_page up to the atomic store of storage_back.
ReleasePage ==
    /\ wpc = "written"
    /\ wback = PageSize
    /\ pagesFront' = NextPage(pagesFront)
    /\ storageFront' = [storageFront EXCEPT ![wpage] = 0]
    /\ storageBack' = [storageBack EXCEPT ![wpage] = 0]
    /\ toClear' = ResetRange
    /\ laps' = [laps EXCEPT ![wpage] = @ + 1]
    /\ hazards' = IF pagesBack = wpage THEN hazards \cup {"early"} ELSE hazards
    /\ wpc' = "clear"
    /\ UNCHANGED <<pagesBack, record, signed, threadVars, wpage, wback, wnext,
                   draining, dump, stopVars, placed, finalized>>

\* The memset that follows that store reaches the slots in any order.
ClearSlot ==
    /\ wpc = "clear"
    /\ \E s \in toClear :
           /\ record' = [record EXCEPT ![wpage][s] = NoEvent]
           /\ signed' = [signed EXCEPT ![wpage][s] = FALSE]
           /\ toClear' = toClear \ {s}
    /\ UNCHANGED <<pagesFront, pagesBack, storageFront, storageBack, threadVars,
                   wpc, wpage, wback, wnext, draining, dump, stopVars, history>>

PageCleared ==
    /\ wpc = "clear"
    /\ toClear = {}
    /\ wpc' = "load"
    /\ UNCHANGED <<queueVars, threadVars, wpage, wback, wnext, toClear, draining,
                   dump, stopVars, history>>

-----------------------------------------------------------------------------
(* syan_shutdown, run by the library's destructor while other threads of   *)
(* the program may still be capturing.                                     *)

StopWorker ==
    /\ shutdown = "running"
    /\ stopToken' = TRUE
    /\ shutdown' = "joining"
    /\ atStop' = [placed |-> Placed, finalized |-> finalized]
    /\ UNCHANGED <<queueVars, threadVars, workerVars, history>>

JoinAndClose ==
    /\ shutdown = "joining"
    /\ wpc = "done"
    /\ shutdown' = "closed"
    /\ UNCHANGED <<queueVars, threadVars, workerVars, stopToken, atStop, history>>

-----------------------------------------------------------------------------
Capture(t) == \/ AcquireSlot(t)     \/ PageFull(t)        \/ AdvancePage(t)
              \/ InitializeEvent(t) \/ FinalizeEvent(t)

Work == \/ CheckStopToken \/ LoadFrontPage \/ SeeSignature \/ WriteBatch
        \/ KeepPage       \/ ReleasePage   \/ ClearSlot    \/ PageCleared

Next == \/ \E t \in Threads : LoadPagesBack(t) \/ Capture(t)
        \/ Work
        \/ WriteFails
        \/ StopWorker
        \/ JoinAndClose

Spec == Init /\ [][Next]_vars

\* A capture call that has begun and the worker are scheduled; nothing obliges
\* the program to capture another event, to stop, or the disk to fail.
Fairness ==
    /\ \A t \in Threads : WF_vars(Capture(t) \/ (pc[t] = "retry" /\ LoadPagesBack(t)))
    /\ WF_vars(Work)
    /\ WF_vars(JoinAndClose)

FairSpec == Spec /\ Fairness
-----------------------------------------------------------------------------
(* Properties *)

Dumped == {dump[k] : k \in DOMAIN dump} \ {NoEvent}

QueueTypeOK ==
    /\ pagesFront \in Pages
    /\ pagesBack \in Pages
    /\ storageFront \in [Pages -> 0 .. PageSize]
    /\ storageBack \in [Pages -> 0 .. PageSize]
    /\ record \in [Pages -> [Slots -> Nat]]
    /\ signed \in [Pages -> [Slots -> BOOLEAN]]

ThreadTypeOK ==
    /\ pc \in [Threads -> {"idle", "loaded", "full", "retry", "acquired",
                           "initialized"}]
    /\ page \in [Threads -> Pages]
    /\ slot \in [Threads -> Slots]
    /\ event \in [Threads -> Nat]

WorkerTypeOK ==
    /\ wpc \in {"check", "load", "scan", "written", "clear", "done", "failed"}
    /\ wpage \in Pages
    /\ wback \in 0 .. PageSize
    /\ wnext \in 0 .. PageSize
    /\ toClear \in SUBSET Slots
    /\ draining \in BOOLEAN
    /\ dump \in Seq(Nat)

StopTypeOK ==
    /\ stopToken \in BOOLEAN
    /\ shutdown \in {"running", "joining", "closed", "exited"}
    /\ atStop \in [placed : SUBSET Nat, finalized : SUBSET Nat]

HistoryTypeOK ==
    /\ laps \in [Pages -> Nat]
    /\ placed \in Seq(Nat)
    /\ finalized \in SUBSET Nat
    /\ hazards \in SUBSET {"stale", "window", "lapped", "skip", "early"}

TypeOK == QueueTypeOK /\ ThreadTypeOK /\ WorkerTypeOK /\ StopTypeOK /\ HistoryTypeOK

\* Two threads are never given the same slot, whichever generation of the page
\* each of them got it from: a thread that stalls between the fetch-add and
\* its finalize call keeps the slot to itself across the worker's resets.
SlotExclusive ==
    \A t, u \in Threads :
        t # u /\ Holds(t) /\ Holds(u) => <<page[t], slot[t]>> # <<page[u], slot[u]>>

\* A slot whose owner has not finalized carries no signature, except one
\* acquired before the memset reached it, so the worker's busy wait never takes
\* the signature of an earlier tenant for that of the present one.
UnsignedWhileHeld ==
    \A t \in Threads :
        Holds(t) /\ signed[page[t]][slot[t]] => page[t] = wpage /\ slot[t] \in toClear

\* The worker hands fwrite only slots that carry a signature, and resets a page
\* only when each of its slots does and no thread still has one of them.
WriteOnlySigned ==
    /\ wpc \in {"scan", "written"} =>
           \A s \in Slots : s < wnext => signed[wpage][s]
    /\ wpc = "written" /\ wback = PageSize =>
           \A t \in Threads : Holds(t) => page[t] # wpage

\* The record at position k of the file is the event that reserved place k, and
\* that event was finalized before it was written; in particular no event is
\* written twice and none overwrites another, over any number of page resets.
DumpByPlace ==
    \A k \in DOMAIN dump :
        dump[k] # NoEvent => dump[k] \in finalized /\ placed[dump[k]] = k - 1

\* An event whose finalize call has returned is in the file or still signed in
\* the slot it was given, unless some slot was acquired from under the memset.
NothingVanishes ==
    "window" \notin hazards =>
        \A e \in finalized \ Dumped :
            \E p \in Pages, s \in Slots :
                placed[e] = Place(p, s) /\ record[p][s] = e /\ signed[p][s]

\* Places are given in the order of the reservations as long as none of the
\* four ways out of turn was taken.
InTurnUnlessHazard ==
    hazards \subseteq {"window"} => \A e \in DOMAIN placed : placed[e] = e - 1

\* When the file is closed it has no place left that was reserved before the
\* stop and follows the written ones, and it has every event finalized before
\* the stop if no reservation was out of turn.
ClosedComplete ==
    shutdown = "closed" =>
        /\ Len(dump) \notin atStop.placed
        /\ hazards = {} => atStop.finalized \subseteq Dumped

\* While the library runs, a capture call that has begun returns: a thread that
\* finds the ring full goes round it until the worker has released a page.
CaptureReturns ==
    \A t \in Threads :
        pc[t] # "idle" ~> \/ pc[t] = "idle"
                          \/ stopToken \/ shutdown = "exited" \/ "window" \in hazards

\* Once told to stop, the worker ends its last loop, so the join in
\* syan_shutdown returns: no signature it waits for is missing for ever.
WorkerStops ==
    stopToken ~> wpc \in {"done", "failed"} \/ "window" \in hazards

\* A finalized event is written by the running worker, without waiting for
\* another event or for the stop, unless some reservation was out of turn.
EventuallyWritten ==
    \A e \in 1 .. MaxEvents :
        e \in finalized ~> \/ e \in Dumped
                           \/ stopToken \/ shutdown = "exited" \/ hazards # {}

-----------------------------------------------------------------------------
(* What the project's paper says of the library and the code does not do.  *)

\* Whatever was finalized before the library is shut down is in the file.
FileComplete == shutdown = "closed" => atStop.finalized \subseteq Dumped

\* The worker's busy wait for a signature is over soon, so it always stops.
WorkerAlwaysStops == stopToken ~> wpc \in {"done", "failed"}

-----------------------------------------------------------------------------
(* EventQueue implements EventLog.                                         *)

\* The event is intact: written, or in its slot with what it has stored so far.
Intact(e) ==
    \/ e \in Dumped
    \/ \E p \in Pages, s \in Slots :
           /\ placed[e] = Place(p, s)
           /\ record[p][s] = e
           /\ e \in finalized => signed[p][s]
    \/ \E t \in Threads : event[t] = e /\ pc[t] = "acquired"

Spoiled == {placed[e] : e \in {x \in DOMAIN placed : ~Intact(x)}}

Phase == CASE shutdown = "running" -> "open"
           [] shutdown = "joining" -> "stopping"
           [] shutdown = "closed" -> "closed"
           [] shutdown = "exited" -> "failed"

Log == INSTANCE EventLog WITH
           Places   <- Places,
           reserved <- Placed,
           final    <- {placed[e] : e \in finalized},
           spoiled  <- Spoiled,
           written  <- Len(dump),
           due      <- atStop.placed,
           phase    <- Phase

\* Every step of the queue reserves a fresh place, finalizes one, spoils one,
\* extends the file by finalized places, stops, closes or fails, or is none of
\* the log's business.
ImplementsLog == Log!Spec
=============================================================================
