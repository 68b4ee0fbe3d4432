--------------------------- MODULE EventQueueProofs ---------------------------
(***************************************************************************)
(* Proofs about EventQueue, for any set of threads and any number and size *)
(* of pages: type correctness, and that a slot belongs to one thread from  *)
(* the fetch-add to the signature across all the worker's resets.          *)
(***************************************************************************)
EXTENDS EventQueue, TLAPS

LEMMA NextPageType ==
    ASSUME NEW p \in Pages
    PROVE  NextPage(p) \in Pages /\ NextPage(p) # p
BY NumPagesAssumption DEF NextPage, Pages

LEMMA HandOutType ==
    ASSUME NEW b \in 0 .. PageSize
    PROVE  /\ HandOut(b) \in 0 .. PageSize
           /\ HandOut(b) >= b
           /\ b < PageSize => HandOut(b) = b + 1
BY PageSizeAssumption DEF HandOut

LEMMA PlaceType ==
    ASSUME TypeOK, NEW p \in Pages, NEW s \in Slots
    PROVE  Place(p, s) \in Nat
<1>1. laps[p] \in Nat /\ p \in Nat /\ s \in Nat
  BY DEF TypeOK, HistoryTypeOK, Pages, Slots
<1>2. NumPages \in Nat /\ PageSize \in Nat
  BY NumPagesAssumption, PageSizeAssumption
<1>3. \A a, b \in Nat : a * b \in Nat
  BY SMT
<1>4. laps[p] * NumPages + p \in Nat
  BY <1>1, <1>2, <1>3
<1>5. (laps[p] * NumPages + p) * PageSize \in Nat
  BY <1>2, <1>3, <1>4
<1> QED
  BY <1>1, <1>5 DEF Place

LEMMA BatchType ==
    ASSUME TypeOK, storageFront[wpage] <= wback
    PROVE  Batch \in Seq(Nat) /\ Len(Batch) = wback - storageFront[wpage]
<1>1. storageFront[wpage] \in 0 .. PageSize /\ wback \in 0 .. PageSize
  BY DEF TypeOK, QueueTypeOK, WorkerTypeOK
<1>2. ASSUME NEW i \in 1 .. (wback - storageFront[wpage])
      PROVE  record[wpage][storageFront[wpage] + i - 1] \in Nat
  <2>1. storageFront[wpage] + i - 1 \in Slots
    BY <1>1, PageSizeAssumption DEF Slots
  <2> QED
    BY <2>1 DEF TypeOK, QueueTypeOK, WorkerTypeOK
<1>3. wback - storageFront[wpage] \in Nat
  BY <1>1, PageSizeAssumption
<1> QED
  BY <1>2, <1>3 DEF Batch

-----------------------------------------------------------------------------
(* The strengthening: what the worker has seen of its page, and what the   *)
(* counters say of the slots of every page.                                *)

\* Slots before storage_front, and those the worker has looked at, are signed;
\* what it takes to be handed out has been; and a memset is under way only
\* between a release and the next look at the front page.
ScanInv ==
    /\ \A p \in Pages : storageFront[p] <= storageBack[p]
    /\ \A p \in Pages, s \in Slots : s < storageFront[p] => signed[p][s]
    /\ wpc \in {"scan", "written"} =>
           /\ wpage = pagesFront
           /\ storageFront[wpage] <= wnext
           /\ wnext <= wback
           /\ wback <= storageBack[wpage]
           /\ \A s \in Slots : s < wnext => signed[wpage][s]
    /\ wpc = "written" => wnext = wback
    /\ wpc # "clear" => toClear = {}
    /\ wpc = "clear" => storageFront[wpage] = 0

\* A held slot is below storage_back, a slot at or above it carries no signature
\* unless the memset has yet to reach it, and held slots are apart.
SlotInv ==
    /\ \A t \in Threads : Holds(t) => slot[t] < storageBack[page[t]]
    /\ \A p \in Pages, s \in Slots :
           s >= storageBack[p] /\ signed[p][s] => p = wpage /\ s \in toClear
    /\ SlotExclusive
    /\ UnsignedWhileHeld

IInv == TypeOK /\ ScanInv /\ SlotInv

\* The initial state.
LEMMA InitIInv == Init => IInv
<1> SUFFICES ASSUME Init PROVE IInv
  OBVIOUS
<1> USE NumPagesAssumption, PageSizeAssumption
<1>1. TypeOK
  <2>1. QueueTypeOK
    BY DEF Init, NoEvent, Pages, Slots, QueueTypeOK
  <2>2. ThreadTypeOK
    <3>1. 0 \in Pages /\ 0 \in Slots
      BY DEF Pages, Slots
    <3> QED
      BY <3>1 DEF Init, NoEvent, ThreadTypeOK
  <2>3. WorkerTypeOK
    <3>1. 0 \in Pages /\ 0 \in 0 .. PageSize
      BY DEF Pages
    <3>2. <<>> \in Seq(Nat)
      OBVIOUS
    <3> QED
      BY <3>1, <3>2 DEF Init, WorkerTypeOK
  <2>4. StopTypeOK
    BY DEF Init, StopTypeOK
  <2>5. HistoryTypeOK
    BY DEF Init, HistoryTypeOK
  <2> QED
    BY <2>1, <2>2, <2>3, <2>4, <2>5 DEF TypeOK
<1>2. ScanInv
  BY DEF Init, Pages, Slots, ScanInv
<1>3. SlotInv
  BY DEF Init, Pages, Slots, SlotInv, SlotExclusive, UnsignedWhileHeld, Holds
<1> QED
  BY <1>1, <1>2, <1>3 DEF IInv

-----------------------------------------------------------------------------
(* One lemma per action: each preserves IInv.                              *)

LEMMA LoadPagesBackIInv ==
    ASSUME IInv, NEW t \in Threads, LoadPagesBack(t)
    PROVE  IInv'
<1> USE DEF IInv
<1>1. TypeOK'
  BY DEF LoadPagesBack, vars, queueVars, threadVars, workerVars, stopVars, history,
         TypeOK, QueueTypeOK, ThreadTypeOK, WorkerTypeOK, StopTypeOK, HistoryTypeOK
<1>2. ScanInv'
  BY DEF LoadPagesBack, vars, queueVars, threadVars, workerVars, stopVars, history, Slots,
         QueueTypeOK, ThreadTypeOK, WorkerTypeOK, TypeOK, ScanInv
<1>3. SlotInv'
  BY ZenonT(60) DEF LoadPagesBack, vars, queueVars, threadVars, workerVars, stopVars, history, Slots,
         TypeOK, QueueTypeOK, ThreadTypeOK, WorkerTypeOK, StopTypeOK, HistoryTypeOK, ScanInv,
         SlotInv, SlotExclusive, UnsignedWhileHeld, Holds
<1> QED
  BY <1>1, <1>2, <1>3

LEMMA AcquireSlotIInv ==
    ASSUME IInv, NEW t \in Threads, AcquireSlot(t)
    PROVE  IInv'
<1> DEFINE p == page[t]
           s == storageBack[page[t]]
<1> USE DEF IInv
<1>1. p \in Pages /\ s \in Slots /\ s \in 0 .. PageSize /\ s = storageBack[p]
  BY PageSizeAssumption
     DEF TypeOK, QueueTypeOK, ThreadTypeOK, AcquireSlot, Slots
<1>2. HandOut(s) \in 0 .. PageSize /\ HandOut(s) = s + 1
  BY <1>1, HandOutType, PageSizeAssumption DEF Slots
<1>3. Place(p, s) \in Nat
  BY <1>1, PlaceType
<1>4. FetchHazards(t, s) \in SUBSET {"stale", "window", "lapped", "skip", "early"}
  BY DEF FetchHazards
<1>5. /\ storageBack' = [storageBack EXCEPT ![p] = s + 1]
      /\ slot' = [slot EXCEPT ![t] = s]
      /\ pc' = [pc EXCEPT ![t] = "acquired"]
      /\ event' = [event EXCEPT ![t] = Len(placed) + 1]
      /\ placed' = Append(placed, Place(p, s))
      /\ hazards' = hazards \cup FetchHazards(t, s)
      /\ UNCHANGED <<pagesFront, pagesBack, storageFront, record, signed, page>>
      /\ UNCHANGED <<wpc, wpage, wback, wnext, toClear, draining, dump>>
      /\ UNCHANGED <<stopVars, laps, finalized>>
  BY <1>2 DEF AcquireSlot, workerVars
<1>6. pc[t] = "loaded"
  BY DEF AcquireSlot
<1> HIDE DEF p, s
<1>7. TypeOK'
  <2>1. QueueTypeOK'
    BY <1>1, <1>2, <1>5 DEF TypeOK, QueueTypeOK
  <2>2. ThreadTypeOK'
    <3>1. Len(placed) + 1 \in Nat
      BY DEF TypeOK, HistoryTypeOK
    <3> QED
      BY <1>1, <1>5, <3>1 DEF TypeOK, ThreadTypeOK
  <2>3. WorkerTypeOK'
    BY <1>5 DEF TypeOK, WorkerTypeOK
  <2>4. StopTypeOK'
    BY <1>5 DEF TypeOK, StopTypeOK, stopVars
  <2>5. HistoryTypeOK'
    <3>1. placed' \in Seq(Nat)
      BY <1>3, <1>5 DEF TypeOK, HistoryTypeOK
    <3> QED
      BY <1>4, <1>5, <3>1 DEF TypeOK, HistoryTypeOK
  <2> QED
    BY <2>1, <2>2, <2>3, <2>4, <2>5 DEF TypeOK
<1>8. ScanInv'
  <2>1. \A q \in Pages : storageBack[q] <= storageBack'[q]
    BY <1>1, <1>5, SMTT(30) DEF TypeOK, QueueTypeOK, Slots
  <2> QED
    BY <2>1, <1>5, <1>7 DEF ScanInv, TypeOK, QueueTypeOK, WorkerTypeOK
<1>9. SlotInv'
  <2>1. ASSUME NEW u \in Threads, Holds(u)'
        PROVE  slot'[u] < storageBack'[page'[u]]
    <3>1. CASE u = t
      BY <1>1, <1>5, <3>1 DEF TypeOK, QueueTypeOK, ThreadTypeOK, Slots, p
    <3>2. CASE u # t
      <4>1. Holds(u) /\ slot'[u] = slot[u] /\ page'[u] = page[u]
        BY <1>5, <2>1, <3>2 DEF Holds, TypeOK, ThreadTypeOK
      <4>2. slot[u] < storageBack[page[u]]
        BY <4>1 DEF SlotInv
      <4>3. page[u] \in Pages /\ slot[u] \in Nat
        BY DEF TypeOK, ThreadTypeOK, Slots
      <4>4. storageBack[page[u]] \in Nat
            /\ storageBack[page[u]] <= storageBack'[page[u]]
        BY <1>1, <1>5, <4>3, PageSizeAssumption, SMTT(30) DEF TypeOK, QueueTypeOK
      <4>5. storageBack'[page[u]] \in Nat
        BY <1>7, <4>3 DEF TypeOK, QueueTypeOK
      <4> QED
        BY <4>1, <4>2, <4>3, <4>4, <4>5
    <3> QED
      BY <3>1, <3>2
  <2>2. ASSUME NEW q \in Pages, NEW r \in Slots,
               r >= storageBack'[q], signed'[q][r]
        PROVE  q = wpage' /\ r \in toClear'
    <3>1. r >= storageBack[q] /\ signed[q][r]
      BY <1>1, <1>5, <2>2 DEF TypeOK, QueueTypeOK, Slots
    <3> QED
      BY <1>5, <3>1 DEF SlotInv
  <2>3. ASSUME NEW u \in Threads, u # t, Holds(u)'
        PROVE  /\ Holds(u)
               /\ <<page'[u], slot'[u]>> = <<page[u], slot[u]>>
               /\ <<page[u], slot[u]>> # <<p, s>>
    <3>1. Holds(u) /\ slot'[u] = slot[u] /\ page'[u] = page[u]
      BY <1>5, <2>3 DEF Holds, TypeOK, ThreadTypeOK
    <3>2. slot[u] < storageBack[page[u]]
      BY <3>1 DEF SlotInv
    <3>3. page[u] = p => slot[u] # s
      BY <1>1, <3>2 DEF TypeOK, ThreadTypeOK, Slots, s, p
    <3> QED
      BY <3>1, <3>3
  <2>4. <<page'[t], slot'[t]>> = <<p, s>>
    BY <1>5 DEF TypeOK, ThreadTypeOK, p
  <2>5. SlotExclusive'
    <3> SUFFICES ASSUME NEW u \in Threads, NEW v \in Threads,
                        u # v, Holds(u)', Holds(v)'
                 PROVE  <<page'[u], slot'[u]>> # <<page'[v], slot'[v]>>
      BY DEF SlotExclusive
    <3>1. CASE u = t
      BY <2>3, <2>4, <3>1
    <3>2. CASE v = t
      BY <2>3, <2>4, <3>2
    <3>3. CASE u # t /\ v # t
      BY <2>3, <3>3 DEF SlotInv, SlotExclusive
    <3> QED
      BY <3>1, <3>2, <3>3
  <2>6. ASSUME NEW u \in Threads, Holds(u)', signed'[page'[u]][slot'[u]]
        PROVE  page'[u] = wpage' /\ slot'[u] \in toClear'
    <3>1. CASE u = t
      <4>1. signed[p][s]
        BY <1>5, <2>4, <2>6, <3>1
      <4>2. p = wpage /\ s \in toClear
        BY <1>1, <4>1 DEF SlotInv, p, s, Slots
      <4> QED
        BY <1>5, <2>4, <3>1, <4>2
    <3>2. CASE u # t
      BY <1>5, <2>3, <2>6, <3>2 DEF SlotInv, UnsignedWhileHeld
    <3> QED
      BY <3>1, <3>2
  <2> QED
    BY <2>1, <2>2, <2>5, <2>6 DEF SlotInv, UnsignedWhileHeld
<1> QED
  BY <1>7, <1>8, <1>9

LEMMA PageFullIInv ==
    ASSUME IInv, NEW t \in Threads, PageFull(t)
    PROVE  IInv'
<1> USE DEF IInv
<1>1. page[t] \in Pages /\ storageBack[page[t]] \in 0 .. PageSize
  BY DEF TypeOK, QueueTypeOK, ThreadTypeOK
<1>2. HandOut(storageBack[page[t]]) = storageBack[page[t]]
  BY <1>1, PageSizeAssumption DEF PageFull, HandOut
<1>3. /\ storageBack' = storageBack
      /\ pc' = [pc EXCEPT ![t] = "full"]
      /\ UNCHANGED <<pagesFront, pagesBack, storageFront, record, signed>>
      /\ UNCHANGED <<page, slot, event, workerVars, stopVars, history>>
  BY <1>1, <1>2 DEF PageFull, TypeOK, QueueTypeOK
<1>4. TypeOK'
  BY <1>3 DEF TypeOK, QueueTypeOK, ThreadTypeOK, WorkerTypeOK, StopTypeOK,
              HistoryTypeOK, workerVars, stopVars, history
<1>5. ScanInv'
  BY <1>3 DEF ScanInv, workerVars
<1>6. SlotInv'
  <2>1. \A u \in Threads : Holds(u)' => Holds(u)
    BY <1>3 DEF Holds, TypeOK, ThreadTypeOK
  <2> QED
    BY <1>3, <2>1 DEF SlotInv, SlotExclusive, UnsignedWhileHeld, workerVars
<1> QED
  BY <1>4, <1>5, <1>6

LEMMA AdvancePageIInv ==
    ASSUME IInv, NEW t \in Threads, AdvancePage(t)
    PROVE  IInv'
<1> USE DEF IInv
<1>a. page[t] \in Pages /\ NextPage(page[t]) \in Pages
  BY NextPageType DEF TypeOK, ThreadTypeOK
<1>b. AdvanceHazards(page[t])
          \in SUBSET {"stale", "window", "lapped", "skip", "early"}
  BY DEF AdvanceHazards
<1>1. TypeOK'
  <2>1. QueueTypeOK'
    BY <1>a, <1>b DEF TypeOK, QueueTypeOK, ThreadTypeOK, WorkerTypeOK, StopTypeOK, HistoryTypeOK, AdvancePage, vars, queueVars, threadVars, workerVars, stopVars, history
  <2>2. ThreadTypeOK'
    BY <1>a, <1>b DEF TypeOK, QueueTypeOK, ThreadTypeOK, WorkerTypeOK, StopTypeOK, HistoryTypeOK, AdvancePage, vars, queueVars, threadVars, workerVars, stopVars, history
  <2>3. WorkerTypeOK'
    BY <1>a, <1>b DEF TypeOK, QueueTypeOK, ThreadTypeOK, WorkerTypeOK, StopTypeOK, HistoryTypeOK, AdvancePage, vars, queueVars, threadVars, workerVars, stopVars, history
  <2>4. StopTypeOK'
    BY <1>a, <1>b DEF TypeOK, QueueTypeOK, ThreadTypeOK, WorkerTypeOK, StopTypeOK, HistoryTypeOK, AdvancePage, vars, queueVars, threadVars, workerVars, stopVars, history
  <2>5. HistoryTypeOK'
    BY <1>a, <1>b DEF TypeOK, QueueTypeOK, ThreadTypeOK, WorkerTypeOK, StopTypeOK, HistoryTypeOK, AdvancePage, vars, queueVars, threadVars, workerVars, stopVars, history
  <2> QED
    BY <2>1, <2>2, <2>3, <2>4, <2>5 DEF TypeOK
<1>2. ScanInv'
  BY DEF AdvancePage, AdvanceHazards, vars, queueVars, threadVars, workerVars, stopVars, history, Slots,
         QueueTypeOK, ThreadTypeOK, WorkerTypeOK, TypeOK, ScanInv
<1>3. SlotInv'
  BY ZenonT(60) DEF AdvancePage, AdvanceHazards, vars, queueVars, threadVars, workerVars, stopVars, history, Slots,
         TypeOK, QueueTypeOK, ThreadTypeOK, WorkerTypeOK, StopTypeOK, HistoryTypeOK, ScanInv,
         SlotInv, SlotExclusive, UnsignedWhileHeld, Holds
<1> QED
  BY <1>1, <1>2, <1>3

LEMMA InitializeEventIInv ==
    ASSUME IInv, NEW t \in Threads, InitializeEvent(t)
    PROVE  IInv'
<1> USE DEF IInv
<1>1. TypeOK'
  BY DEF InitializeEvent, vars, queueVars, threadVars, workerVars, stopVars, history,
         TypeOK, QueueTypeOK, ThreadTypeOK, WorkerTypeOK, StopTypeOK, HistoryTypeOK
<1>2. ScanInv'
  BY DEF InitializeEvent, vars, queueVars, threadVars, workerVars, stopVars, history, Slots,
         QueueTypeOK, ThreadTypeOK, WorkerTypeOK, TypeOK, ScanInv
<1>3. SlotInv'
  <2>1. (\A u \in Threads : Holds(u) => slot[u] < storageBack[page[u]])'
    BY DEF InitializeEvent, vars, queueVars, threadVars, workerVars, stopVars, history, SlotInv, SlotExclusive, UnsignedWhileHeld, Holds, TypeOK, QueueTypeOK, ThreadTypeOK, WorkerTypeOK, Slots
  <2>2. (\A p \in Pages, s \in Slots :
            s >= storageBack[p] /\ signed[p][s] => p = wpage /\ s \in toClear)'
    BY DEF InitializeEvent, vars, queueVars, threadVars, workerVars, stopVars, history, SlotInv, SlotExclusive, UnsignedWhileHeld, Holds, ScanInv, TypeOK, QueueTypeOK, ThreadTypeOK,
            WorkerTypeOK, Slots
  <2>3. SlotExclusive'
    BY ZenonT(60) DEF InitializeEvent, vars, queueVars, threadVars, workerVars, stopVars, history, SlotInv, SlotExclusive, UnsignedWhileHeld, Holds, TypeOK, QueueTypeOK, ThreadTypeOK, WorkerTypeOK, Slots
  <2>4. UnsignedWhileHeld'
    BY DEF InitializeEvent, vars, queueVars, threadVars, workerVars, stopVars, history, SlotInv, SlotExclusive, UnsignedWhileHeld, Holds, ScanInv, TypeOK, QueueTypeOK, ThreadTypeOK,
            WorkerTypeOK, Slots
  <2> QED
    BY <2>1, <2>2, <2>3, <2>4 DEF SlotInv
<1> QED
  BY <1>1, <1>2, <1>3

LEMMA FinalizeEventIInv ==
    ASSUME IInv, NEW t \in Threads, FinalizeEvent(t)
    PROVE  IInv'
<1> USE DEF IInv
<1>1. /\ pc' = [pc EXCEPT ![t] = "idle"]
      /\ signed' = [signed EXCEPT ![page[t]][slot[t]] = TRUE]
      /\ UNCHANGED <<pagesFront, pagesBack, storageFront, storageBack, record>>
      /\ UNCHANGED <<page, slot, event, workerVars, stopVars, laps, placed, hazards>>
  BY DEF FinalizeEvent
<1>2. Holds(t) /\ page[t] \in Pages /\ slot[t] \in Slots
  BY DEF FinalizeEvent, Holds, TypeOK, ThreadTypeOK
<1>3. ASSUME NEW q \in Pages, NEW r \in Slots
      PROVE  signed'[q][r] = IF q = page[t] /\ r = slot[t] THEN TRUE
                             ELSE signed[q][r]
  BY <1>1, <1>2 DEF TypeOK, QueueTypeOK
<1>4. TypeOK'
  BY DEF FinalizeEvent, TypeOK, QueueTypeOK, ThreadTypeOK, WorkerTypeOK,
         StopTypeOK, HistoryTypeOK, workerVars, stopVars
<1>5. ScanInv'
  <2>1. \A q \in Pages, r \in Slots : signed[q][r] => signed'[q][r]
    BY <1>3
  <2> QED
    BY <1>1, <2>1 DEF ScanInv, workerVars, TypeOK, WorkerTypeOK
<1>6. SlotInv'
  <2>1. ASSUME NEW u \in Threads, Holds(u)'
        PROVE  u # t /\ Holds(u)
    BY <1>1, <2>1 DEF Holds, TypeOK, ThreadTypeOK
  <2>2. (\A u \in Threads : Holds(u) => slot[u] < storageBack[page[u]])'
    BY <1>1, <2>1 DEF SlotInv
  <2>3. ASSUME NEW q \in Pages, NEW r \in Slots,
               r >= storageBack'[q], signed'[q][r]
        PROVE  q = wpage' /\ r \in toClear'
    <3>1. slot[t] < storageBack[page[t]]
      BY <1>2 DEF SlotInv
    <3>2. ~ (q = page[t] /\ r = slot[t])
      BY <1>1, <1>2, <2>3, <3>1, SMTT(30) DEF TypeOK, QueueTypeOK, Slots
    <3>3. r >= storageBack[q] /\ signed[q][r]
      BY <1>1, <1>3, <2>3, <3>2
    <3> QED
      BY <1>1, <3>3 DEF SlotInv, workerVars
  <2>4. SlotExclusive'
    BY <1>1, <2>1 DEF SlotInv, SlotExclusive
  <2>5. ASSUME NEW u \in Threads, Holds(u)', signed'[page'[u]][slot'[u]]
        PROVE  page'[u] = wpage' /\ slot'[u] \in toClear'
    <3>1. u # t /\ Holds(u) /\ page[u] \in Pages /\ slot[u] \in Slots
      BY <2>1, <2>5 DEF TypeOK, ThreadTypeOK
    <3>2. <<page[u], slot[u]>> # <<page[t], slot[t]>>
      BY <1>2, <3>1 DEF SlotInv, SlotExclusive
    <3>3. signed[page[u]][slot[u]]
      BY <1>1, <1>3, <2>5, <3>1, <3>2
    <3> QED
      BY <1>1, <3>1, <3>3 DEF SlotInv, UnsignedWhileHeld, workerVars
  <2> QED
    BY <2>2, <2>3, <2>4, <2>5 DEF SlotInv, UnsignedWhileHeld
<1> QED
  BY <1>4, <1>5, <1>6

LEMMA CheckStopTokenIInv ==
    ASSUME IInv, CheckStopToken
    PROVE  IInv'
<1> USE DEF IInv
<1>1. TypeOK'
  BY DEF CheckStopToken, EnterLoop, vars, queueVars, threadVars, workerVars, stopVars, history,
         TypeOK, QueueTypeOK, ThreadTypeOK, WorkerTypeOK, StopTypeOK, HistoryTypeOK
<1>2. ScanInv'
  BY DEF CheckStopToken, EnterLoop, vars, queueVars, threadVars, workerVars, stopVars, history, Slots,
         QueueTypeOK, ThreadTypeOK, WorkerTypeOK, TypeOK, ScanInv
<1>3. SlotInv'
  BY DEF CheckStopToken, EnterLoop, vars, queueVars, threadVars, workerVars, stopVars, history, Slots,
         TypeOK, QueueTypeOK, ThreadTypeOK, WorkerTypeOK, StopTypeOK, HistoryTypeOK, ScanInv,
         SlotInv, SlotExclusive, UnsignedWhileHeld, Holds
<1> QED
  BY <1>1, <1>2, <1>3

LEMMA LoadFrontPageIInv ==
    ASSUME IInv, LoadFrontPage
    PROVE  IInv'
<1> USE DEF IInv
<1>1. TypeOK'
  BY DEF LoadFrontPage, vars, queueVars, threadVars, workerVars, stopVars, history,
         TypeOK, QueueTypeOK, ThreadTypeOK, WorkerTypeOK, StopTypeOK, HistoryTypeOK
<1>2. ScanInv'
  BY DEF LoadFrontPage, vars, queueVars, threadVars, workerVars, stopVars, history, Slots,
         QueueTypeOK, ThreadTypeOK, WorkerTypeOK, TypeOK, ScanInv
<1>3. SlotInv'
  BY DEF LoadFrontPage, vars, queueVars, threadVars, workerVars, stopVars, history, Slots,
         TypeOK, QueueTypeOK, ThreadTypeOK, WorkerTypeOK, StopTypeOK, HistoryTypeOK, ScanInv,
         SlotInv, SlotExclusive, UnsignedWhileHeld, Holds
<1> QED
  BY <1>1, <1>2, <1>3

LEMMA SeeSignatureIInv ==
    ASSUME IInv, SeeSignature
    PROVE  IInv'
<1> USE DEF IInv
<1>1. TypeOK'
  <2>1. QueueTypeOK'
    BY PageSizeAssumption DEF TypeOK, QueueTypeOK, ThreadTypeOK, WorkerTypeOK, StopTypeOK, HistoryTypeOK, SeeSignature, Ready, vars, queueVars, threadVars, workerVars, stopVars, history
  <2>2. ThreadTypeOK'
    BY PageSizeAssumption DEF TypeOK, QueueTypeOK, ThreadTypeOK, WorkerTypeOK, StopTypeOK, HistoryTypeOK, SeeSignature, Ready, vars, queueVars, threadVars, workerVars, stopVars, history
  <2>3. WorkerTypeOK'
    BY PageSizeAssumption DEF TypeOK, QueueTypeOK, ThreadTypeOK, WorkerTypeOK, StopTypeOK, HistoryTypeOK, SeeSignature, Ready, vars, queueVars, threadVars, workerVars, stopVars, history
  <2>4. StopTypeOK'
    BY PageSizeAssumption DEF TypeOK, QueueTypeOK, ThreadTypeOK, WorkerTypeOK, StopTypeOK, HistoryTypeOK, SeeSignature, Ready, vars, queueVars, threadVars, workerVars, stopVars, history
  <2>5. HistoryTypeOK'
    BY PageSizeAssumption DEF TypeOK, QueueTypeOK, ThreadTypeOK, WorkerTypeOK, StopTypeOK, HistoryTypeOK, SeeSignature, Ready, vars, queueVars, threadVars, workerVars, stopVars, history
  <2> QED
    BY <2>1, <2>2, <2>3, <2>4, <2>5 DEF TypeOK
<1>2. ScanInv'
  BY DEF SeeSignature, Ready, vars, queueVars, threadVars, workerVars, stopVars, history, Slots,
         QueueTypeOK, ThreadTypeOK, WorkerTypeOK, TypeOK, ScanInv
<1>3. SlotInv'
  BY DEF SeeSignature, Ready, vars, queueVars, threadVars, workerVars, stopVars, history, Slots,
         TypeOK, QueueTypeOK, ThreadTypeOK, WorkerTypeOK, StopTypeOK, HistoryTypeOK, ScanInv,
         SlotInv, SlotExclusive, UnsignedWhileHeld, Holds
<1> QED
  BY <1>1, <1>2, <1>3

LEMMA WriteBatchIInv ==
    ASSUME IInv, WriteBatch
    PROVE  IInv'
<1> USE DEF IInv
<1>a. Batch \in Seq(Nat)
  BY BatchType DEF WriteBatch, TypeOK, QueueTypeOK, WorkerTypeOK, ScanInv
<1>1. TypeOK'
  <2>1. QueueTypeOK'
    BY <1>a DEF TypeOK, QueueTypeOK, ThreadTypeOK, WorkerTypeOK, StopTypeOK, HistoryTypeOK, WriteBatch, vars, queueVars, threadVars, workerVars, stopVars, history
  <2>2. ThreadTypeOK'
    BY <1>a DEF TypeOK, QueueTypeOK, ThreadTypeOK, WorkerTypeOK, StopTypeOK, HistoryTypeOK, WriteBatch, vars, queueVars, threadVars, workerVars, stopVars, history
  <2>3. WorkerTypeOK'
    BY <1>a DEF TypeOK, QueueTypeOK, ThreadTypeOK, WorkerTypeOK, StopTypeOK, HistoryTypeOK, WriteBatch, vars, queueVars, threadVars, workerVars, stopVars, history
  <2>4. StopTypeOK'
    BY <1>a DEF TypeOK, QueueTypeOK, ThreadTypeOK, WorkerTypeOK, StopTypeOK, HistoryTypeOK, WriteBatch, vars, queueVars, threadVars, workerVars, stopVars, history
  <2>5. HistoryTypeOK'
    BY <1>a DEF TypeOK, QueueTypeOK, ThreadTypeOK, WorkerTypeOK, StopTypeOK, HistoryTypeOK, WriteBatch, vars, queueVars, threadVars, workerVars, stopVars, history
  <2> QED
    BY <2>1, <2>2, <2>3, <2>4, <2>5 DEF TypeOK
<1>2. ScanInv'
  BY DEF WriteBatch, vars, queueVars, threadVars, workerVars, stopVars, history, Slots,
         QueueTypeOK, ThreadTypeOK, WorkerTypeOK, TypeOK, ScanInv
<1>3. SlotInv'
  BY DEF WriteBatch, vars, queueVars, threadVars, workerVars, stopVars, history, Slots,
         TypeOK, QueueTypeOK, ThreadTypeOK, WorkerTypeOK, StopTypeOK, HistoryTypeOK, ScanInv,
         SlotInv, SlotExclusive, UnsignedWhileHeld, Holds
<1> QED
  BY <1>1, <1>2, <1>3

LEMMA WriteFailsIInv ==
    ASSUME IInv, WriteFails
    PROVE  IInv'
<1> USE DEF IInv
<1>1. /\ Batch \in Seq(Nat)
      /\ Len(Batch) = wback - storageFront[wpage]
      /\ wback - storageFront[wpage] \in Int
  BY BatchType DEF WriteFails, TypeOK, QueueTypeOK, WorkerTypeOK, ScanInv
<1>2. PICK n \in 0 .. (wback - storageFront[wpage] - 1) :
          dump' = dump \o SubSeq(Batch, 1, n)
  BY DEF WriteFails
<1>3. SubSeq(Batch, 1, n) \in Seq(Nat)
  <2> DEFINE B == Batch
  <2>1. B \in Seq(Nat) /\ n \in Nat /\ n <= Len(B)
    BY <1>1, <1>2
  <2> HIDE DEF B
  <2>2. SubSeq(B, 1, n) \in Seq(Nat)
    BY <2>1
  <2> QED
    BY <2>2 DEF B
<1>4. dump' \in Seq(Nat)
  BY <1>2, <1>3 DEF TypeOK, WorkerTypeOK
<1>5. /\ wpc' = "failed"
      /\ shutdown' = "exited"
      /\ UNCHANGED <<pagesFront, pagesBack, storageFront, storageBack, record, signed>>
      /\ UNCHANGED <<threadVars, wpage, wback, wnext, toClear, draining>>
      /\ UNCHANGED <<stopToken, atStop, history>>
  BY DEF WriteFails, queueVars
<1>6. TypeOK'
  BY <1>4, <1>5
     DEF TypeOK, QueueTypeOK, ThreadTypeOK, WorkerTypeOK, StopTypeOK,
         HistoryTypeOK, threadVars, history
<1>7. ScanInv'
  BY <1>5 DEF ScanInv, WriteFails
<1>8. SlotInv'
  BY <1>5 DEF SlotInv, SlotExclusive, UnsignedWhileHeld, Holds, threadVars
<1> QED
  BY <1>6, <1>7, <1>8

LEMMA KeepPageIInv ==
    ASSUME IInv, KeepPage
    PROVE  IInv'
<1> USE DEF IInv
<1>1. TypeOK'
  BY DEF KeepPage, AfterWork, vars, queueVars, threadVars, workerVars, stopVars, history,
         TypeOK, QueueTypeOK, ThreadTypeOK, WorkerTypeOK, StopTypeOK, HistoryTypeOK
<1>2. ScanInv'
  BY DEF KeepPage, AfterWork, vars, queueVars, threadVars, workerVars, stopVars, history, Slots,
         QueueTypeOK, ThreadTypeOK, WorkerTypeOK, TypeOK, ScanInv
<1>3. SlotInv'
  BY DEF KeepPage, AfterWork, vars, queueVars, threadVars, workerVars, stopVars, history, Slots,
         TypeOK, QueueTypeOK, ThreadTypeOK, WorkerTypeOK, StopTypeOK, HistoryTypeOK, ScanInv,
         SlotInv, SlotExclusive, UnsignedWhileHeld, Holds
<1> QED
  BY <1>1, <1>2, <1>3

LEMMA ReleasePageIInv ==
    ASSUME IInv, ReleasePage
    PROVE  IInv'
<1> USE DEF IInv
<1>a. wpage \in Pages /\ NextPage(pagesFront) \in Pages
  BY NextPageType DEF TypeOK, QueueTypeOK, WorkerTypeOK
<1>b. ASSUME NEW u \in Threads, Holds(u)
      PROVE  page[u] # wpage
  <2>1. slot[u] \in Slots
    BY DEF TypeOK, ThreadTypeOK
  <2>2. wnext = PageSize /\ toClear = {}
    BY DEF ReleasePage, ScanInv
  <2>3. signed[wpage][slot[u]]
    BY <2>1, <2>2, PageSizeAssumption DEF ReleasePage, ScanInv, Slots
  <2> QED
    BY <1>b, <2>2, <2>3 DEF SlotInv, UnsignedWhileHeld
<1>1. TypeOK'
  <2>1. QueueTypeOK'
    BY <1>a, PageSizeAssumption, SMTT(30) DEF TypeOK, QueueTypeOK, ThreadTypeOK, WorkerTypeOK, StopTypeOK, HistoryTypeOK, ReleasePage, ResetRange, vars, queueVars, threadVars, workerVars, stopVars, history
  <2>2. ThreadTypeOK'
    BY <1>a, PageSizeAssumption DEF TypeOK, QueueTypeOK, ThreadTypeOK, WorkerTypeOK, StopTypeOK, HistoryTypeOK, ReleasePage, ResetRange, vars, queueVars, threadVars, workerVars, stopVars, history
  <2>3. WorkerTypeOK'
    BY <1>a, PageSizeAssumption DEF TypeOK, QueueTypeOK, ThreadTypeOK, WorkerTypeOK, StopTypeOK, HistoryTypeOK, ReleasePage, ResetRange, vars, queueVars, threadVars, workerVars, stopVars, history
  <2>4. StopTypeOK'
    BY <1>a, PageSizeAssumption DEF TypeOK, QueueTypeOK, ThreadTypeOK, WorkerTypeOK, StopTypeOK, HistoryTypeOK, ReleasePage, ResetRange, vars, queueVars, threadVars, workerVars, stopVars, history
  <2>5. HistoryTypeOK'
    <3>1. laps[wpage] + 1 \in Nat
      BY <1>a DEF TypeOK, HistoryTypeOK
    <3> QED
      BY <1>a, <3>1 DEF TypeOK, HistoryTypeOK, ReleasePage
  <2> QED
    BY <2>1, <2>2, <2>3, <2>4, <2>5 DEF TypeOK
<1>2. ScanInv'
  BY <1>a, <1>b DEF ReleasePage, ResetRange, vars, queueVars, threadVars, workerVars, stopVars, history, Slots,
         QueueTypeOK, ThreadTypeOK, WorkerTypeOK, TypeOK, ScanInv
<1>3. SlotInv'
  <2>1. (\A u \in Threads : Holds(u) => slot[u] < storageBack[page[u]])'
    BY <1>a, <1>b DEF ReleasePage, ResetRange, vars, queueVars, threadVars, workerVars, stopVars, history, SlotInv, SlotExclusive, UnsignedWhileHeld, Holds, TypeOK, QueueTypeOK, ThreadTypeOK, WorkerTypeOK, Slots
  <2>2. (\A p \in Pages, s \in Slots :
            s >= storageBack[p] /\ signed[p][s] => p = wpage /\ s \in toClear)'
    BY <1>a, <1>b DEF ReleasePage, ResetRange, vars, queueVars, threadVars, workerVars, stopVars, history, SlotInv, SlotExclusive, UnsignedWhileHeld, Holds, ScanInv, TypeOK, QueueTypeOK, ThreadTypeOK,
            WorkerTypeOK, Slots
  <2>3. SlotExclusive'
    BY <1>a, <1>b DEF ReleasePage, ResetRange, vars, queueVars, threadVars, workerVars, stopVars, history, SlotInv, SlotExclusive, UnsignedWhileHeld, Holds, TypeOK, QueueTypeOK, ThreadTypeOK, WorkerTypeOK, Slots
  <2>4. UnsignedWhileHeld'
    BY <1>a, <1>b DEF ReleasePage, ResetRange, vars, queueVars, threadVars, workerVars, stopVars, history, SlotInv, SlotExclusive, UnsignedWhileHeld, Holds, ScanInv, TypeOK, QueueTypeOK, ThreadTypeOK,
            WorkerTypeOK, Slots
  <2> QED
    BY <2>1, <2>2, <2>3, <2>4 DEF SlotInv
<1> QED
  BY <1>1, <1>2, <1>3

LEMMA ClearSlotIInv ==
    ASSUME IInv, ClearSlot
    PROVE  IInv'
<1> USE DEF IInv
<1>1. PICK s \in toClear :
          /\ record' = [record EXCEPT ![wpage][s] = NoEvent]
          /\ signed' = [signed EXCEPT ![wpage][s] = FALSE]
          /\ toClear' = toClear \ {s}
  BY DEF ClearSlot
<1>2. /\ wpc = "clear"
      /\ UNCHANGED <<pagesFront, pagesBack, storageFront, storageBack>>
      /\ UNCHANGED <<pc, page, slot, event, wpc, wpage, wback, wnext>>
      /\ UNCHANGED <<draining, dump, stopVars, history>>
  BY DEF ClearSlot, threadVars
<1>3. wpage \in Pages /\ s \in Slots
  BY <1>1 DEF TypeOK, WorkerTypeOK
<1>4. ASSUME NEW q \in Pages, NEW r \in Slots
      PROVE  signed'[q][r] = IF q = wpage /\ r = s THEN FALSE ELSE signed[q][r]
  BY <1>1, <1>3 DEF TypeOK, QueueTypeOK
<1>5. TypeOK'
  BY <1>1, <1>2, <1>3
     DEF TypeOK, QueueTypeOK, ThreadTypeOK, WorkerTypeOK, StopTypeOK,
         HistoryTypeOK, NoEvent, stopVars, history
<1>6. ScanInv'
  <2>1. storageFront[wpage] = 0
    BY <1>2 DEF ScanInv
  <2>2. ASSUME NEW q \in Pages, NEW r \in Slots, r < storageFront'[q]
        PROVE  signed'[q][r]
    <3>1. q # wpage
      BY <1>2, <2>1, <2>2 DEF Slots
    <3>2. signed[q][r]
      BY <1>2, <2>2 DEF ScanInv
    <3> QED
      BY <1>4, <3>1, <3>2
  <2> QED
    BY <1>2, <2>1, <2>2 DEF ScanInv
<1>7. SlotInv'
  <2>1. ASSUME NEW u \in Threads, Holds(u)', signed'[page'[u]][slot'[u]]
        PROVE  page'[u] = wpage' /\ slot'[u] \in toClear'
    <3>1. Holds(u) /\ page[u] \in Pages /\ slot[u] \in Slots
      BY <1>2, <2>1 DEF Holds, TypeOK, ThreadTypeOK
    <3>2. signed[page[u]][slot[u]] /\ ~ (page[u] = wpage /\ slot[u] = s)
      BY <1>2, <1>4, <2>1, <3>1
    <3> QED
      BY <1>1, <1>2, <3>1, <3>2 DEF SlotInv, UnsignedWhileHeld
  <2>2. ASSUME NEW q \in Pages, NEW r \in Slots,
               r >= storageBack'[q], signed'[q][r]
        PROVE  q = wpage' /\ r \in toClear'
    <3>1. signed[q][r] /\ ~ (q = wpage /\ r = s)
      BY <1>4, <2>2
    <3> QED
      BY <1>1, <1>2, <2>2, <3>1 DEF SlotInv
  <2> QED
    BY <1>2, <2>1, <2>2 DEF SlotInv, SlotExclusive, UnsignedWhileHeld, Holds
<1> QED
  BY <1>5, <1>6, <1>7

LEMMA PageClearedIInv ==
    ASSUME IInv, PageCleared
    PROVE  IInv'
<1> USE DEF IInv
<1>1. TypeOK'
  BY DEF PageCleared, vars, queueVars, threadVars, workerVars, stopVars, history,
         TypeOK, QueueTypeOK, ThreadTypeOK, WorkerTypeOK, StopTypeOK, HistoryTypeOK
<1>2. ScanInv'
  BY DEF PageCleared, vars, queueVars, threadVars, workerVars, stopVars, history, Slots,
         QueueTypeOK, ThreadTypeOK, WorkerTypeOK, TypeOK, ScanInv
<1>3. SlotInv'
  BY DEF PageCleared, vars, queueVars, threadVars, workerVars, stopVars, history, Slots,
         TypeOK, QueueTypeOK, ThreadTypeOK, WorkerTypeOK, StopTypeOK, HistoryTypeOK, ScanInv,
         SlotInv, SlotExclusive, UnsignedWhileHeld, Holds
<1> QED
  BY <1>1, <1>2, <1>3

LEMMA StopWorkerIInv ==
    ASSUME IInv, StopWorker
    PROVE  IInv'
<1> USE DEF IInv
<1>a. Placed \in SUBSET Nat
  BY DEF Placed, TypeOK, HistoryTypeOK
<1>1. TypeOK'
  <2>1. QueueTypeOK'
    BY <1>a DEF TypeOK, QueueTypeOK, ThreadTypeOK, WorkerTypeOK, StopTypeOK, HistoryTypeOK, StopWorker, vars, queueVars, threadVars, workerVars, stopVars, history
  <2>2. ThreadTypeOK'
    BY <1>a DEF TypeOK, QueueTypeOK, ThreadTypeOK, WorkerTypeOK, StopTypeOK, HistoryTypeOK, StopWorker, vars, queueVars, threadVars, workerVars, stopVars, history
  <2>3. WorkerTypeOK'
    BY <1>a DEF TypeOK, QueueTypeOK, ThreadTypeOK, WorkerTypeOK, StopTypeOK, HistoryTypeOK, StopWorker, vars, queueVars, threadVars, workerVars, stopVars, history
  <2>4. StopTypeOK'
    BY <1>a DEF TypeOK, QueueTypeOK, ThreadTypeOK, WorkerTypeOK, StopTypeOK, HistoryTypeOK, StopWorker, vars, queueVars, threadVars, workerVars, stopVars, history
  <2>5. HistoryTypeOK'
    BY <1>a DEF TypeOK, QueueTypeOK, ThreadTypeOK, WorkerTypeOK, StopTypeOK, HistoryTypeOK, StopWorker, vars, queueVars, threadVars, workerVars, stopVars, history
  <2> QED
    BY <2>1, <2>2, <2>3, <2>4, <2>5 DEF TypeOK
<1>2. ScanInv'
  BY DEF StopWorker, Placed, vars, queueVars, threadVars, workerVars, stopVars, history, Slots,
         QueueTypeOK, ThreadTypeOK, WorkerTypeOK, TypeOK, ScanInv
<1>3. SlotInv'
  BY DEF StopWorker, Placed, vars, queueVars, threadVars, workerVars, stopVars, history, Slots,
         TypeOK, QueueTypeOK, ThreadTypeOK, WorkerTypeOK, StopTypeOK, HistoryTypeOK, ScanInv,
         SlotInv, SlotExclusive, UnsignedWhileHeld, Holds
<1> QED
  BY <1>1, <1>2, <1>3

LEMMA JoinAndCloseIInv ==
    ASSUME IInv, JoinAndClose
    PROVE  IInv'
<1> USE DEF IInv
<1>1. TypeOK'
  BY DEF JoinAndClose, vars, queueVars, threadVars, workerVars, stopVars, history,
         TypeOK, QueueTypeOK, ThreadTypeOK, WorkerTypeOK, StopTypeOK, HistoryTypeOK
<1>2. ScanInv'
  BY DEF JoinAndClose, vars, queueVars, threadVars, workerVars, stopVars, history, Slots,
         QueueTypeOK, ThreadTypeOK, WorkerTypeOK, TypeOK, ScanInv
<1>3. SlotInv'
  BY DEF JoinAndClose, vars, queueVars, threadVars, workerVars, stopVars, history, Slots,
         TypeOK, QueueTypeOK, ThreadTypeOK, WorkerTypeOK, StopTypeOK, HistoryTypeOK, ScanInv,
         SlotInv, SlotExclusive, UnsignedWhileHeld, Holds
<1> QED
  BY <1>1, <1>2, <1>3

-----------------------------------------------------------------------------
LEMMA StutterIInv ==
    ASSUME IInv, UNCHANGED vars
    PROVE  IInv'
<1> USE DEF IInv
<1>1. TypeOK'
  BY DEF vars, queueVars, threadVars, workerVars, stopVars, history, TypeOK,
         QueueTypeOK, ThreadTypeOK, WorkerTypeOK, StopTypeOK, HistoryTypeOK
<1>2. ScanInv'
  BY DEF vars, queueVars, workerVars, ScanInv
<1>3. SlotInv'
  BY DEF vars, queueVars, threadVars, workerVars, SlotInv, SlotExclusive,
         UnsignedWhileHeld, Holds
<1> QED
  BY <1>1, <1>2, <1>3

LEMMA NextIInv == IInv /\ [Next]_vars => IInv'
<1> SUFFICES ASSUME IInv, [Next]_vars PROVE IInv'
  OBVIOUS
<1>1. ASSUME NEW t \in Threads, LoadPagesBack(t) \/ Capture(t)
      PROVE  IInv'
  BY <1>1, LoadPagesBackIInv, AcquireSlotIInv, PageFullIInv, AdvancePageIInv,
     InitializeEventIInv, FinalizeEventIInv DEF Capture
<1>2. CASE Work
  BY <1>2, CheckStopTokenIInv, LoadFrontPageIInv, SeeSignatureIInv,
     WriteBatchIInv, KeepPageIInv, ReleasePageIInv, ClearSlotIInv,
     PageClearedIInv DEF Work
<1>3. CASE WriteFails \/ StopWorker \/ JoinAndClose
  BY <1>3, WriteFailsIInv, StopWorkerIInv, JoinAndCloseIInv
<1>4. CASE UNCHANGED vars
  BY <1>4, StutterIInv
<1> QED
  BY <1>1, <1>2, <1>3, <1>4 DEF Next

\* The inductive invariant holds in every reachable state.
THEOREM Invariance == Spec => []IInv
BY InitIInv, NextIInv, PTL DEF Spec

\* Every variable keeps its type: in particular the ring indexes stay in the ring
\* (buffer.c wraps them by hand) and slots handed out lie inside the page.
THEOREM TypeCorrect == Spec => []TypeOK
<1>1. IInv => TypeOK
  BY DEF IInv
<1> QED
  BY Invariance, <1>1, PTL

\* syan_buffer_acquire_event_slot never gives one slot to two threads, however
\* long a thread holds it and however often the worker recycles pages.
THEOREM SlotsExclusive == Spec => []SlotExclusive
<1>1. IInv => SlotExclusive
  BY DEF IInv, SlotInv
<1> QED
  BY Invariance, <1>1, PTL

\* A signature in a slot that is held is a leftover the memset has yet to reach,
\* never one the busy wait of work() could take for the holder's.
THEOREM HeldUnsigned == Spec => []UnsignedWhileHeld
<1>1. IInv => UnsignedWhileHeld
  BY DEF IInv, SlotInv
<1> QED
  BY Invariance, <1>1, PTL

\* What the worker has looked at is signed, so nobody holds it.
LEMMA SignedWhenWritten ==
    ASSUME IInv
    PROVE  WriteOnlySigned
<1> USE DEF IInv
<1>1. wpc \in {"scan", "written"} =>
          \A s \in Slots : s < wnext => signed[wpage][s]
  BY DEF ScanInv
<1>2. ASSUME wpc = "written", wback = PageSize, NEW t \in Threads, Holds(t),
             page[t] = wpage
      PROVE  FALSE
  <2>1. slot[t] \in Slots /\ slot[t] < wnext /\ toClear = {}
    BY <1>2, PageSizeAssumption DEF ScanInv, TypeOK, ThreadTypeOK, Slots
  <2>2. signed[page[t]][slot[t]]
    BY <1>1, <1>2, <2>1
  <2> QED
    BY <1>2, <2>1, <2>2 DEF SlotInv, UnsignedWhileHeld
<1> QED
  BY <1>1, <1>2 DEF WriteOnlySigned

\* work() writes only signed slots and releases a page only when no thread has
\* a slot of it any more.
THEOREM WritesOnlySigned == Spec => []WriteOnlySigned
BY Invariance, SignedWhenWritten, PTL
=============================================================================
