---------------------------- MODULE EventLogProofs ----------------------------
(***************************************************************************)
(* Proofs that the queue's ring of pages is the log of EventLog, for any   *)
(* set of threads and any number and size of pages: the file has its       *)
(* records in their places, nothing finalized is lost unless the memset    *)
(* took it, and EventQueue implements EventLog.                            *)
(*                                                                         *)
(* The argument is a chain of invariants, each inductive relative to those *)
(* before it and to IInv of EventQueueProofs: RingInv gives every page its *)
(* number in the order of the file, ReserveInv relates slots to the places *)
(* of events, FileInv the file to the front page, StopInv the shutdown to  *)
(* the worker, WindowInv and TurnInv what holds while a hazard has not     *)
(* been met.                                                               *)
(***************************************************************************)
EXTENDS EventQueueProofs, SequenceTheorems

(* The order of the pages in the file.                                     *)

\* The number of a page in the order of the file, and its first place.
Gen(p) == laps[p] * NumPages + p
Base(p) == Gen(p) * PageSize

\* Pages before the front page in the ring have been released once more than
\* it, only the front page is partly written, and wpage is that page except
\* while its predecessor is being cleared.
RingInv ==
    /\ \A p \in Pages :
           laps[p] = laps[pagesFront] + (IF p < pagesFront THEN 1 ELSE 0)
    /\ \A p \in Pages : p # pagesFront => storageFront[p] = 0
    /\ wpc = "clear" => wpage # pagesFront
    /\ wpc \in {"scan", "written", "failed", "done"} => wpage = pagesFront
    /\ wpc \in {"scan", "written", "failed", "done"} =>
           storageFront[wpage] <= wback /\ wback <= storageBack[wpage]

LEMMA NatClosed ==
    /\ \A a, b \in Nat : a * b \in Nat
    /\ \A a, b \in Nat : a + b \in Nat
BY SMT

LEMMA Multiples ==
    ASSUME NEW g \in Nat, NEW h \in Nat, NEW n \in Nat, g < h
    PROVE  g * n + n <= h * n
<1>1. PICK d \in Nat : h = g + 1 + d
  BY SMT
<1>2. h * n = g * n + n + d * n
  BY <1>1, SMT
<1>3. g * n \in Nat /\ d * n \in Nat
  BY NatClosed
<1> QED
  BY <1>2, <1>3

LEMMA NextMultiple ==
    ASSUME NEW g \in Nat, NEW n \in Nat
    PROVE  (g + 1) * n = g * n + n
BY SMT

\* The pages of the ring have different numbers, from that of the front page on.
LEMMA GenOrder ==
    ASSUME TypeOK, RingInv
    PROVE  /\ \A p \in Pages : Gen(p) \in Nat
           /\ \A p \in Pages : p # pagesFront => Gen(pagesFront) < Gen(p)
           /\ \A p \in Pages : Gen(p) < Gen(pagesFront) + NumPages
           /\ \A p, q \in Pages : Gen(p) = Gen(q) => p = q
<1> DEFINE f == pagesFront
           k == laps[f] * NumPages
<1>1. f \in Pages /\ laps[f] \in Nat /\ NumPages \in Nat
  BY NumPagesAssumption DEF TypeOK, QueueTypeOK, HistoryTypeOK
<1>2. k \in Nat
  BY <1>1, NatClosed
<1>3. ASSUME NEW p \in Pages
      PROVE  Gen(p) = (IF p < f THEN k + NumPages ELSE k) + p
  <2>1. CASE p < f
    <3>1. laps[p] = laps[f] + 1
      BY <2>1 DEF RingInv
    <3>2. (laps[f] + 1) * NumPages = k + NumPages
      BY <1>1, NextMultiple
    <3> QED
      BY <2>1, <3>1, <3>2 DEF Gen
  <2>2. CASE ~(p < f)
    <3>1. laps[p] = laps[f]
      BY <1>1, <2>2 DEF RingInv
    <3> QED
      BY <2>2, <3>1 DEF Gen
  <2> QED
    BY <2>1, <2>2
<1> HIDE DEF k
<1>4. \A p \in Pages : p \in Nat /\ p < NumPages
  BY NumPagesAssumption DEF Pages
<1> QED
  BY <1>1, <1>2, <1>3, <1>4

\* Places are ordered by page number, then slot, and name one slot each.
LEMMA PlaceOrder ==
    ASSUME TypeOK, RingInv
    PROVE  /\ \A p \in Pages : Base(p) \in Nat
           /\ \A p \in Pages, s \in 0 .. PageSize : Place(p, s) = Base(p) + s
           /\ \A p, q \in Pages : Gen(p) < Gen(q) => Base(p) + PageSize <= Base(q)
           /\ \A p, q \in Pages : Gen(q) = Gen(p) + 1 => Base(q) = Base(p) + PageSize
           /\ \A p \in Pages : p # pagesFront => Base(pagesFront) + PageSize <= Base(p)
           /\ \A p, q \in Pages, s, r \in Slots :
                  Place(p, s) = Place(q, r) => p = q /\ s = r
<1>1. PageSize \in Nat /\ PageSize > 0
  BY PageSizeAssumption
<1>2. \A p \in Pages : Gen(p) \in Nat
  BY GenOrder
<1>3. \A p \in Pages : Base(p) \in Nat
  BY <1>1, <1>2, NatClosed DEF Base
<1>4. \A p \in Pages, s \in 0 .. PageSize : Place(p, s) = Base(p) + s
  BY DEF Place, Base, Gen
<1>5. ASSUME NEW p \in Pages, NEW q \in Pages, Gen(p) < Gen(q)
      PROVE  Base(p) + PageSize <= Base(q)
  BY <1>1, <1>2, <1>5, Multiples DEF Base
<1>6. ASSUME NEW p \in Pages, NEW q \in Pages, Gen(q) = Gen(p) + 1
      PROVE  Base(q) = Base(p) + PageSize
  BY <1>1, <1>2, <1>6, NextMultiple DEF Base
<1>7. pagesFront \in Pages
  BY DEF TypeOK, QueueTypeOK
<1>8. \A p \in Pages : p # pagesFront => Base(pagesFront) + PageSize <= Base(p)
  BY <1>5, <1>7, GenOrder
<1>9. ASSUME NEW p \in Pages, NEW q \in Pages, NEW s \in Slots, NEW r \in Slots,
             Place(p, s) = Place(q, r)
      PROVE  p = q /\ s = r
  <2>1. /\ s \in 0 .. PageSize /\ r \in 0 .. PageSize
        /\ s \in Nat /\ r \in Nat /\ s < PageSize /\ r < PageSize
    BY <1>1 DEF Slots
  <2>2. Base(p) + s = Base(q) + r /\ Base(p) \in Nat /\ Base(q) \in Nat
    BY <1>3, <1>4, <1>9, <2>1
  <2>3. ~(Base(p) + PageSize <= Base(q)) /\ ~(Base(q) + PageSize <= Base(p))
    BY <1>1, <2>1, <2>2
  <2>4. ~(Gen(p) < Gen(q)) /\ ~(Gen(q) < Gen(p))
    BY <1>5, <2>3
  <2>5. Gen(p) = Gen(q)
    BY <1>2, <2>4
  <2>6. p = q
    BY <2>5, GenOrder
  <2> QED
    BY <2>1, <2>2, <2>6
<1> QED
  BY <1>3, <1>4, <1>5, <1>6, <1>8, <1>9

LEMMA PlaceInjective ==
    ASSUME TypeOK, RingInv, NEW p \in Pages, NEW q \in Pages,
           NEW s \in Slots, NEW r \in Slots, Place(p, s) = Place(q, r)
    PROVE  p = q /\ s = r
BY PlaceOrder

-----------------------------------------------------------------------------
\* A capture step hands out slots at most.
LEMMA CaptureBack ==
    ASSUME TypeOK, NEW t \in Threads, LoadPagesBack(t) \/ Capture(t)
    PROVE  /\ \A p \in Pages : storageBack[p] <= storageBack'[p]
           /\ UNCHANGED <<pagesFront, storageFront, laps, workerVars, stopVars>>
<1>1. /\ page[t] \in Pages
      /\ storageBack \in [Pages -> 0 .. PageSize]
      /\ storageBack[page[t]] \in 0 .. PageSize
  BY DEF TypeOK, QueueTypeOK, ThreadTypeOK
<1>2. HandOut(storageBack[page[t]]) >= storageBack[page[t]]
  BY <1>1, HandOutType
<1>3. \/ storageBack' = storageBack
      \/ storageBack' = [storageBack EXCEPT ![page[t]] = HandOut(storageBack[page[t]])]
  BY DEF LoadPagesBack, Capture, AcquireSlot, PageFull, AdvancePage,
         InitializeEvent, FinalizeEvent, queueVars
<1>4. \A p \in Pages : storageBack[p] <= storageBack'[p]
  <2>1. \A p \in Pages : storageBack[p] \in Int
    BY <1>1, PageSizeAssumption
  <2>2. CASE storageBack' = storageBack
    BY <2>1, <2>2
  <2>3. CASE storageBack' = [storageBack EXCEPT ![page[t]] = HandOut(storageBack[page[t]])]
    <3>1. ASSUME NEW p \in Pages
          PROVE  storageBack[p] <= storageBack'[p]
      <4>1. CASE p = page[t]
        BY <1>1, <1>2, <2>1, <2>3, <4>1
      <4>2. CASE p # page[t]
        BY <1>1, <2>1, <2>3, <4>2
      <4> QED
        BY <4>1, <4>2
    <3> QED
      BY <3>1
  <2> QED
    BY <1>3, <2>2, <2>3
<1>5. UNCHANGED <<pagesFront, storageFront, laps, workerVars, stopVars>>
  BY DEF LoadPagesBack, Capture, AcquireSlot, PageFull, AdvancePage,
         InitializeEvent, FinalizeEvent, queueVars, history
<1> QED
  BY <1>4, <1>5

LEMMA RingFrame ==
    ASSUME TypeOK, TypeOK', RingInv, \A p \in Pages : storageBack[p] <= storageBack'[p],
           UNCHANGED <<pagesFront, storageFront, laps, wpc, wpage, wback>>
    PROVE  RingInv'
BY SMTT(30) DEF RingInv, TypeOK, QueueTypeOK, WorkerTypeOK

LEMMA InitRingInv == Init => RingInv
BY NumPagesAssumption, PageSizeAssumption DEF Init, RingInv, Pages

LEMMA ReleasePageRingInv ==
    ASSUME IInv, RingInv, ReleasePage
    PROVE  RingInv'
<1> USE NumPagesAssumption
<1>1. wpage = pagesFront /\ pagesFront \in Pages /\ \A p \in Pages : laps[p] \in Nat
  BY DEF IInv, TypeOK, QueueTypeOK, HistoryTypeOK, RingInv, ReleasePage
<1>2. /\ pagesFront' = NextPage(pagesFront)
      /\ storageFront' = [storageFront EXCEPT ![pagesFront] = 0]
      /\ laps' = [laps EXCEPT ![pagesFront] = laps[pagesFront] + 1]
      /\ wpage' = pagesFront
      /\ wpc' = "clear"
  BY <1>1 DEF ReleasePage
<1>3. NextPage(pagesFront) # pagesFront /\ NextPage(pagesFront) \in Pages
  BY <1>1, NextPageType
<1>4. ASSUME NEW p \in Pages
      PROVE  laps'[p] = laps'[pagesFront'] + (IF p < pagesFront' THEN 1 ELSE 0)
  <2> DEFINE f == pagesFront
             n == laps[f]
  <2>1. \A q \in Pages : laps'[q] = IF q <= f THEN n + 1 ELSE n
    <3> SUFFICES ASSUME NEW q \in Pages
                 PROVE  laps'[q] = IF q <= f THEN n + 1 ELSE n
      OBVIOUS
    <3>1. laps'[q] = IF q = f THEN n + 1 ELSE laps[q]
      BY <1>1, <1>2 DEF IInv, TypeOK, HistoryTypeOK
    <3>2. laps[q] = n + (IF q < f THEN 1 ELSE 0)
      BY DEF RingInv
    <3> QED
      BY <1>1, <3>1, <3>2 DEF Pages
  <2>2. CASE f + 1 = NumPages
    <3>1. pagesFront' = 0 /\ 0 \in Pages /\ 0 <= f /\ p <= f /\ ~(p < 0)
      BY <1>1, <1>2, <2>2 DEF NextPage, Pages
    <3> QED
      BY <1>1, <2>1, <3>1
  <2>3. CASE f + 1 # NumPages
    <3>1. pagesFront' = f + 1 /\ f + 1 \in Pages /\ ~(f + 1 <= f)
      BY <1>1, <1>2, <1>3, <2>3 DEF NextPage, Pages
    <3>2. p < f + 1 <=> p <= f
      BY <1>1 DEF Pages
    <3> QED
      BY <1>1, <2>1, <3>1, <3>2
  <2> QED
    BY <2>2, <2>3
<1>5. \A p \in Pages : p # pagesFront' => storageFront'[p] = 0
  BY <1>1, <1>2 DEF RingInv, IInv, TypeOK, QueueTypeOK
<1> QED
  BY <1>2, <1>3, <1>4, <1>5 DEF RingInv

LEMMA NextRingInv ==
    ASSUME IInv, IInv', RingInv, [Next]_vars
    PROVE  RingInv'
<1> USE DEF IInv
<1>a. \A p \in Pages : storageBack[p] <= storageBack[p] /\ storageFront[p] <= storageBack[p]
  BY DEF ScanInv, TypeOK, QueueTypeOK
<1>1. ASSUME NEW t \in Threads, LoadPagesBack(t) \/ Capture(t)
      PROVE  RingInv'
  BY <1>1, CaptureBack, RingFrame DEF workerVars
<1>2. CASE CheckStopToken \/ PageCleared
  BY <1>2 DEF CheckStopToken, PageCleared, EnterLoop, RingInv, queueVars, history
<1>3. CASE LoadFrontPage
  <2>1. pagesFront \in Pages
    BY DEF TypeOK, QueueTypeOK
  <2> QED
    BY <1>3, <1>a, <2>1 DEF LoadFrontPage, RingInv, queueVars, history
<1>4. CASE SeeSignature \/ ClearSlot
  <2>1. UNCHANGED <<pagesFront, storageFront, storageBack, laps, wpc, wpage, wback>>
    BY <1>4 DEF SeeSignature, ClearSlot, queueVars, history
  <2> QED
    BY <1>a, <2>1, RingFrame
<1>5. CASE WriteBatch
  BY <1>5 DEF WriteBatch, RingInv, queueVars, history
<1>6. CASE WriteFails
  BY <1>6 DEF WriteFails, RingInv, queueVars, history
<1>7. CASE KeepPage
  <2>1. wpage = pagesFront /\ wpage \in Pages /\ wback \in Int /\ wback <= storageBack[wpage]
    BY <1>7, PageSizeAssumption DEF KeepPage, RingInv, TypeOK, WorkerTypeOK
  <2>2. /\ storageFront' = [storageFront EXCEPT ![wpage] = wback]
        /\ wpc' \in {"load", "done", "check"}
        /\ UNCHANGED <<pagesFront, storageBack, laps, wpage, wback>>
    BY <1>7 DEF KeepPage, AfterWork, history
  <2>3. \A p \in Pages : storageFront'[p] = IF p = wpage THEN wback ELSE storageFront[p]
    BY <2>2 DEF TypeOK, QueueTypeOK
  <2> QED
    BY <2>1, <2>2, <2>3 DEF RingInv
<1>8. CASE ReleasePage
  BY <1>8, ReleasePageRingInv
<1>9. CASE StopWorker \/ JoinAndClose \/ UNCHANGED vars
  <2>1. UNCHANGED <<pagesFront, storageFront, storageBack, laps, wpc, wpage, wback>>
    BY <1>9 DEF StopWorker, JoinAndClose, vars, queueVars, workerVars, history
  <2> QED
    BY <1>a, <2>1, RingFrame
<1> QED
  BY <1>1, <1>2, <1>3, <1>4, <1>5, <1>6, <1>7, <1>8, <1>9 DEF Next, Work

\* pages_front goes round the ring and every page is released in its turn.
THEOREM RingInOrder == Spec => []RingInv
BY InitRingInv, NextRingInv, Invariance, PTL DEF Spec

-----------------------------------------------------------------------------
(* Slots, events and places.                                               *)

\* The memset that clears the page has not reached the slot.
Pending(p, s) == p = wpage /\ s \in toClear

\* A place that has been given lies in a page already released, or belongs to
\* a slot that has been handed out; no two events have the same one.
PlacedInv ==
    /\ finalized \subseteq DOMAIN placed
    /\ \A e \in DOMAIN placed :
           \/ placed[e] < Base(pagesFront)
           \/ \E p \in Pages, s \in Slots :
                  s < storageBack[p] /\ placed[e] = Place(p, s)
    /\ \A e, f \in DOMAIN placed : placed[e] = placed[f] => e = f

\* A thread in a slot captures the event that reserved the slot's place, and
\* has stored it there unless the memset took it away.
HolderInv ==
    \A t \in Threads : Holds(t) =>
        /\ event[t] \in DOMAIN placed \ finalized
        /\ placed[event[t]] = Place(page[t], slot[t])
        /\ pc[t] = "initialized" =>
               record[page[t]][slot[t]] \in {event[t], NoEvent}

\* A signature is that of the event that reserved the place.
SignedInv ==
    \A p \in Pages, s \in Slots :
        signed[p][s] /\ ~Pending(p, s) =>
            \E e \in finalized :
                placed[e] = Place(p, s) /\ record[p][s] \in {e, NoEvent}

ReserveInv == PlacedInv /\ HolderInv /\ SignedInv

\* As long as no page is released, a slot keeps its place.
LEMMA PlaceFrame ==
    ASSUME laps' = laps
    PROVE  /\ \A p, s : Place(p, s)' = Place(p, s)
           /\ \A p : Base(p)' = Base(p)
           /\ \A p : Gen(p)' = Gen(p)
BY DEF Place, Base, Gen

\* The place of a slot that is not handed out is nobody's.
LEMMA FreshPlace ==
    ASSUME TypeOK, RingInv, PlacedInv, NEW p \in Pages, NEW s \in Slots,
           s >= storageBack[p]
    PROVE  /\ \A e \in DOMAIN placed : placed[e] # Place(p, s)
           /\ Place(p, s) >= Base(pagesFront)
<1>1. s \in 0 .. PageSize /\ s \in Nat
  BY PageSizeAssumption DEF Slots
<1>2. Place(p, s) = Base(p) + s /\ Base(p) \in Nat
  BY <1>1, PlaceOrder
<1>3. pagesFront \in Pages /\ storageBack[p] \in Int
  BY PageSizeAssumption DEF TypeOK, QueueTypeOK
<1>4. Base(pagesFront) \in Nat /\ Base(pagesFront) <= Base(p)
  <2>1. CASE p = pagesFront
    BY <1>2, <2>1
  <2>2. CASE p # pagesFront
    <3>1. Base(pagesFront) + PageSize <= Base(p) /\ Base(pagesFront) \in Nat
      BY <1>3, <2>2, PlaceOrder
    <3> QED
      BY <1>2, <3>1, PageSizeAssumption
  <2> QED
    BY <2>1, <2>2
<1>5. Place(p, s) >= Base(pagesFront)
  BY <1>1, <1>2, <1>4
<1>6. ASSUME NEW e \in DOMAIN placed, placed[e] = Place(p, s)
      PROVE  FALSE
  <2>1. ~(placed[e] < Base(pagesFront))
    BY <1>1, <1>2, <1>4, <1>6
  <2>2. PICK q \in Pages, r \in Slots : r < storageBack[q] /\ placed[e] = Place(q, r)
    BY <2>1 DEF PlacedInv
  <2>3. Place(q, r) = Place(p, s)
    BY <1>6, <2>2
  <2>4. q = p /\ r = s
    BY <2>3, PlaceInjective
  <2> QED
    BY <1>1, <1>3, <2>2, <2>4
<1> QED
  BY <1>5, <1>6

LEMMA InitReserveInv == Init => ReserveInv
BY DEF Init, ReserveInv, PlacedInv, HolderInv, SignedInv, Holds, Slots, Pages

\* What a step has to leave alone to preserve ReserveInv.
LEMMA ReserveFrame ==
    ASSUME ReserveInv,
           UNCHANGED <<placed, finalized, laps, pagesFront, record, signed, storageBack>>,
           \A u \in Threads :
               Holds(u)' => /\ Holds(u)
                            /\ pc'[u] = pc[u]
                            /\ event'[u] = event[u]
                            /\ page'[u] = page[u]
                            /\ slot'[u] = slot[u],
           toClear' = toClear /\ (wpage' = wpage \/ toClear = {})
    PROVE  ReserveInv'
<1>1. PlacedInv'
  BY PlaceFrame DEF ReserveInv, PlacedInv
<1>2. HolderInv'
  BY PlaceFrame DEF ReserveInv, HolderInv
<1>3. SignedInv'
  BY PlaceFrame DEF ReserveInv, SignedInv, Pending
<1> QED
  BY <1>1, <1>2, <1>3 DEF ReserveInv

LEMMA AcquireSlotReserveInv ==
    ASSUME IInv, RingInv, ReserveInv, NEW t \in Threads, AcquireSlot(t)
    PROVE  ReserveInv'
<1> USE DEF IInv
<1>a. PICK p \in Pages, s \in 0 .. PageSize :
          p = page[t] /\ s = storageBack[p] /\ s < PageSize
  BY DEF TypeOK, QueueTypeOK, ThreadTypeOK, AcquireSlot
<1>1. p \in Pages /\ s \in Slots /\ s \in 0 .. PageSize /\ s = storageBack[p]
  BY <1>a, PageSizeAssumption DEF Slots
<1>b. PICK n \in Nat : n = Len(placed) + 1
  BY LenProperties DEF TypeOK, HistoryTypeOK
<1>2. HandOut(s) = s + 1
  BY <1>1, HandOutType, PageSizeAssumption DEF Slots
<1>3. /\ storageBack' = [storageBack EXCEPT ![p] = s + 1]
      /\ slot' = [slot EXCEPT ![t] = s]
      /\ pc' = [pc EXCEPT ![t] = "acquired"]
      /\ event' = [event EXCEPT ![t] = n]
      /\ placed' = Append(placed, Place(p, s))
      /\ UNCHANGED <<pagesFront, record, signed, page, wpage, toClear, laps, finalized>>
  BY <1>a, <1>b, <1>2 DEF AcquireSlot, workerVars
<1>4. /\ Len(placed) \in Nat
      /\ DOMAIN placed = 1 .. Len(placed)
      /\ Place(p, s) \in Nat
      /\ placed \in Seq(Nat)
  BY <1>1, PlaceType, LenProperties DEF TypeOK, HistoryTypeOK
<1>5. /\ DOMAIN placed' = 1 .. n
      /\ \A e \in DOMAIN placed : placed'[e] = placed[e]
      /\ placed'[n] = Place(p, s)
  BY <1>b, <1>3, <1>4
<1>6. DOMAIN placed' = DOMAIN placed \cup {n} /\ n \notin DOMAIN placed
  BY <1>b, <1>4, <1>5
<1>7. \A e \in DOMAIN placed : placed[e] # Place(p, s)
  <2>1. s >= storageBack[p]
    BY <1>1 DEF Slots
  <2> QED
    BY <1>1, <2>1, FreshPlace DEF ReserveInv
<1>8. ASSUME NEW q \in Pages
      PROVE  storageBack'[q] = IF q = p THEN s + 1 ELSE storageBack[q]
  BY <1>1, <1>3 DEF TypeOK, QueueTypeOK
<1>9. PlacedInv'
  <2>1. finalized' \subseteq DOMAIN placed'
    BY <1>3, <1>6 DEF ReserveInv, PlacedInv
  <2>2. ASSUME NEW e \in DOMAIN placed'
        PROVE  \/ placed'[e] < Base(pagesFront)'
               \/ \E q \in Pages, r \in Slots :
                      r < storageBack'[q] /\ placed'[e] = Place(q, r)'
    <3>1. CASE e = n
      <4>1. placed'[e] = Place(p, s)' /\ s < storageBack'[p]
        BY <1>1, <1>3, <1>5, <1>8, <3>1, PlaceFrame DEF Slots
      <4> QED
        BY <1>1, <4>1
    <3>2. CASE e \in DOMAIN placed /\ placed[e] < Base(pagesFront)
      BY <1>3, <1>5, <3>2, PlaceFrame
    <3>3. CASE e \in DOMAIN placed /\ ~(placed[e] < Base(pagesFront))
      <4>1. PICK q \in Pages, r \in Slots : r < storageBack[q] /\ placed[e] = Place(q, r)
        BY <3>3 DEF ReserveInv, PlacedInv
      <4>2. r < storageBack'[q]
        BY <1>1, <1>8, <4>1 DEF Slots
      <4>3. placed'[e] = Place(q, r)'
        BY <1>3, <1>5, <3>3, <4>1, PlaceFrame
      <4> QED
        BY <4>2, <4>3
    <3> QED
      BY <1>6, <3>1, <3>2, <3>3
  <2>3. ASSUME NEW e \in DOMAIN placed', NEW f \in DOMAIN placed',
               placed'[e] = placed'[f]
        PROVE  e = f
    <3>1. CASE e = n /\ f = n
      BY <3>1
    <3>2. CASE e = n /\ f # n
      BY <1>5, <1>6, <1>7, <2>3, <3>2
    <3>3. CASE e # n /\ f = n
      BY <1>5, <1>6, <1>7, <2>3, <3>3
    <3>4. CASE e # n /\ f # n
      BY <1>5, <1>6, <2>3, <3>4 DEF ReserveInv, PlacedInv
    <3> QED
      BY <3>1, <3>2, <3>3, <3>4
  <2> QED
    BY <2>1, <2>2, <2>3 DEF PlacedInv
<1>10. HolderInv'
  <2> SUFFICES ASSUME NEW u \in Threads, Holds(u)'
               PROVE  /\ event'[u] \in DOMAIN placed' \ finalized'
                      /\ placed'[event'[u]] = Place(page[u], slot'[u])
                      /\ pc'[u] = "initialized" =>
                             record[page[u]][slot'[u]] \in {event'[u], NoEvent}
    BY <1>3, PlaceFrame DEF HolderInv, Place
  <2>1. CASE u = t
    <3>1. event'[u] = n /\ slot'[u] = s /\ pc'[u] = "acquired"
      BY <1>3, <2>1 DEF TypeOK, ThreadTypeOK
    <3> QED
      BY <1>a, <1>3, <1>5, <1>6, <2>1, <3>1 DEF ReserveInv, PlacedInv
  <2>2. CASE u # t
    <3>1. Holds(u) /\ pc'[u] = pc[u] /\ event'[u] = event[u] /\ slot'[u] = slot[u]
      BY <1>3, <2>2 DEF Holds, TypeOK, ThreadTypeOK
    <3>2. event[u] \in DOMAIN placed \ finalized
      BY <3>1 DEF ReserveInv, HolderInv
    <3> QED
      BY <1>3, <1>5, <1>6, <3>1, <3>2 DEF ReserveInv, HolderInv
  <2> QED
    BY <2>1, <2>2
<1>11. SignedInv'
  <2> SUFFICES ASSUME NEW q \in Pages, NEW r \in Slots,
                      signed'[q][r], ~Pending(q, r)'
               PROVE  \E e \in finalized' :
                          placed'[e] = Place(q, r)' /\ record'[q][r] \in {e, NoEvent}
    BY DEF SignedInv
  <2>1. signed[q][r] /\ ~Pending(q, r) /\ Place(q, r)' = Place(q, r)
    BY <1>3, PlaceFrame DEF Pending
  <2>2. PICK e \in finalized : placed[e] = Place(q, r) /\ record[q][r] \in {e, NoEvent}
    BY <2>1 DEF ReserveInv, SignedInv
  <2>3. e \in finalized' /\ placed'[e] = placed[e] /\ record'[q][r] \in {e, NoEvent}
    BY <1>3, <1>5, <2>2 DEF ReserveInv, PlacedInv
  <2> QED
    BY <2>1, <2>2, <2>3
<1> QED
  BY <1>9, <1>10, <1>11 DEF ReserveInv

LEMMA InitializeEventReserveInv ==
    ASSUME IInv, RingInv, ReserveInv, NEW t \in Threads, InitializeEvent(t)
    PROVE  ReserveInv'
<1> USE DEF IInv
<1>1. /\ record' = [record EXCEPT ![page[t]][slot[t]] = event[t]]
      /\ pc' = [pc EXCEPT ![t] = "initialized"]
      /\ UNCHANGED <<placed, finalized, laps, pagesFront, signed, storageBack>>
      /\ UNCHANGED <<event, page, slot, wpage, toClear>>
  BY DEF InitializeEvent, workerVars, history
<1>2. Holds(t) /\ page[t] \in Pages /\ slot[t] \in Slots
  BY DEF InitializeEvent, Holds, TypeOK, ThreadTypeOK
<1>3. ASSUME NEW q \in Pages, NEW r \in Slots
      PROVE  record'[q][r] = IF q = page[t] /\ r = slot[t] THEN event[t]
                             ELSE record[q][r]
  BY <1>1, <1>2 DEF TypeOK, QueueTypeOK
<1>4. PlacedInv'
  BY <1>1, PlaceFrame DEF ReserveInv, PlacedInv
<1>5. HolderInv'
  <2> SUFFICES ASSUME NEW u \in Threads, Holds(u)'
               PROVE  /\ event'[u] \in DOMAIN placed' \ finalized'
                      /\ placed'[event'[u]] = Place(page[u], slot[u])
                      /\ pc'[u] = "initialized" =>
                             record'[page[u]][slot[u]] \in {event[u], NoEvent}
    BY <1>1, PlaceFrame DEF HolderInv, Place
  <2>1. Holds(u) /\ page[u] \in Pages /\ slot[u] \in Slots
    BY <1>1, <1>2 DEF Holds, TypeOK, ThreadTypeOK
  <2>2. event'[u] \in DOMAIN placed' \ finalized' /\ placed'[event'[u]] = Place(page[u], slot[u])
    BY <1>1, <2>1 DEF ReserveInv, HolderInv
  <2>3. CASE u = t
    BY <1>3, <2>1, <2>2, <2>3
  <2>4. CASE u # t
    <3>1. <<page[u], slot[u]>> # <<page[t], slot[t]>> /\ pc'[u] = pc[u]
      BY <1>1, <1>2, <2>1, <2>4 DEF SlotInv, SlotExclusive, TypeOK, ThreadTypeOK
    <3>2. record'[page[u]][slot[u]] = record[page[u]][slot[u]]
      BY <1>3, <2>1, <3>1
    <3> QED
      BY <2>1, <2>2, <3>1, <3>2 DEF ReserveInv, HolderInv
  <2> QED
    BY <2>3, <2>4
<1>6. SignedInv'
  <2> SUFFICES ASSUME NEW q \in Pages, NEW r \in Slots,
                      signed'[q][r], ~Pending(q, r)'
               PROVE  \E e \in finalized' :
                          placed'[e] = Place(q, r)' /\ record'[q][r] \in {e, NoEvent}
    BY DEF SignedInv
  <2>1. signed[q][r] /\ ~Pending(q, r) /\ Place(q, r)' = Place(q, r)
    BY <1>1, PlaceFrame DEF Pending
  <2>2. ~(q = page[t] /\ r = slot[t])
    BY <1>2, <2>1 DEF SlotInv, UnsignedWhileHeld, Pending
  <2>3. record'[q][r] = record[q][r]
    BY <1>3, <2>2
  <2>4. PICK e \in finalized : placed[e] = Place(q, r) /\ record[q][r] \in {e, NoEvent}
    BY <2>1 DEF ReserveInv, SignedInv
  <2> QED
    BY <1>1, <2>1, <2>3, <2>4
<1> QED
  BY <1>4, <1>5, <1>6 DEF ReserveInv

LEMMA FinalizeEventReserveInv ==
    ASSUME IInv, RingInv, ReserveInv, NEW t \in Threads, FinalizeEvent(t)
    PROVE  ReserveInv'
<1> USE DEF IInv
<1>1. /\ signed' = [signed EXCEPT ![page[t]][slot[t]] = TRUE]
      /\ finalized' = finalized \cup {event[t]}
      /\ pc' = [pc EXCEPT ![t] = "idle"]
      /\ UNCHANGED <<placed, laps, pagesFront, record, storageBack>>
      /\ UNCHANGED <<event, page, slot, wpage, toClear>>
  BY DEF FinalizeEvent, workerVars
<1>2. /\ Holds(t) /\ pc[t] = "initialized"
      /\ page[t] \in Pages /\ slot[t] \in Slots
  BY DEF FinalizeEvent, Holds, TypeOK, ThreadTypeOK
<1>3. ASSUME NEW q \in Pages, NEW r \in Slots
      PROVE  signed'[q][r] = IF q = page[t] /\ r = slot[t] THEN TRUE
                             ELSE signed[q][r]
  BY <1>1, <1>2 DEF TypeOK, QueueTypeOK
<1>4. /\ event[t] \in DOMAIN placed \ finalized
      /\ placed[event[t]] = Place(page[t], slot[t])
      /\ record[page[t]][slot[t]] \in {event[t], NoEvent}
  BY <1>2 DEF ReserveInv, HolderInv
<1>5. PlacedInv'
  <2>1. finalized' \subseteq DOMAIN placed'
    BY <1>1, <1>4 DEF ReserveInv, PlacedInv
  <2> QED
    BY <1>1, <2>1, PlaceFrame DEF ReserveInv, PlacedInv
<1>6. HolderInv'
  <2> SUFFICES ASSUME NEW u \in Threads, Holds(u)'
               PROVE  /\ event'[u] \in DOMAIN placed' \ finalized'
                      /\ placed'[event'[u]] = Place(page[u], slot[u])
                      /\ pc'[u] = "initialized" =>
                             record'[page[u]][slot[u]] \in {event[u], NoEvent}
    BY <1>1, PlaceFrame DEF HolderInv, Place
  <2>1. /\ u # t /\ Holds(u) /\ pc'[u] = pc[u]
        /\ page[u] \in Pages /\ slot[u] \in Slots
    BY <1>1, <1>2 DEF Holds, TypeOK, ThreadTypeOK
  <2>2. /\ event[u] \in DOMAIN placed \ finalized
        /\ placed[event[u]] = Place(page[u], slot[u])
    BY <2>1 DEF ReserveInv, HolderInv
  <2>3. event[u] # event[t]
    <3>1. <<page[u], slot[u]>> # <<page[t], slot[t]>>
      BY <1>2, <2>1 DEF SlotInv, SlotExclusive
    <3>2. Place(page[u], slot[u]) # Place(page[t], slot[t])
      BY <1>2, <2>1, <3>1, PlaceInjective
    <3> QED
      BY <1>4, <2>2, <3>2
  <2> QED
    BY <1>1, <2>1, <2>2, <2>3 DEF ReserveInv, HolderInv
<1>7. SignedInv'
  <2> SUFFICES ASSUME NEW q \in Pages, NEW r \in Slots,
                      signed'[q][r], ~Pending(q, r)'
               PROVE  \E e \in finalized' :
                          placed'[e] = Place(q, r)' /\ record'[q][r] \in {e, NoEvent}
    BY DEF SignedInv
  <2>1. ~Pending(q, r) /\ Place(q, r)' = Place(q, r)
    BY <1>1, PlaceFrame DEF Pending
  <2>2. CASE q = page[t] /\ r = slot[t]
    BY <1>1, <1>4, <2>1, <2>2
  <2>3. CASE ~(q = page[t] /\ r = slot[t])
    <3>1. PICK e \in finalized : placed[e] = Place(q, r) /\ record[q][r] \in {e, NoEvent}
      BY <1>3, <2>1, <2>3 DEF ReserveInv, SignedInv
    <3> QED
      BY <1>1, <2>1, <3>1
  <2> QED
    BY <2>2, <2>3
<1> QED
  BY <1>5, <1>6, <1>7 DEF ReserveInv

\* No thread is in the page that is released, and none of its places is left
\* to be given: they all lie before the new front page.
LEMMA ReleasePageFacts ==
    ASSUME IInv, RingInv, RingInv', ReleasePage
    PROVE  /\ wpage = pagesFront /\ pagesFront \in Pages
           /\ wpage' = wpage /\ wback = PageSize
           /\ pagesFront' \in Pages
           /\ toClear = {} /\ toClear' = Slots
           /\ storageBack' = [storageBack EXCEPT ![wpage] = 0]
           /\ laps' = [laps EXCEPT ![wpage] = laps[wpage] + 1]
           /\ UNCHANGED <<placed, finalized, record, signed, threadVars, dump, pagesBack>>
           /\ \A t \in Threads : Holds(t) => page[t] # wpage
           /\ \A q \in Pages : q # wpage =>
                  /\ Gen(q)' = Gen(q)
                  /\ Base(q)' = Base(q)
                  /\ \A s : Place(q, s)' = Place(q, s)
           /\ Gen(wpage)' = Gen(wpage) + NumPages
           /\ Gen(pagesFront') = Gen(wpage) + 1
           /\ Base(pagesFront)' = Base(wpage) + PageSize
<1> USE DEF IInv
<1>1. /\ wpage = pagesFront /\ pagesFront \in Pages
      /\ wpage' = wpage /\ wback = PageSize
      /\ toClear = {} /\ toClear' = Slots
      /\ storageBack' = [storageBack EXCEPT ![wpage] = 0]
      /\ laps' = [laps EXCEPT ![wpage] = laps[wpage] + 1]
      /\ pagesFront' = NextPage(pagesFront)
      /\ UNCHANGED <<placed, finalized, record, signed, threadVars, dump, pagesBack>>
  BY DEF ReleasePage, RingInv, ScanInv, ResetRange, TypeOK, QueueTypeOK
<1>2. pagesFront' \in Pages /\ pagesFront' # wpage
  BY <1>1, NextPageType
<1>3. \A t \in Threads : Holds(t) => page[t] # wpage
  BY <1>1, SignedWhenWritten DEF WriteOnlySigned, ReleasePage
<1>4. ASSUME NEW q \in Pages, q # wpage
      PROVE  /\ Gen(q)' = Gen(q)
             /\ Base(q)' = Base(q)
             /\ \A s : Place(q, s)' = Place(q, s)
  <2>1. laps'[q] = laps[q]
    BY <1>1, <1>4 DEF TypeOK, HistoryTypeOK
  <2> QED
    BY <2>1 DEF Gen, Base, Place
<1>5. laps[wpage] \in Nat /\ laps'[wpage] = laps[wpage] + 1
  BY <1>1 DEF TypeOK, HistoryTypeOK
<1>6. laps'[wpage] * NumPages = laps[wpage] * NumPages + NumPages
      /\ laps[wpage] * NumPages \in Nat
  BY <1>5, NumPagesAssumption, NextMultiple, NatClosed
<1>7. Gen(wpage)' = Gen(wpage) + NumPages
  <2>1. wpage \in Nat /\ NumPages \in Nat
    BY <1>1, NumPagesAssumption DEF Pages
  <2> QED
    BY <1>1, <1>6, <2>1 DEF Gen
<1>8. Gen(pagesFront') = Gen(wpage) + 1
  <2>1. laps[pagesFront'] = laps[wpage] + (IF pagesFront' < wpage THEN 1 ELSE 0)
    BY <1>1, <1>2 DEF RingInv
  <2>2. CASE wpage + 1 = NumPages
    <3>1. pagesFront' = 0 /\ 0 < wpage
      <4>1. wpage \in Nat /\ pagesFront' = NextPage(wpage)
        BY <1>1 DEF Pages
      <4> QED
        BY <2>2, <4>1, NumPagesAssumption DEF NextPage
    <3>2. laps[pagesFront'] = laps[wpage] + 1
      BY <2>1, <3>1
    <3>3. (laps[wpage] + 1) * NumPages = laps[wpage] * NumPages + NumPages
      BY <1>5, NumPagesAssumption, NextMultiple
    <3>4. Gen(pagesFront') = (laps[wpage] + 1) * NumPages + 0
      BY <3>1, <3>2, Zenon DEF Gen
    <3>5. Gen(wpage) = laps[wpage] * NumPages + wpage
      BY DEF Gen
    <3>6. wpage \in Nat /\ NumPages \in Nat
      BY <1>1, NumPagesAssumption DEF Pages
    <3> QED
      BY <1>6, <2>2, <3>3, <3>4, <3>5, <3>6
  <2>3. CASE wpage + 1 # NumPages
    <3>0. wpage \in Nat
      BY <1>1 DEF Pages
    <3>1. pagesFront' = wpage + 1 /\ ~(wpage + 1 < wpage)
      BY <1>1, <2>3, <3>0 DEF NextPage
    <3>2. laps[pagesFront'] = laps[wpage]
      BY <1>5, <2>1, <3>1
    <3>3. wpage \in Nat
      BY <1>1 DEF Pages
    <3> QED
      BY <1>6, <3>1, <3>2, <3>3 DEF Gen
  <2> QED
    BY <2>2, <2>3
<1>9. Base(pagesFront)' = Base(wpage) + PageSize
  <2>1. laps'[pagesFront'] = laps[pagesFront']
    BY <1>1, <1>2 DEF TypeOK, HistoryTypeOK
  <2>2. Base(pagesFront)' = Base(pagesFront')
    BY <2>1 DEF Gen, Base
  <2>3. Base(pagesFront') = Base(wpage) + PageSize
    BY <1>1, <1>2, <1>8, PlaceOrder
  <2> QED
    BY <2>2, <2>3
<1> QED
  BY <1>1, <1>2, <1>3, <1>4, <1>7, <1>8, <1>9

LEMMA ReleasePageReserveInv ==
    ASSUME IInv, RingInv, RingInv', ReserveInv, ReleasePage
    PROVE  ReserveInv'
<1> USE DEF IInv
<1>1. /\ wpage = pagesFront /\ pagesFront \in Pages /\ wpage' = wpage
      /\ toClear' = Slots
      /\ storageBack' = [storageBack EXCEPT ![wpage] = 0]
      /\ UNCHANGED <<placed, finalized, record, signed, pc, page, slot, event>>
      /\ \A t \in Threads : Holds(t) => page[t] # wpage
      /\ \A q \in Pages : q # wpage => \A s : Place(q, s)' = Place(q, s)
      /\ Base(pagesFront)' = Base(wpage) + PageSize
  BY ReleasePageFacts DEF threadVars
<1>2. \A q \in Pages : q # wpage => storageBack'[q] = storageBack[q]
  BY <1>1 DEF TypeOK, QueueTypeOK
<1>3. PlacedInv'
  <2>1. ASSUME NEW e \in DOMAIN placed
        PROVE  \/ placed[e] < Base(pagesFront)'
               \/ \E q \in Pages, r \in Slots :
                      r < storageBack'[q] /\ placed[e] = Place(q, r)'
    <3>1. /\ placed[e] \in Nat /\ Base(wpage) \in Nat
          /\ PageSize \in Nat /\ PageSize > 0
      BY <1>1, PlaceOrder, PageSizeAssumption, ElementOfSeq DEF TypeOK, HistoryTypeOK
    <3>2. CASE placed[e] < Base(pagesFront)
      BY <1>1, <3>1, <3>2
    <3>3. CASE ~(placed[e] < Base(pagesFront))
      <4>1. PICK q \in Pages, r \in Slots : r < storageBack[q] /\ placed[e] = Place(q, r)
        BY <3>3 DEF ReserveInv, PlacedInv
      <4>2. CASE q = wpage
        <5>1. r \in 0 .. PageSize /\ r < PageSize /\ r \in Nat
          BY PageSizeAssumption DEF Slots
        <5>2. placed[e] = Base(wpage) + r
          BY <4>1, <4>2, <5>1, PlaceOrder
        <5> QED
          BY <1>1, <3>1, <5>1, <5>2
      <4>3. CASE q # wpage
        BY <1>1, <1>2, <4>1, <4>3
      <4> QED
        BY <4>2, <4>3
    <3> QED
      BY <3>2, <3>3
  <2> QED
    BY <1>1, <2>1 DEF ReserveInv, PlacedInv
<1>4. HolderInv'
  <2> SUFFICES ASSUME NEW u \in Threads, Holds(u)'
               PROVE  /\ event'[u] \in DOMAIN placed' \ finalized'
                      /\ placed'[event'[u]] = Place(page[u], slot[u])
                      /\ pc'[u] = "initialized" =>
                             record'[page'[u]][slot'[u]] \in {event'[u], NoEvent}
    <3>1. \A u \in Threads : Holds(u)' => page[u] # wpage /\ page[u] \in Pages
      BY <1>1 DEF Holds, TypeOK, ThreadTypeOK
    <3>2. \A u \in Threads : Holds(u)' => laps'[page[u]] = laps[page[u]]
      BY <3>1, ReleasePageFacts DEF TypeOK, HistoryTypeOK
    <3> QED
      BY <1>1, <3>2 DEF HolderInv, Place
  <2>1. Holds(u) /\ page[u] \in Pages /\ page[u] # wpage
    BY <1>1 DEF Holds, TypeOK, ThreadTypeOK
  <2> QED
    BY <1>1, <2>1 DEF ReserveInv, HolderInv
<1>5. SignedInv'
  <2> SUFFICES ASSUME NEW q \in Pages, NEW r \in Slots,
                      signed'[q][r], ~Pending(q, r)'
               PROVE  \E e \in finalized' :
                          placed'[e] = Place(q, r)' /\ record'[q][r] \in {e, NoEvent}
    BY DEF SignedInv
  <2>1. q # wpage /\ signed[q][r]
    BY <1>1 DEF Pending
  <2>2. PICK e \in finalized : placed[e] = Place(q, r) /\ record[q][r] \in {e, NoEvent}
    BY <2>1 DEF ReserveInv, SignedInv, Pending
  <2> QED
    BY <1>1, <2>1, <2>2
<1> QED
  BY <1>3, <1>4, <1>5 DEF ReserveInv

LEMMA ClearSlotReserveInv ==
    ASSUME IInv, RingInv, ReserveInv, ClearSlot
    PROVE  ReserveInv'
<1> USE DEF IInv
<1>1. PICK s \in toClear :
          /\ record' = [record EXCEPT ![wpage][s] = NoEvent]
          /\ signed' = [signed EXCEPT ![wpage][s] = FALSE]
          /\ toClear' = toClear \ {s}
  BY DEF ClearSlot
<1>2. /\ UNCHANGED <<placed, finalized, laps, pagesFront, storageBack>>
      /\ UNCHANGED <<pc, event, page, slot, wpage>>
  BY DEF ClearSlot, threadVars, history
<1>3. wpage \in Pages /\ s \in Slots
  BY <1>1 DEF TypeOK, WorkerTypeOK
<1>4. ASSUME NEW q \in Pages, NEW r \in Slots
      PROVE  /\ record'[q][r] = IF q = wpage /\ r = s THEN NoEvent ELSE record[q][r]
             /\ signed'[q][r] = IF q = wpage /\ r = s THEN FALSE ELSE signed[q][r]
  BY <1>1, <1>3 DEF TypeOK, QueueTypeOK
<1>5. PlacedInv'
  BY <1>2, PlaceFrame DEF ReserveInv, PlacedInv
<1>6. HolderInv'
  <2> SUFFICES ASSUME NEW u \in Threads, Holds(u)'
               PROVE  /\ event'[u] \in DOMAIN placed' \ finalized'
                      /\ placed'[event'[u]] = Place(page[u], slot[u])
                      /\ pc'[u] = "initialized" =>
                             record'[page[u]][slot[u]] \in {event[u], NoEvent}
    BY <1>2, PlaceFrame DEF HolderInv, Place
  <2>1. Holds(u) /\ page[u] \in Pages /\ slot[u] \in Slots
    BY <1>2 DEF Holds, TypeOK, ThreadTypeOK
  <2>2. record'[page[u]][slot[u]] \in {record[page[u]][slot[u]], NoEvent}
    BY <1>4, <2>1
  <2> QED
    BY <1>2, <2>1, <2>2 DEF ReserveInv, HolderInv
<1>7. SignedInv'
  <2> SUFFICES ASSUME NEW q \in Pages, NEW r \in Slots,
                      signed'[q][r], ~Pending(q, r)'
               PROVE  \E e \in finalized' :
                          placed'[e] = Place(q, r)' /\ record'[q][r] \in {e, NoEvent}
    BY DEF SignedInv
  <2>1. /\ ~(q = wpage /\ r = s) /\ signed[q][r]
        /\ record'[q][r] = record[q][r]
        /\ Place(q, r)' = Place(q, r)
    BY <1>2, <1>4, PlaceFrame
  <2>2. ~Pending(q, r)
    BY <1>1, <1>2, <2>1 DEF Pending
  <2>3. PICK e \in finalized : placed[e] = Place(q, r) /\ record[q][r] \in {e, NoEvent}
    BY <2>1, <2>2 DEF ReserveInv, SignedInv
  <2> QED
    BY <1>2, <2>1, <2>3
<1> QED
  BY <1>5, <1>6, <1>7 DEF ReserveInv

\* The steps that do nothing to a slot or to the thread in it.
QuietStep ==
    \/ \E t \in Threads : LoadPagesBack(t) \/ PageFull(t) \/ AdvancePage(t)
    \/ CheckStopToken \/ LoadFrontPage \/ SeeSignature \/ WriteBatch
    \/ WriteFails \/ KeepPage \/ PageCleared
    \/ StopWorker \/ JoinAndClose \/ UNCHANGED vars

LEMMA QuietFrame ==
    ASSUME IInv, QuietStep
    PROVE  /\ UNCHANGED <<placed, finalized, laps, pagesFront, record, signed>>
           /\ storageBack' = storageBack
           /\ \A u \in Threads :
                  Holds(u)' => /\ Holds(u)
                               /\ pc'[u] = pc[u]
                               /\ event'[u] = event[u]
                               /\ page'[u] = page[u]
                               /\ slot'[u] = slot[u]
           /\ toClear' = toClear /\ (wpage' = wpage \/ toClear = {})
<1> USE DEF IInv
<1>1. ASSUME NEW t \in Threads, LoadPagesBack(t) \/ PageFull(t) \/ AdvancePage(t)
      PROVE  /\ UNCHANGED <<placed, finalized, laps, pagesFront, record, signed>>
             /\ UNCHANGED <<event, slot, toClear, wpage>>
             /\ storageBack' = storageBack
             /\ \E v, w : /\ pc' = [pc EXCEPT ![t] = v]
                          /\ page' = [page EXCEPT ![t] = w] \/ page' = page
                          /\ v \in {"loaded", "full", "retry"}
  <2>1. CASE LoadPagesBack(t) \/ AdvancePage(t)
    BY <2>1 DEF LoadPagesBack, AdvancePage, queueVars, workerVars, history
  <2>2. CASE PageFull(t)
    <3>1. page[t] \in Pages /\ storageBack[page[t]] \in 0 .. PageSize
      BY DEF TypeOK, QueueTypeOK, ThreadTypeOK
    <3>2. HandOut(storageBack[page[t]]) = storageBack[page[t]]
      BY <2>2, <3>1, PageSizeAssumption DEF PageFull, HandOut
    <3>3. storageBack' = storageBack
      BY <2>2, <3>1, <3>2 DEF PageFull, TypeOK, QueueTypeOK
    <3> QED
      BY <2>2, <3>3 DEF PageFull, workerVars, history
  <2> QED
    BY <1>1, <2>1, <2>2
<1>2. ASSUME NEW t \in Threads, LoadPagesBack(t) \/ PageFull(t) \/ AdvancePage(t),
             NEW u \in Threads, Holds(u)'
      PROVE  Holds(u) /\ pc'[u] = pc[u] /\ page'[u] = page[u]
  BY <1>1, <1>2 DEF Holds, TypeOK, ThreadTypeOK
<1>3. CASE \E t \in Threads : LoadPagesBack(t) \/ PageFull(t) \/ AdvancePage(t)
  BY <1>1, <1>2, <1>3
<1>4. CASE LoadFrontPage
  BY <1>4 DEF LoadFrontPage, ScanInv, queueVars, threadVars, history, Holds
<1>5. CASE CheckStopToken \/ SeeSignature \/ WriteBatch \/ WriteFails \/ PageCleared
  BY <1>5 DEF CheckStopToken, SeeSignature, WriteBatch, WriteFails, PageCleared,
              queueVars, threadVars, history, Holds
<1>6. CASE KeepPage
  BY <1>6 DEF KeepPage, queueVars, threadVars, history, Holds
<1>7. CASE StopWorker \/ JoinAndClose \/ UNCHANGED vars
  BY <1>7 DEF StopWorker, JoinAndClose, vars, queueVars, threadVars, workerVars,
              history, Holds
<1> QED
  BY <1>3, <1>4, <1>5, <1>6, <1>7 DEF QuietStep

\* A step of the queue is quiet or one of the five others.
LEMMA StepCases ==
    ASSUME [Next]_vars
    PROVE  \/ QuietStep
           \/ \E t \in Threads : AcquireSlot(t) \/ InitializeEvent(t) \/ FinalizeEvent(t)
           \/ ReleasePage
           \/ ClearSlot
BY DEF Next, Work, Capture, QuietStep

LEMMA NextReserveInv ==
    ASSUME IInv, RingInv, RingInv', ReserveInv, [Next]_vars
    PROVE  ReserveInv'
<1>1. CASE QuietStep
  BY <1>1, QuietFrame, ReserveFrame
<1>2. ASSUME NEW t \in Threads, AcquireSlot(t) \/ InitializeEvent(t) \/ FinalizeEvent(t)
      PROVE  ReserveInv'
  BY <1>2, AcquireSlotReserveInv, InitializeEventReserveInv, FinalizeEventReserveInv
<1>3. CASE ReleasePage \/ ClearSlot
  BY <1>3, ReleasePageReserveInv, ClearSlotReserveInv
<1> QED
  BY <1>1, <1>2, <1>3, StepCases

\* A place is given to one event only, whatever pages are recycled meanwhile,
\* and a signature that is left in a slot is that of the place's event.
THEOREM PlacesReserved == Spec => []ReserveInv
BY InitReserveInv, NextReserveInv, Invariance, RingInOrder, PTL DEF Spec

-----------------------------------------------------------------------------
(* The file and the front page.                                            *)

\* The file ends with the first n slots of the front page.
Filled(n) ==
    /\ Len(dump) = Base(pagesFront) + n
    /\ n <= storageBack[pagesFront]
    /\ \A s \in Slots :
           s < n => /\ signed[pagesFront][s]
                    /\ dump[Base(pagesFront) + s + 1] = record[pagesFront][s]

\* How many slots that is, and what the records in the file are.
FileInv ==
    /\ \E n \in 0 .. PageSize :
           /\ Filled(n)
           /\ wpc \notin {"written", "failed"} => n = storageFront[pagesFront]
           /\ wpc = "written" => n = wback
    /\ DumpByPlace

LEMMA InitFileInv == Init => FileInv
<1> SUFFICES ASSUME Init PROVE FileInv
  OBVIOUS
<1>1. Len(dump) = 0 /\ DOMAIN dump = {}
  BY DEF Init
<1>2. Base(pagesFront) = 0
  <2>1. 0 \in Pages /\ NumPages \in Nat /\ PageSize \in Nat
    BY NumPagesAssumption, PageSizeAssumption DEF Pages
  <2>2. 0 * NumPages = 0 /\ 0 * PageSize = 0
    BY <2>1
  <2> QED
    BY <2>1, <2>2 DEF Init, Base, Gen
<1>3. Filled(0) /\ 0 \in 0 .. PageSize /\ storageFront[pagesFront] = 0
  BY <1>1, <1>2, NumPagesAssumption, PageSizeAssumption DEF Init, Filled, Pages, Slots
<1> QED
  BY <1>1, <1>3 DEF Init, FileInv, DumpByPlace

\* What a step has to leave alone to preserve FileInv.
LEMMA FileFrame ==
    ASSUME TypeOK, TypeOK', PlacedInv, FileInv,
           UNCHANGED <<dump, pagesFront, storageFront, laps>>,
           storageBack[pagesFront] <= storageBack'[pagesFront],
           \A s \in Slots : signed[pagesFront][s] =>
               signed'[pagesFront][s] /\ record'[pagesFront][s] = record[pagesFront][s],
           finalized \subseteq finalized',
           \A e \in DOMAIN placed : placed'[e] = placed[e],
           \/ wpc' = wpc /\ wback' = wback
           \/ {wpc, wpc'} \cap {"written", "failed"} = {}
    PROVE  FileInv'
<1>1. PICK n \in 0 .. PageSize :
          /\ Filled(n)
          /\ wpc \notin {"written", "failed"} => n = storageFront[pagesFront]
          /\ wpc = "written" => n = wback
  BY DEF FileInv
<1>2. storageBack[pagesFront] \in Int /\ storageBack'[pagesFront] \in Int
  BY PageSizeAssumption DEF TypeOK, QueueTypeOK
<1>3. Base(pagesFront)' = Base(pagesFront) /\ n <= storageBack'[pagesFront]
  BY <1>1, <1>2, PlaceFrame DEF Filled
<1>4. Filled(n)'
  BY <1>1, <1>3 DEF Filled
<1>5. DumpByPlace'
  BY DEF FileInv, DumpByPlace, PlacedInv
<1> QED
  BY <1>1, <1>4, <1>5 DEF FileInv

LEMMA ConcatFacts ==
    ASSUME NEW d \in Seq(Nat), NEW c \in Seq(Nat)
    PROVE  /\ Len(d) \in Nat /\ Len(c) \in Nat
           /\ DOMAIN d = 1 .. Len(d)
           /\ Len(d \o c) = Len(d) + Len(c)
           /\ DOMAIN (d \o c) = 1 .. Len(d) + Len(c)
           /\ \A i \in 1 .. Len(d) : (d \o c)[i] = d[i]
           /\ \A i \in 1 .. Len(c) : (d \o c)[Len(d) + i] = c[i]
BY SMT

LEMMA PrefixFacts ==
    ASSUME NEW c \in Seq(Nat), NEW m \in Nat, m <= Len(c)
    PROVE  /\ SubSeq(c, 1, m) \in Seq(Nat)
           /\ Len(SubSeq(c, 1, m)) = m
           /\ \A i \in 1 .. m : SubSeq(c, 1, m)[i] = c[i]
BY SMT

\* What the file holds after the first m records of the batch.
Appended(k, m, d) ==
    /\ k \in Nat /\ m \in Nat /\ k + m <= wback /\ wback \in Nat
    /\ Len(dump) \in Nat
    /\ DOMAIN dump = 1 .. Len(dump)
    /\ Len(d) = Len(dump) + m
    /\ DOMAIN d = 1 .. Len(dump) + m
    /\ \A i \in 1 .. Len(dump) : d[i] = dump[i]
    /\ \A i \in 1 .. m : d[Len(dump) + i] = record[wpage][k + i - 1]

LEMMA BatchPart ==
    ASSUME IInv, RingInv, wpc = "scan", NEW k, k = storageFront[wpage],
           NEW m \in 0 .. (wback - k), NEW d, d = dump \o SubSeq(Batch, 1, m)
    PROVE  Appended(k, m, d)
<1> DEFINE B == SubSeq(Batch, 1, m)
<1>1. /\ k \in 0 .. PageSize /\ wback \in 0 .. PageSize /\ k <= wback
      /\ dump \in Seq(Nat)
  BY DEF IInv, RingInv, TypeOK, QueueTypeOK, WorkerTypeOK
<1>2. k \in Nat /\ m \in Nat /\ k + m <= wback /\ wback \in Nat /\ m <= wback - k
  BY <1>1, PageSizeAssumption
<1>3. Batch \in Seq(Nat) /\ Len(Batch) = wback - k
  BY <1>1, BatchType DEF IInv
<1>4. \A i \in 1 .. m : Batch[i] = record[wpage][k + i - 1]
  BY <1>1, <1>2 DEF Batch
<1>5. B \in Seq(Nat) /\ Len(B) = m /\ \A i \in 1 .. m : B[i] = Batch[i]
  BY <1>2, <1>3, PrefixFacts
<1>6. d = dump \o B
  OBVIOUS
<1> HIDE DEF B
<1>7. /\ Len(dump) \in Nat
      /\ DOMAIN dump = 1 .. Len(dump)
      /\ Len(d) = Len(dump) + m
      /\ DOMAIN d = 1 .. Len(dump) + m
      /\ \A i \in 1 .. Len(dump) : d[i] = dump[i]
      /\ \A i \in 1 .. m : d[Len(dump) + i] = B[i]
  <2>1. /\ Len(dump) \in Nat
        /\ DOMAIN dump = 1 .. Len(dump)
        /\ Len(dump \o B) = Len(dump) + Len(B)
        /\ DOMAIN (dump \o B) = 1 .. Len(dump) + Len(B)
        /\ \A i \in 1 .. Len(dump) : (dump \o B)[i] = dump[i]
        /\ \A i \in 1 .. Len(B) : (dump \o B)[Len(dump) + i] = B[i]
    BY <1>1, <1>5, ConcatFacts
  <2> QED
    BY <1>5, <1>6, <2>1, Zenon
<1> QED
  BY <1>2, <1>4, <1>5, <1>7 DEF Appended

\* Positions of the file and slots, when k slots of a page are followed by m.
BatchPositions(b, k, m) ==
    /\ \A s \in Nat : s < k => b + s + 1 \in 1 .. (b + k)
    /\ \A s \in Nat : s < k + m /\ ~(s < k) =>
           /\ s - k + 1 \in 1 .. m
           /\ (b + k) + (s - k + 1) = b + s + 1
           /\ k + (s - k + 1) - 1 = s
    /\ \A j \in 1 .. (b + (k + m)) :
           \/ j \in 1 .. (b + k)
           \/ \E s \in Nat : s < k + m /\ b + s + 1 = j

LEMMA BatchPositionsHold ==
    ASSUME NEW b \in Nat, NEW k \in Nat, NEW m \in Nat
    PROVE  BatchPositions(b, k, m)
<1>1. ASSUME NEW j \in 1 .. (b + (k + m)), ~(j \in 1 .. (b + k))
      PROVE  \E s \in Nat : s < k + m /\ b + s + 1 = j
  <2>1. j - 1 - b \in Nat /\ j - 1 - b < k + m /\ b + (j - 1 - b) + 1 = j
    BY <1>1
  <2> QED
    BY <2>1
<1>2. \A s \in Nat : s < k => b + s + 1 \in 1 .. (b + k)
  OBVIOUS
<1>3. \A s \in Nat : s < k + m /\ ~(s < k) =>
          /\ s - k + 1 \in 1 .. m
          /\ (b + k) + (s - k + 1) = b + s + 1
          /\ k + (s - k + 1) - 1 = s
  OBVIOUS
<1> QED
  BY <1>1, <1>2, <1>3 DEF BatchPositions

\* The file grows by the next m slots of the front page.
LEMMA ExtendFile ==
    ASSUME IInv, RingInv, ReserveInv, FileInv, wpc = "scan", wnext = wback,
           UNCHANGED <<placed, finalized, laps, pagesFront, record, signed, storageBack>>,
           NEW k \in Nat, k = storageFront[wpage],
           NEW m \in Nat, k + m <= wback, wback \in Nat,
           Len(dump') = Len(dump) + m,
           DOMAIN dump = 1 .. Len(dump),
           DOMAIN dump' = 1 .. Len(dump) + m,
           \A i \in 1 .. Len(dump) : dump'[i] = dump[i],
           \A i \in 1 .. m : dump'[Len(dump) + i] = record[wpage][k + i - 1]
    PROVE  Filled(k + m)' /\ DumpByPlace'
<1> USE DEF IInv
<1> DEFINE f == pagesFront
<1>0. wpage = f /\ f \in Pages /\ Base(f) \in Nat
  BY PlaceOrder DEF RingInv, TypeOK, QueueTypeOK
<1>a. PICK b \in Nat : b = Base(f)
  BY <1>0
<1>1. /\ wpage = f /\ f \in Pages /\ b \in Nat /\ k = storageFront[f]
      /\ storageBack[f] \in Nat /\ wback <= storageBack[f] /\ wback <= PageSize
  BY <1>0, PageSizeAssumption DEF RingInv, TypeOK, QueueTypeOK, WorkerTypeOK
<1>2. Filled(k)
  BY <1>1 DEF FileInv
<1>3. Len(dump) = b + k
  BY <1>a, <1>2 DEF Filled
<1>4. /\ Len(dump') = b + (k + m)
      /\ DOMAIN dump = 1 .. (b + k)
      /\ DOMAIN dump' = 1 .. (b + (k + m))
      /\ \A i \in 1 .. (b + k) : dump'[i] = dump[i]
      /\ \A i \in 1 .. m : dump'[(b + k) + i] = record[f][k + i - 1]
  <2>1. (b + k) + m = b + (k + m)
    BY <1>1
  <2> QED
    BY <1>1, <1>3, <2>1, Zenon
<1>5. \A s \in Slots : s < wback => signed[f][s]
  BY <1>1 DEF ScanInv
<1>b. BatchPositions(b, k, m)
  BY BatchPositionsHold, Zenon
<1>6. ASSUME NEW s \in Slots, s < k + m
       PROVE  signed[f][s] /\ dump'[b + s + 1] = record[f][s]
  <2>1. s \in Nat /\ s < wback
    BY <1>6 DEF Slots
  <2>2. CASE s < k
    <3>1. dump[b + s + 1] = record[f][s]
      BY <1>a, <1>2, <2>2 DEF Filled
    <3>2. b + s + 1 \in 1 .. (b + k)
      BY <2>1, <2>2, <1>b, Zenon DEF BatchPositions
    <3> QED
      BY <1>4, <1>5, <2>1, <3>1, <3>2, Zenon
  <2>3. CASE ~(s < k)
    <3>1. /\ s - k + 1 \in 1 .. m
          /\ (b + k) + (s - k + 1) = b + s + 1
          /\ k + (s - k + 1) - 1 = s
      BY <1>6, <2>1, <2>3, <1>b, Zenon DEF BatchPositions
    <3>2. dump'[(b + k) + (s - k + 1)] = record[f][k + (s - k + 1) - 1]
      BY <1>4, <3>1, Zenon
    <3> QED
      BY <1>5, <2>1, <3>1, <3>2, Zenon
  <2> QED
    BY <2>2, <2>3
<1>7. Filled(k + m)'
  <2>1. Base(f)' = b
    BY <1>a, PlaceFrame
  <2>2. k + m <= storageBack[f]
    BY <1>1
  <2> QED
    BY <1>4, <1>6, <2>1, <2>2 DEF Filled
<1>8. DumpByPlace'
  <2> SUFFICES ASSUME NEW j \in DOMAIN dump', dump'[j] # NoEvent
               PROVE  dump'[j] \in finalized /\ placed[dump'[j]] = j - 1
    BY DEF DumpByPlace
  <2>1. \/ j \in 1 .. (b + k)
        \/ \E s \in Nat : s < k + m /\ b + s + 1 = j
    <3>1. j \in 1 .. (b + (k + m))
      BY <1>4, Zenon
    <3> QED
      BY <3>1, <1>b, Zenon DEF BatchPositions
  <2>2. CASE j \in 1 .. (b + k)
    <3>1. j \in DOMAIN dump /\ dump'[j] = dump[j]
      BY <1>4, <2>2, Zenon
    <3> QED
      BY <3>1 DEF FileInv, DumpByPlace
  <2>3. CASE \E s \in Nat : s < k + m /\ b + s + 1 = j
    <3>1. PICK s \in Nat : s < k + m /\ b + s + 1 = j
      BY <2>3
    <3>2. s < wback /\ j - 1 = b + s
      BY <1>1, <3>1, SMTT(30)
    <3>3. s \in Slots /\ s \in 0 .. PageSize
      BY <1>1, <3>1, <3>2, PageSizeAssumption DEF Slots
    <3>4. dump'[j] = record[f][s] /\ signed[f][s]
      BY <1>6, <3>1, <3>3
    <3>5. ~Pending(f, s)
      BY DEF Pending, ScanInv
    <3>6. PICK e \in finalized : placed[e] = Place(f, s) /\ record[f][s] \in {e, NoEvent}
      BY <1>1, <3>3, <3>4, <3>5 DEF ReserveInv, SignedInv
    <3>7. dump'[j] = e
      BY <3>4, <3>6
    <3>8. Place(f, s) = b + s
      BY <1>a, <1>1, <3>3, PlaceOrder
    <3> QED
      BY <3>2, <3>6, <3>7, <3>8, Zenon
  <2> QED
    BY <2>1, <2>2, <2>3
<1> QED
  BY <1>7, <1>8

\* A capture step keeps what is stored in a signed slot the memset has passed,
\* and what is known of events.
LEMMA CaptureKeeps ==
    ASSUME IInv, ReserveInv, NEW t \in Threads, LoadPagesBack(t) \/ Capture(t)
    PROVE  /\ \A p \in Pages, s \in Slots :
                  signed[p][s] /\ ~Pending(p, s) =>
                      signed'[p][s] /\ record'[p][s] = record[p][s]
           /\ finalized \subseteq finalized'
           /\ DOMAIN placed \subseteq DOMAIN placed'
           /\ \A e \in DOMAIN placed : placed'[e] = placed[e]
<1> USE DEF IInv
<1>1. CASE LoadPagesBack(t) \/ PageFull(t) \/ AdvancePage(t)
  BY <1>1, QuietFrame DEF QuietStep
<1>2. CASE AcquireSlot(t)
  <2>1. PICK x \in Nat : placed' = Append(placed, x)
    <3>1. page[t] \in Pages /\ storageBack[page[t]] \in Slots
      BY <1>2, PageSizeAssumption
         DEF AcquireSlot, TypeOK, QueueTypeOK, ThreadTypeOK, Slots
    <3> QED
      BY <1>2, <3>1, PlaceType DEF AcquireSlot
  <2>2. /\ placed \in Seq(Nat)
        /\ UNCHANGED <<record, signed, finalized>>
    BY <1>2 DEF AcquireSlot, TypeOK, HistoryTypeOK
  <2>3. /\ DOMAIN placed \subseteq DOMAIN placed'
        /\ \A e \in DOMAIN placed : placed'[e] = placed[e]
    BY <2>1, <2>2
  <2> QED
    BY <2>2, <2>3
<1>3. CASE InitializeEvent(t) \/ FinalizeEvent(t)
  <2>1. Holds(t) /\ page[t] \in Pages /\ slot[t] \in Slots
    BY <1>3 DEF InitializeEvent, FinalizeEvent, Holds, TypeOK, ThreadTypeOK
  <2>2. placed' = placed /\ finalized \subseteq finalized'
    BY <1>3 DEF InitializeEvent, FinalizeEvent, history
  <2>3. ASSUME NEW p \in Pages, NEW s \in Slots, signed[p][s] /\ ~Pending(p, s)
        PROVE  signed'[p][s] /\ record'[p][s] = record[p][s]
    <3>1. ~(p = page[t] /\ s = slot[t])
      BY <2>1, <2>3 DEF SlotInv, UnsignedWhileHeld, Pending
    <3>2. CASE InitializeEvent(t)
      BY <2>1, <2>3, <3>1, <3>2 DEF InitializeEvent, TypeOK, QueueTypeOK
    <3>3. CASE FinalizeEvent(t)
      BY <2>1, <2>3, <3>1, <3>3 DEF FinalizeEvent, TypeOK, QueueTypeOK
    <3> QED
      BY <1>3, <3>2, <3>3
  <2> QED
    BY <2>2, <2>3
<1> QED
  BY <1>1, <1>2, <1>3 DEF Capture

LEMMA CaptureFileInv ==
    ASSUME IInv, IInv', RingInv, ReserveInv, FileInv,
           NEW t \in Threads, LoadPagesBack(t) \/ Capture(t)
    PROVE  FileInv'
<1> USE DEF IInv
<1>1. /\ UNCHANGED <<dump, pagesFront, storageFront, laps, wpc, wback>>
      /\ pagesFront \in Pages
      /\ \A p \in Pages : storageBack[p] <= storageBack'[p]
  BY CaptureBack DEF workerVars, TypeOK, QueueTypeOK
<1>2. \A s \in Slots : ~Pending(pagesFront, s)
  BY DEF Pending, RingInv, ScanInv
<1>3. \A s \in Slots : signed[pagesFront][s] =>
          signed'[pagesFront][s] /\ record'[pagesFront][s] = record[pagesFront][s]
  BY <1>1, <1>2, CaptureKeeps
<1> QED
  BY <1>1, <1>3, CaptureKeeps, FileFrame DEF ReserveInv

LEMMA WriteFileInv ==
    ASSUME IInv, RingInv, ReserveInv, FileInv, WriteBatch \/ WriteFails
    PROVE  FileInv'
<1>1. /\ wpc = "scan" /\ wnext = wback
      /\ UNCHANGED <<placed, finalized, laps, pagesFront, record, signed, storageBack>>
      /\ UNCHANGED <<storageFront, wback, wpage>>
  BY DEF WriteBatch, WriteFails, queueVars, history
<1>2. PICK k \in Nat : k = storageFront[wpage] /\ k <= wback
  BY <1>1 DEF IInv, RingInv, TypeOK, QueueTypeOK, WorkerTypeOK
<1>3. /\ wback \in 0 .. PageSize /\ wback - k \in 0 .. (wback - k)
      /\ wback \in Int
  BY <1>2, PageSizeAssumption DEF IInv, TypeOK, WorkerTypeOK
<1>4. PICK m \in 0 .. (wback - k) :
          /\ dump' = dump \o SubSeq(Batch, 1, m)
          /\ wpc' = "failed" \/ (wpc' = "written" /\ m = wback - k)
  <2>1. CASE WriteFails
    <3>1. wpc' = "failed" /\ 0 .. (wback - storageFront[wpage] - 1) \subseteq 0 .. (wback - k)
      BY <1>2, <1>3, <2>1 DEF WriteFails
    <3> QED
      BY <1>2, <2>1, <3>1 DEF WriteFails
  <2>2. CASE WriteBatch
    <3>1. Batch \in Seq(Nat) /\ Len(Batch) = wback - k
      BY <1>2, BatchType DEF IInv
    <3>2. SubSeq(Batch, 1, wback - k) = Batch
      <4>1. \A c \in Seq(Nat) : SubSeq(c, 1, Len(c)) = c
        BY SMT
      <4> QED
        BY <3>1, <4>1, Zenon
    <3> QED
      BY <1>3, <2>2, <3>2 DEF WriteBatch
  <2> QED
    BY <2>1, <2>2
<1>5. Filled(k + m)' /\ DumpByPlace'
  <2>0. PICK d : d = dump \o SubSeq(Batch, 1, m)
    OBVIOUS
  <2>1. Appended(k, m, d)
    BY <1>1, <1>2, <1>4, <2>0, BatchPart, Zenon
  <2>2. dump' = d
    BY <1>4, <2>0
  <2> QED
    BY <1>1, <1>2, <2>1, <2>2, ExtendFile DEF Appended
<1>6. k + m \in 0 .. PageSize /\ (m = wback - k => k + m = wback)
  BY <1>2, <1>3, <1>4, PageSizeAssumption
<1> QED
  BY <1>1, <1>4, <1>5, <1>6 DEF FileInv

LEMMA NextFileInv ==
    ASSUME IInv, IInv', RingInv, RingInv', ReserveInv, FileInv, [Next]_vars
    PROVE  FileInv'
<1> USE DEF IInv
<1>a. /\ pagesFront \in Pages /\ wpage \in Pages
      /\ storageBack[pagesFront] \in Int /\ wback \in Int
  BY PageSizeAssumption DEF TypeOK, QueueTypeOK, WorkerTypeOK
<1>1. ASSUME NEW t \in Threads, LoadPagesBack(t) \/ Capture(t)
      PROVE  FileInv'
  BY <1>1, CaptureFileInv
<1>2. CASE CheckStopToken \/ LoadFrontPage \/ PageCleared \/ SeeSignature
           \/ StopWorker \/ JoinAndClose \/ UNCHANGED vars
  <2>1. /\ UNCHANGED <<dump, pagesFront, storageFront, storageBack, laps>>
        /\ UNCHANGED <<record, signed, finalized, placed>>
        /\ \/ wpc' = wpc /\ wback' = wback
           \/ {wpc, wpc'} \cap {"written", "failed"} = {}
    BY <1>2 DEF CheckStopToken, EnterLoop, LoadFrontPage, PageCleared, SeeSignature,
                StopWorker, JoinAndClose, vars, queueVars, workerVars, history
  <2> QED
    BY <1>a, <2>1, FileFrame DEF ReserveInv
<1>3. CASE WriteBatch \/ WriteFails
  BY <1>3, WriteFileInv
<1>4. CASE KeepPage
  <2>1. /\ UNCHANGED <<dump, pagesFront, storageBack, laps, record, signed>>
        /\ UNCHANGED <<finalized, placed>>
        /\ storageFront' = [storageFront EXCEPT ![wpage] = wback]
        /\ wpc = "written" /\ wpc' \in {"load", "done", "check"}
    BY <1>4 DEF KeepPage, AfterWork, history
  <2>2. PICK n \in 0 .. PageSize : Filled(n) /\ n = wback
    BY <2>1 DEF FileInv
  <2>3. Filled(n)' /\ DumpByPlace'
    BY <2>1, <2>2, PlaceFrame DEF Filled, FileInv, DumpByPlace
  <2>4. n = storageFront'[pagesFront']
    BY <1>a, <2>1, <2>2 DEF RingInv, TypeOK, QueueTypeOK
  <2> QED
    BY <2>1, <2>3, <2>4 DEF FileInv
<1>5. CASE ReleasePage
  <2>1. /\ wpage = pagesFront /\ wback = PageSize /\ pagesFront' \in Pages
        /\ UNCHANGED <<placed, finalized, dump>>
        /\ Base(pagesFront)' = Base(wpage) + PageSize
    BY <1>5, ReleasePageFacts
  <2>2. wpc = "written" /\ wpc' = "clear" /\ wpage' = wpage
    BY <1>5 DEF ReleasePage
  <2>3. storageFront'[pagesFront'] = 0
    BY <2>1, <2>2, <1>5 DEF RingInv, ReleasePage, TypeOK, QueueTypeOK
  <2>4. Len(dump) = Base(pagesFront)' + 0
    <3>1. Filled(PageSize)
      BY <2>1, <2>2 DEF FileInv
    <3>2. Base(wpage) \in Nat
      BY <1>a, PlaceOrder
    <3> QED
      BY <2>1, <3>1, <3>2, PageSizeAssumption DEF Filled
  <2>5. 0 <= storageBack'[pagesFront']
    BY <2>1 DEF TypeOK, QueueTypeOK
  <2>6. Filled(0)'
    BY <2>1, <2>4, <2>5 DEF Filled, Slots
  <2>7. DumpByPlace'
    BY <2>1 DEF FileInv, DumpByPlace
  <2> QED
    BY <2>2, <2>3, <2>6, <2>7, PageSizeAssumption DEF FileInv
<1>6. CASE ClearSlot
  <2>1. /\ UNCHANGED <<dump, pagesFront, storageFront, storageBack, laps, wpc, wback>>
        /\ UNCHANGED <<finalized, placed>>
        /\ wpage # pagesFront
    BY <1>6 DEF ClearSlot, RingInv, history
  <2>2. signed'[pagesFront] = signed[pagesFront] /\ record'[pagesFront] = record[pagesFront]
    BY <1>6, <1>a, <2>1 DEF ClearSlot, TypeOK, QueueTypeOK
  <2> QED
    BY <1>a, <2>1, <2>2, FileFrame DEF ReserveInv
<1> QED
  BY <1>1, <1>2, <1>3, <1>4, <1>5, <1>6 DEF Next, Work

\* Between two calls of fwrite the file holds the pages released so far and the
\* slots before storage_front of the front page.
THEOREM FileFollowsRing == Spec => []FileInv
BY InitFileInv, NextFileInv, Invariance, RingInOrder, PlacesReserved, PTL DEF Spec

\* Every record work() writes is that of the event that reserved the place it
\* lands on, and that event was finalized before: none is written twice.
THEOREM DumpedInPlace == Spec => []DumpByPlace
<1>1. FileInv => DumpByPlace
  BY DEF FileInv
<1> QED
  BY FileFollowsRing, <1>1, PTL

-----------------------------------------------------------------------------
(* The shutdown.                                                           *)

\* The worker that has seen the stop looks at the front page once more after
\* it, so what it leaves there was not reserved before the stop.
StopInv ==
    /\ shutdown = "exited" <=> wpc = "failed"
    /\ shutdown = "running" => ~stopToken
    /\ shutdown = "closed" => wpc = "done"
    /\ draining => stopToken
    /\ wpc = "done" => draining /\ storageFront[wpage] = wback /\ wback < PageSize
    /\ atStop.placed \subseteq Placed
    /\ atStop.finalized \subseteq finalized
    /\ \A e \in atStop.finalized : placed[e] \in atStop.placed
    /\ draining /\ wpc \in {"scan", "written", "done"} =>
           \A s \in Slots : s >= wback => Place(pagesFront, s) \notin atStop.placed

LEMMA InitStopInv == Init => StopInv
BY DEF Init, StopInv, Placed

\* What a step has to leave alone to preserve StopInv.
LEMMA StopFrame ==
    ASSUME StopInv, PlacedInv,
           UNCHANGED <<stopVars, draining, laps, pagesFront, wback>>,
           wpc' = wpc,
           storageFront'[wpage'] = storageFront[wpage],
           finalized \subseteq finalized',
           DOMAIN placed \subseteq DOMAIN placed',
           \A e \in DOMAIN placed : placed'[e] = placed[e]
    PROVE  StopInv'
<1>1. Placed \subseteq Placed'
  BY DEF Placed
<1>2. \A e \in finalized : placed'[e] = placed[e]
  BY DEF PlacedInv
<1> QED
  BY <1>1, <1>2, PlaceFrame DEF StopInv, stopVars

LEMMA NextStopInv ==
    ASSUME IInv, IInv', RingInv, ReserveInv, StopInv, [Next]_vars
    PROVE  StopInv'
<1> USE DEF IInv
<1>a. /\ pagesFront \in Pages /\ wpage \in Pages
      /\ wback \in 0 .. PageSize
      /\ storageFront \in [Pages -> 0 .. PageSize]
  BY DEF TypeOK, QueueTypeOK, WorkerTypeOK
<1>1. ASSUME NEW t \in Threads, LoadPagesBack(t) \/ Capture(t)
      PROVE  StopInv'
  BY <1>1, CaptureBack, CaptureKeeps, StopFrame DEF workerVars, ReserveInv
<1>2. CASE SeeSignature \/ ClearSlot \/ UNCHANGED vars
  BY <1>2, StopFrame
     DEF SeeSignature, ClearSlot, vars, queueVars, workerVars, history, ReserveInv
<1>3. CASE CheckStopToken \/ PageCleared
  <2>1. /\ UNCHANGED <<stopVars, storageFront, wpage, wback, pagesFront, placed, finalized>>
        /\ wpc \in {"check", "clear"} /\ wpc' = "load"
        /\ draining' = stopToken \/ draining' = draining
    BY <1>3 DEF CheckStopToken, PageCleared, EnterLoop, queueVars, history
  <2> QED
    BY <2>1 DEF StopInv, stopVars, Placed
<1>4. CASE LoadFrontPage
  <2>1. /\ UNCHANGED <<stopVars, draining, pagesFront, laps, placed, finalized>>
        /\ wpc = "load" /\ wpc' = "scan" /\ wback' = storageBack[pagesFront]
    BY <1>4 DEF LoadFrontPage, queueVars, history
  <2>2. ASSUME NEW s \in Slots, s >= storageBack[pagesFront]
        PROVE  Place(pagesFront, s)' \notin atStop.placed
    <3>1. Place(pagesFront, s)' = Place(pagesFront, s)
      BY <2>1 DEF Place
    <3>2. Place(pagesFront, s) \notin Placed
      BY <1>a, <2>2, FreshPlace DEF Placed, ReserveInv
    <3> QED
      BY <3>1, <3>2 DEF StopInv
  <2> QED
    BY <2>1, <2>2 DEF StopInv, stopVars, Placed
<1>5. CASE WriteBatch \/ WriteFails
  <2>1. /\ UNCHANGED <<stopToken, atStop, draining, pagesFront, laps, placed, finalized>>
        /\ UNCHANGED <<wback, wpage, storageFront>>
        /\ wpc = "scan"
        /\ \/ wpc' = "written" /\ shutdown' = shutdown
           \/ wpc' = "failed" /\ shutdown' = "exited"
    BY <1>5 DEF WriteBatch, WriteFails, queueVars, stopVars, history
  <2> QED
    BY <2>1, PlaceFrame DEF StopInv, Placed
<1>6. CASE KeepPage
  <2>1. /\ UNCHANGED <<stopVars, draining, pagesFront, laps, placed, finalized>>
        /\ UNCHANGED <<wback, wpage>>
        /\ storageFront' = [storageFront EXCEPT ![wpage] = wback]
        /\ wpc = "written" /\ wback < PageSize
        /\ wpc' \in {"load", "check"} \/ (wpc' = "done" /\ draining)
    BY <1>6 DEF KeepPage, AfterWork, history
  <2>2. storageFront'[wpage'] = wback
    BY <1>a, <2>1
  <2> QED
    BY <2>1, <2>2, PlaceFrame DEF StopInv, stopVars, Placed
<1>7. CASE ReleasePage
  <2>1. /\ UNCHANGED <<stopVars, draining, placed, finalized>>
        /\ wpc = "written" /\ wpc' = "clear"
    BY <1>7 DEF ReleasePage
  <2> QED
    BY <2>1 DEF StopInv, stopVars, Placed
<1>8. CASE StopWorker
  <2>1. /\ UNCHANGED <<wpc, draining, storageFront, wpage, wback, placed, finalized>>
        /\ shutdown = "running" /\ shutdown' = "joining" /\ stopToken' = TRUE
        /\ atStop'.placed = Placed /\ atStop'.finalized = finalized
    BY <1>8 DEF StopWorker, queueVars, workerVars, history
  <2>2. ~draining
    BY <2>1 DEF StopInv
  <2>3. \A e \in finalized : placed[e] \in Placed
    BY DEF Placed, ReserveInv, PlacedInv
  <2> QED
    BY <2>1, <2>2, <2>3 DEF StopInv, Placed
<1>9. CASE JoinAndClose
  <2>1. /\ UNCHANGED <<wpc, draining, storageFront, wpage, wback, placed, finalized>>
        /\ UNCHANGED <<pagesFront, laps, stopToken, atStop>>
        /\ shutdown = "joining" /\ shutdown' = "closed" /\ wpc = "done"
    BY <1>9 DEF JoinAndClose, queueVars, workerVars, history
  <2> QED
    BY <2>1, PlaceFrame DEF StopInv, Placed
<1> QED
  BY <1>1, <1>2, <1>3, <1>4, <1>5, <1>6, <1>7, <1>8, <1>9 DEF Next, Work

\* syan_shutdown joins a worker that has looked at the front page after the stop
\* and found nothing new there.
THEOREM StopInvariance == Spec => []StopInv
BY InitStopInv, NextStopInv, Invariance, RingInOrder, PlacesReserved, PTL DEF Spec

\* When the worker is done, the next place of the file was free at the stop.
LEMMA DoneAtStop ==
    ASSUME IInv, RingInv, FileInv, StopInv, wpc = "done"
    PROVE  Len(dump) \notin atStop.placed
<1>1. wpage = pagesFront /\ pagesFront \in Pages /\ wback \in Slots /\ wback \in 0 .. PageSize
  BY PageSizeAssumption
     DEF IInv, RingInv, StopInv, TypeOK, QueueTypeOK, WorkerTypeOK, Slots
<1>2. Filled(wback)
  BY <1>1 DEF FileInv, StopInv
<1>3. Len(dump) = Place(pagesFront, wback)
  BY <1>1, <1>2, PlaceOrder DEF Filled, IInv
<1>4. wback >= wback
  BY <1>1, PageSizeAssumption
<1> QED
  BY <1>1, <1>3, <1>4 DEF StopInv

-----------------------------------------------------------------------------
(* What holds while a hazard has not been met.                             *)

\* No slot was acquired from under the memset: the places of the slots it has
\* yet to reach are free, and nothing finalized is lost.
WindowInv ==
    "window" \notin hazards =>
        /\ \A s \in toClear : Place(wpage, s) \notin Placed
        /\ \A t \in Threads :
               pc[t] = "initialized" => record[page[t]][slot[t]] = event[t]
        /\ \A e \in finalized \ Dumped :
               \E p \in Pages, s \in Slots :
                   placed[e] = Place(p, s) /\ record[p][s] = e /\ signed[p][s]

LEMMA InitWindowInv == Init => WindowInv
BY DEF Init, WindowInv

LEMMA HazardsGrow ==
    ASSUME [Next]_vars
    PROVE  hazards \subseteq hazards'
<1>1. ASSUME NEW t \in Threads, LoadPagesBack(t) \/ Capture(t)
      PROVE  hazards \subseteq hazards'
  BY <1>1 DEF LoadPagesBack, Capture, AcquireSlot, PageFull, AdvancePage,
              InitializeEvent, FinalizeEvent, history
<1>2. CASE Work
  BY <1>2 DEF Work, CheckStopToken, LoadFrontPage, SeeSignature, WriteBatch,
              KeepPage, ReleasePage, ClearSlot, PageCleared, history
<1>3. CASE WriteFails \/ StopWorker \/ JoinAndClose \/ UNCHANGED vars
  BY <1>3 DEF WriteFails, StopWorker, JoinAndClose, vars, history
<1> QED
  BY <1>1, <1>2, <1>3 DEF Next

\* No step takes a record out of the file.
LEMMA DumpGrows ==
    ASSUME IInv, RingInv, [Next]_vars
    PROVE  /\ DOMAIN dump \subseteq DOMAIN dump'
           /\ \A k \in DOMAIN dump : dump'[k] = dump[k]
           /\ Dumped \subseteq Dumped'
<1>1. CASE WriteBatch \/ WriteFails
  <2>1. \E B \in Seq(Nat) : dump' = dump \o B
    <3>1. wpc = "scan" /\ Batch \in Seq(Nat)
      BY <1>1, BatchType DEF WriteBatch, WriteFails, IInv, RingInv
    <3>2. /\ Len(Batch) = wback - storageFront[wpage]
          /\ wback - storageFront[wpage] \in Int
      BY <3>1, BatchType DEF IInv, RingInv, TypeOK, QueueTypeOK, WorkerTypeOK
    <3>3. CASE WriteBatch
      BY <3>1, <3>3 DEF WriteBatch
    <3>4. CASE WriteFails
      <4>1. PICK m \in 0 .. (wback - storageFront[wpage] - 1) :
                dump' = dump \o SubSeq(Batch, 1, m)
        BY <3>4 DEF WriteFails
      <4>2. m \in Nat /\ m <= Len(Batch)
        BY <3>2, <4>1
      <4> QED
        BY <3>1, <4>1, <4>2, PrefixFacts
    <3> QED
      BY <1>1, <3>3, <3>4
  <2>2. PICK B \in Seq(Nat) : dump' = dump \o B
    BY <2>1
  <2>3. dump \in Seq(Nat)
    BY DEF IInv, TypeOK, WorkerTypeOK
  <2>4. /\ Len(dump) \in Nat /\ Len(B) \in Nat
        /\ DOMAIN dump = 1 .. Len(dump)
        /\ DOMAIN (dump \o B) = 1 .. Len(dump) + Len(B)
        /\ \A i \in 1 .. Len(dump) : (dump \o B)[i] = dump[i]
    BY <2>2, <2>3, ConcatFacts
  <2>5. 1 .. Len(dump) \subseteq 1 .. Len(dump) + Len(B)
    BY <2>4
  <2>6. /\ DOMAIN dump \subseteq DOMAIN dump'
        /\ \A k \in DOMAIN dump : dump'[k] = dump[k]
    BY <2>2, <2>4, <2>5, Zenon
  <2> QED
    BY <2>6 DEF Dumped
<1>2. CASE ~(WriteBatch \/ WriteFails)
  <2>1. dump' = dump
    BY <1>2 DEF Next, LoadPagesBack, Capture, AcquireSlot, PageFull, AdvancePage,
                InitializeEvent, FinalizeEvent, Work, CheckStopToken, LoadFrontPage,
                SeeSignature, KeepPage, ReleasePage, ClearSlot, PageCleared,
                StopWorker, JoinAndClose, vars, workerVars
  <2> QED
    BY <2>1 DEF Dumped
<1> QED
  BY <1>1, <1>2

\* FreshPlace for every slot, to be used of a step's second state.
FreshPlaces ==
    \A p \in Pages, s \in Slots : s >= storageBack[p] => Place(p, s) \notin Placed

LEMMA AllFresh == TypeOK /\ RingInv /\ ReserveInv => FreshPlaces
BY FreshPlace DEF FreshPlaces, Placed, ReserveInv

LEMMA QuietWindowInv ==
    ASSUME IInv, RingInv, WindowInv, QuietStep, [Next]_vars
    PROVE  WindowInv'
<1> SUFFICES ASSUME "window" \notin hazards
             PROVE  /\ \A s \in toClear' : Place(wpage, s)' \notin Placed'
                    /\ \A t \in Threads :
                           pc'[t] = "initialized" => record'[page'[t]][slot'[t]] = event'[t]
                    /\ \A e \in (finalized \ Dumped)' :
                           \E p \in Pages, s \in Slots :
                               placed'[e] = Place(p, s)' /\ record'[p][s] = e /\ signed'[p][s]
  BY HazardsGrow DEF WindowInv
<1>1. /\ UNCHANGED <<placed, finalized, laps, record, signed>>
      /\ toClear' = toClear /\ (wpage' = wpage \/ toClear = {})
      /\ \A u \in Threads :
             Holds(u)' => /\ Holds(u)
                          /\ pc'[u] = pc[u]
                          /\ event'[u] = event[u]
                          /\ page'[u] = page[u]
                          /\ slot'[u] = slot[u]
  BY QuietFrame
<1>2. \A p, s : Place(p, s)' = Place(p, s)
  BY <1>1, PlaceFrame
<1>3. \A s \in toClear' : Place(wpage, s)' \notin Placed'
  BY <1>1, <1>2 DEF WindowInv, Placed
<1>4. \A t \in Threads :
          pc'[t] = "initialized" => record'[page'[t]][slot'[t]] = event'[t]
  BY <1>1 DEF WindowInv, Holds
<1>5. \A e \in (finalized \ Dumped)' :
          \E p \in Pages, s \in Slots :
              placed'[e] = Place(p, s)' /\ record'[p][s] = e /\ signed'[p][s]
  <2>1. Dumped \subseteq Dumped'
    BY DumpGrows
  <2> QED
    BY <1>1, <1>2, <2>1 DEF WindowInv
<1> QED
  BY <1>3, <1>4, <1>5

\* A reservation adds one event and one place.
LEMMA AppendFacts ==
    ASSUME NEW d \in Seq(Nat), NEW x \in Nat
    PROVE  /\ Len(d) \in Nat
           /\ DOMAIN Append(d, x) = DOMAIN d \cup {Len(d) + 1}
           /\ Len(d) + 1 \notin DOMAIN d
           /\ Append(d, x)[Len(d) + 1] = x
           /\ \A e \in DOMAIN d : Append(d, x)[e] = d[e]
<1>1. Len(d) \in Nat /\ DOMAIN d = 1 .. Len(d)
  BY LenProperties
<1>2. DOMAIN Append(d, x) = 1 .. Len(d) + 1
  BY AppendProperties, LenProperties
<1>3. DOMAIN Append(d, x) = DOMAIN d \cup {Len(d) + 1} /\ Len(d) + 1 \notin DOMAIN d
  BY <1>1, <1>2
<1>4. Append(d, x)[Len(d) + 1] = x /\ \A e \in 1 .. Len(d) : Append(d, x)[e] = d[e]
  BY AppendProperties
<1> QED
  BY <1>1, <1>3, <1>4

\* What AcquireSlot does, the slot it takes being s of page p.
Reserves(t, p, s, n) ==
    /\ p = page[t] /\ s = storageBack[p] /\ n = Len(placed) + 1
    /\ placed' = Append(placed, Place(p, s))
    /\ Place(p, s) \in Nat
    /\ DOMAIN placed' = DOMAIN placed \cup {n} /\ n \notin DOMAIN placed
    /\ placed'[n] = Place(p, s)
    /\ \A e \in DOMAIN placed : placed'[e] = placed[e]
    /\ Placed' = Placed \cup {Place(p, s)}
    /\ storageBack' = [storageBack EXCEPT ![p] = s + 1]
    /\ slot' = [slot EXCEPT ![t] = s]
    /\ event' = [event EXCEPT ![t] = n]
    /\ pc' = [pc EXCEPT ![t] = "acquired"]
    /\ hazards' = hazards \cup FetchHazards(t, s)
    /\ UNCHANGED <<pagesFront, pagesBack, storageFront, record, signed, page,
                   workerVars, stopVars, laps, finalized>>

LEMMA AcquireSlotFacts ==
    ASSUME IInv, NEW t \in Threads, AcquireSlot(t)
    PROVE  \E p \in Pages, s \in Slots, n \in Nat : Reserves(t, p, s, n)
<1> USE DEF IInv
<1>1. PICK p \in Pages, s \in Slots : p = page[t] /\ s = storageBack[p]
  BY PageSizeAssumption
     DEF AcquireSlot, TypeOK, QueueTypeOK, ThreadTypeOK, Slots
<1>2. s \in 0 .. PageSize /\ placed \in Seq(Nat)
  BY PageSizeAssumption DEF Slots, TypeOK, HistoryTypeOK
<1>3. Place(p, s) \in Nat
  BY <1>1, <1>2, PlaceType
<1>4. PICK n \in Nat : n = Len(placed) + 1
  BY <1>2, LenProperties
<1>5. HandOut(s) = s + 1
  BY <1>1, <1>2, HandOutType, PageSizeAssumption DEF Slots
<1>6. /\ placed' = Append(placed, Place(p, s))
      /\ storageBack' = [storageBack EXCEPT ![p] = s + 1]
      /\ slot' = [slot EXCEPT ![t] = s]
      /\ event' = [event EXCEPT ![t] = n]
      /\ pc' = [pc EXCEPT ![t] = "acquired"]
      /\ hazards' = hazards \cup FetchHazards(t, s)
      /\ UNCHANGED <<pagesFront, pagesBack, storageFront, record, signed, page,
                     workerVars, stopVars, laps, finalized>>
  BY <1>1, <1>4, <1>5 DEF AcquireSlot
<1>7. /\ DOMAIN placed' = DOMAIN placed \cup {n} /\ n \notin DOMAIN placed
      /\ placed'[n] = Place(p, s)
      /\ \A e \in DOMAIN placed : placed'[e] = placed[e]
  BY <1>2, <1>3, <1>4, <1>6, AppendFacts, ZenonT(60)
<1>8. Placed' = Placed \cup {Place(p, s)}
  BY <1>7 DEF Placed
<1> QED
  BY <1>1, <1>3, <1>4, <1>6, <1>7, <1>8, Zenon DEF Reserves

\* Without a window an event still in its slot is not in reach of the memset.
LEMMA CaptureWindowInv ==
    ASSUME IInv, RingInv, ReserveInv, WindowInv, [Next]_vars, NEW t \in Threads,
           AcquireSlot(t) \/ InitializeEvent(t) \/ FinalizeEvent(t)
    PROVE  WindowInv'
<1> USE DEF IInv
<1> SUFFICES ASSUME "window" \notin hazards, "window" \notin hazards'
             PROVE  /\ \A s \in toClear' : Place(wpage, s)' \notin Placed'
                    /\ \A u \in Threads :
                           pc'[u] = "initialized" => record'[page'[u]][slot'[u]] = event'[u]
                    /\ \A e \in (finalized \ Dumped)' :
                           \E p \in Pages, s \in Slots :
                               placed'[e] = Place(p, s)' /\ record'[p][s] = e /\ signed'[p][s]
  BY HazardsGrow DEF WindowInv
<1>1. UNCHANGED <<laps, wpage, toClear, dump, page>>
  BY DEF AcquireSlot, InitializeEvent, FinalizeEvent, workerVars, history
<1>2. (\A p, s : Place(p, s)' = Place(p, s)) /\ Dumped' = Dumped
  BY <1>1, PlaceFrame DEF Dumped
<1>3. wpage \in Pages /\ page[t] \in Pages /\ slot[t] \in Slots /\ toClear \subseteq Slots
  BY DEF TypeOK, ThreadTypeOK, WorkerTypeOK
<1>4. /\ \A p \in Pages, s \in Slots :
             signed[p][s] /\ ~Pending(p, s) =>
                 signed'[p][s] /\ record'[p][s] = record[p][s]
      /\ \A e \in DOMAIN placed : placed'[e] = placed[e]
  BY CaptureKeeps DEF Capture
<1>5. \A s \in toClear : Place(wpage, s) \notin Placed
  BY DEF WindowInv
<1>6. ASSUME NEW e \in finalized \ Dumped
      PROVE  \E p \in Pages, s \in Slots :
                 placed'[e] = Place(p, s)' /\ record'[p][s] = e /\ signed'[p][s]
  <2>1. PICK p \in Pages, s \in Slots :
            placed[e] = Place(p, s) /\ record[p][s] = e /\ signed[p][s]
    BY <1>6 DEF WindowInv
  <2>2. e \in DOMAIN placed /\ placed[e] \in Placed
    BY DEF ReserveInv, PlacedInv, Placed
  <2>3. ~Pending(p, s)
    BY <1>5, <2>1, <2>2 DEF Pending
  <2> QED
    BY <1>2, <1>4, <2>1, <2>2, <2>3
<1>7. CASE AcquireSlot(t)
  <2>1. PICK p \in Pages, s \in Slots, n \in Nat : Reserves(t, p, s, n)
    BY <1>7, AcquireSlotFacts
  <2>2. /\ pc' = [pc EXCEPT ![t] = "acquired"]
        /\ UNCHANGED <<record, finalized>>
        /\ slot' = [slot EXCEPT ![t] = s]
        /\ event' = [event EXCEPT ![t] = n]
    BY <2>1 DEF Reserves
  <2>3. ~(p = wpage /\ s \in toClear)
    BY <2>1 DEF Reserves, FetchHazards
  <2>4. Placed' = Placed \cup {Place(p, s)}
    BY <2>1 DEF Reserves
  <2>5. ASSUME NEW r \in toClear
        PROVE  Place(wpage, r) # Place(p, s)
    BY <1>3, <2>3, PlaceInjective
  <2>6. ASSUME NEW u \in Threads, pc'[u] = "initialized"
        PROVE  record'[page'[u]][slot'[u]] = event'[u]
    <3>1. /\ u # t /\ pc[u] = "initialized"
          /\ slot'[u] = slot[u] /\ event'[u] = event[u]
      BY <2>2, <2>6 DEF TypeOK, ThreadTypeOK
    <3> QED
      BY <1>1, <2>2, <3>1 DEF WindowInv
  <2> QED
    BY <1>1, <1>2, <1>5, <1>6, <2>2, <2>4, <2>5, <2>6
<1>8. CASE InitializeEvent(t)
  <2>1. /\ record' = [record EXCEPT ![page[t]][slot[t]] = event[t]]
        /\ pc' = [pc EXCEPT ![t] = "initialized"]
        /\ UNCHANGED <<placed, finalized, slot, event>>
        /\ Holds(t)
    BY <1>8 DEF InitializeEvent, Holds, history
  <2>2. ASSUME NEW u \in Threads, pc'[u] = "initialized"
        PROVE  record'[page'[u]][slot'[u]] = event'[u]
    <3>1. CASE u = t
      BY <1>1, <1>3, <2>1, <3>1 DEF TypeOK, QueueTypeOK
    <3>2. CASE u # t
      <4>1. /\ pc[u] = "initialized" /\ Holds(u)
            /\ page[u] \in Pages /\ slot[u] \in Slots
        BY <2>1, <2>2, <3>2 DEF Holds, TypeOK, ThreadTypeOK
      <4>2. <<page[u], slot[u]>> # <<page[t], slot[t]>>
        BY <2>1, <3>2, <4>1 DEF SlotInv, SlotExclusive
      <4>3. record'[page[u]][slot[u]] = record[page[u]][slot[u]]
        BY <1>3, <2>1, <4>1, <4>2 DEF TypeOK, QueueTypeOK
      <4> QED
        BY <1>1, <2>1, <4>1, <4>3 DEF WindowInv
    <3> QED
      BY <3>1, <3>2
  <2> QED
    BY <1>1, <1>2, <1>5, <1>6, <2>1, <2>2 DEF Placed
<1>9. CASE FinalizeEvent(t)
  <2>1. /\ signed' = [signed EXCEPT ![page[t]][slot[t]] = TRUE]
        /\ pc' = [pc EXCEPT ![t] = "idle"]
        /\ finalized' = finalized \cup {event[t]}
        /\ UNCHANGED <<placed, record, slot, event>>
        /\ pc[t] = "initialized" /\ Holds(t)
    BY <1>9 DEF FinalizeEvent, Holds
  <2>2. ASSUME NEW u \in Threads, pc'[u] = "initialized"
        PROVE  record'[page'[u]][slot'[u]] = event'[u]
    <3>1. u # t /\ pc[u] = "initialized"
      BY <2>1, <2>2 DEF TypeOK, ThreadTypeOK
    <3> QED
      BY <1>1, <2>1, <3>1 DEF WindowInv
  <2>3. /\ placed'[event[t]] = Place(page[t], slot[t])
        /\ record'[page[t]][slot[t]] = event[t]
        /\ signed'[page[t]][slot[t]]
    <3>1. placed[event[t]] = Place(page[t], slot[t])
      BY <2>1 DEF ReserveInv, HolderInv
    <3>2. record[page[t]][slot[t]] = event[t]
      BY <2>1 DEF WindowInv
    <3> QED
      BY <1>3, <2>1, <3>1, <3>2 DEF TypeOK, QueueTypeOK
  <2>4. ASSUME NEW e \in (finalized \ Dumped)'
        PROVE  \E p \in Pages, s \in Slots :
                   placed'[e] = Place(p, s)' /\ record'[p][s] = e /\ signed'[p][s]
    <3>1. CASE e = event[t]
      <4>1. Place(page[t], slot[t])' = Place(page[t], slot[t])
        BY <1>1, <2>1 DEF Place
      <4>2. PICK p \in Pages, s \in Slots : p = page[t] /\ s = slot[t]
        BY <1>3
      <4> QED
        BY <1>2, <2>3, <3>1, <4>2
    <3>2. CASE e # event[t]
      BY <1>2, <1>6, <2>1, <3>2
    <3> QED
      BY <3>1, <3>2
  <2> QED
    BY <1>1, <1>2, <1>5, <2>1, <2>2, <2>4 DEF Placed
<1> QED
  BY <1>7, <1>8, <1>9

\* The events of the page that is released are in the file.
LEMMA ReleasePageWindowInv ==
    ASSUME IInv, RingInv, RingInv', ReserveInv, FileInv, FreshPlaces', WindowInv,
           ReleasePage
    PROVE  WindowInv'
<1> USE DEF IInv
<1>1. /\ wpage = pagesFront /\ wpage \in Pages /\ wpage' = wpage /\ wback = PageSize
      /\ toClear' = Slots
      /\ storageBack' = [storageBack EXCEPT ![wpage] = 0]
      /\ UNCHANGED <<placed, finalized, record, signed, pc, page, slot, event, dump>>
      /\ \A t \in Threads : Holds(t) => page[t] # wpage
      /\ \A q \in Pages : q # wpage => \A s : Place(q, s)' = Place(q, s)
  BY ReleasePageFacts DEF threadVars
<1> SUFFICES ASSUME "window" \notin hazards
             PROVE  /\ \A s \in toClear' : Place(wpage, s)' \notin Placed'
                    /\ \A t \in Threads :
                           pc'[t] = "initialized" => record'[page'[t]][slot'[t]] = event'[t]
                    /\ \A e \in (finalized \ Dumped)' :
                           \E p \in Pages, s \in Slots :
                               placed'[e] = Place(p, s)' /\ record'[p][s] = e /\ signed'[p][s]
  <2>1. "window" \in hazards => "window" \in hazards'
    BY DEF ReleasePage
  <2> QED
    BY <2>1 DEF WindowInv
<1>2. ASSUME NEW s \in toClear'
      PROVE  Place(wpage, s)' \notin Placed'
  <2>1. s \in Slots /\ s >= 0 /\ storageBack'[wpage] = 0
    BY <1>1, <1>2, PageSizeAssumption DEF Slots, TypeOK, QueueTypeOK
  <2>2. PICK p \in Pages : p = wpage
    BY <1>1
  <2>3. s >= storageBack'[p]
    BY <2>1, <2>2
  <2>4. Place(p, s)' \notin Placed'
    BY <2>1, <2>3 DEF FreshPlaces
  <2> QED
    BY <1>1, <2>2, <2>4 DEF Place
<1>3. \A t \in Threads :
          pc'[t] = "initialized" => record'[page'[t]][slot'[t]] = event'[t]
  BY <1>1 DEF WindowInv
<1>4. ASSUME NEW e \in finalized \ Dumped
      PROVE  \E p \in Pages, s \in Slots :
                 placed'[e] = Place(p, s)' /\ record'[p][s] = e /\ signed'[p][s]
  <2>1. PICK p \in Pages, s \in Slots :
            placed[e] = Place(p, s) /\ record[p][s] = e /\ signed[p][s]
    BY <1>4 DEF WindowInv
  <2>2. CASE p = wpage
    <3>1. Filled(PageSize)
      BY <1>1 DEF FileInv, ReleasePage
    <3>2. PICK b \in Nat : b = Base(pagesFront)
      BY <1>1, PlaceOrder
    <3>3. s \in Nat /\ s < PageSize /\ PageSize \in Nat
      BY PageSizeAssumption DEF Slots
    <3>4. dump[b + s + 1] = e /\ Len(dump) = b + PageSize
      BY <1>1, <2>1, <2>2, <3>1, <3>2, <3>3 DEF Filled
    <3>5. b + s + 1 \in 1 .. Len(dump)
      BY <3>2, <3>3, <3>4
    <3>6. b + s + 1 \in DOMAIN dump
      BY <3>5, LenProperties DEF TypeOK, WorkerTypeOK
    <3>7. e # NoEvent
      <4>1. e \in DOMAIN placed
        BY DEF ReserveInv, PlacedInv
      <4>2. e \in 1 .. Len(placed)
        BY <4>1, LenProperties DEF TypeOK, HistoryTypeOK
      <4> QED
        BY <4>2 DEF NoEvent
    <3> QED
      BY <1>4, <3>4, <3>6, <3>7 DEF Dumped
  <2>3. CASE p # wpage
    BY <1>1, <2>1, <2>3
  <2> QED
    BY <2>2, <2>3
<1> QED
  BY <1>1, <1>2, <1>3, <1>4 DEF Dumped

LEMMA ClearSlotWindowInv ==
    ASSUME IInv, RingInv, ReserveInv, WindowInv, ClearSlot
    PROVE  WindowInv'
<1> USE DEF IInv
<1>1. PICK s \in toClear :
          /\ record' = [record EXCEPT ![wpage][s] = NoEvent]
          /\ signed' = [signed EXCEPT ![wpage][s] = FALSE]
          /\ toClear' = toClear \ {s}
  BY DEF ClearSlot
<1>2. /\ UNCHANGED <<placed, finalized, laps, pc, event, page, slot, wpage, dump, hazards>>
      /\ wpage \in Pages /\ s \in Slots
  BY DEF ClearSlot, threadVars, history, TypeOK, WorkerTypeOK
<1> SUFFICES ASSUME "window" \notin hazards
             PROVE  /\ \A r \in toClear' : Place(wpage, r)' \notin Placed'
                    /\ \A t \in Threads :
                           pc'[t] = "initialized" => record'[page'[t]][slot'[t]] = event'[t]
                    /\ \A e \in (finalized \ Dumped)' :
                           \E q \in Pages, r \in Slots :
                               placed'[e] = Place(q, r)' /\ record'[q][r] = e /\ signed'[q][r]
  BY <1>2 DEF WindowInv
<1>3. (\A q, r : Place(q, r)' = Place(q, r)) /\ Placed' = Placed /\ Dumped' = Dumped
  BY <1>2, PlaceFrame DEF Placed, Dumped
<1>4. Place(wpage, s) \notin Placed
  BY DEF WindowInv
<1>5. ASSUME NEW q \in Pages, NEW r \in Slots, Place(q, r) \in Placed
      PROVE  record'[q][r] = record[q][r] /\ signed'[q][r] = signed[q][r]
  <2>1. ~(q = wpage /\ r = s)
    BY <1>4, <1>5
  <2> QED
    BY <1>1, <1>2, <2>1 DEF TypeOK, QueueTypeOK
<1>6. \A r \in toClear' : Place(wpage, r)' \notin Placed'
  BY <1>1, <1>2, <1>3 DEF WindowInv
<1>7. ASSUME NEW t \in Threads, pc'[t] = "initialized"
      PROVE  record'[page'[t]][slot'[t]] = event'[t]
  <2>1. pc[t] = "initialized" /\ Holds(t) /\ page[t] \in Pages /\ slot[t] \in Slots
    BY <1>2, <1>7 DEF Holds, TypeOK, ThreadTypeOK
  <2>2. Place(page[t], slot[t]) \in Placed
    BY <2>1 DEF ReserveInv, HolderInv, Placed
  <2>3. record'[page[t]][slot[t]] = record[page[t]][slot[t]]
    BY <1>5, <2>1, <2>2
  <2> QED
    BY <1>2, <2>1, <2>3 DEF WindowInv
<1>8. ASSUME NEW e \in finalized \ Dumped
      PROVE  \E q \in Pages, r \in Slots :
                 placed'[e] = Place(q, r)' /\ record'[q][r] = e /\ signed'[q][r]
  <2>1. PICK q \in Pages, r \in Slots :
            placed[e] = Place(q, r) /\ record[q][r] = e /\ signed[q][r]
    BY <1>8 DEF WindowInv
  <2>2. placed[e] \in Placed
    BY DEF ReserveInv, PlacedInv, Placed
  <2>3. record'[q][r] = e /\ signed'[q][r]
    BY <1>5, <2>1, <2>2
  <2> QED
    BY <1>2, <1>3, <2>1, <2>3
<1> QED
  BY <1>2, <1>3, <1>6, <1>7, <1>8

LEMMA NextWindowInv ==
    ASSUME IInv, RingInv, RingInv', ReserveInv, FileInv, FreshPlaces', WindowInv,
           [Next]_vars
    PROVE  WindowInv'
<1>1. CASE QuietStep
  BY <1>1, QuietWindowInv
<1>2. ASSUME NEW t \in Threads, AcquireSlot(t) \/ InitializeEvent(t) \/ FinalizeEvent(t)
      PROVE  WindowInv'
  BY <1>2, CaptureWindowInv
<1>3. CASE ReleasePage \/ ClearSlot
  BY <1>3, ReleasePageWindowInv, ClearSlotWindowInv
<1> QED
  BY <1>1, <1>2, <1>3, StepCases

\* The memset after a release meets no event, unless a thread took a slot of
\* the page before it was done.
THEOREM WindowInvariance == Spec => []WindowInv
<1>1. IInv => TypeOK
  BY DEF IInv
<1> QED
  BY <1>1, InitWindowInv, NextWindowInv, AllFresh, Invariance, RingInOrder,
     PlacesReserved, FileFollowsRing, PTL DEF Spec

\* An event whose finalize call has returned is in the file or signed in its
\* slot: the release of a page never takes a record that has not been written,
\* whatever the order of the threads, unless the memset met a reservation.
THEOREM FinalizedKept == Spec => []NothingVanishes
<1>1. WindowInv => NothingVanishes
  BY DEF WindowInv, NothingVanishes
<1> QED
  BY <1>1, WindowInvariance, PTL

\* The four ways out of turn aside, pages_back moves along the order of the
\* file: the pages before it are used up and those after it are untouched.
TurnInv ==
    hazards \subseteq {"window"} =>
        /\ \A p \in Pages : Gen(p) < Gen(pagesBack) => storageBack[p] = PageSize
        /\ \A p \in Pages : Gen(pagesBack) < Gen(p) => storageBack[p] = 0
        /\ Len(placed) = Place(pagesBack, storageBack[pagesBack])
        /\ \A e \in DOMAIN placed : placed[e] = e - 1
        /\ \A x \in atStop.placed : 0 .. x \subseteq atStop.placed

LEMMA InitTurnInv == Init => TurnInv
<1> SUFFICES ASSUME Init PROVE TurnInv
  OBVIOUS
<1>1. NumPages \in Nat /\ PageSize \in Nat /\ 0 \in Pages
  BY NumPagesAssumption, PageSizeAssumption DEF Pages
<1>2. \A p \in Pages : Gen(p) = p /\ p >= 0
  <2>1. \A p \in Pages : Gen(p) = 0 * NumPages + p /\ p \in Nat
    BY DEF Init, Gen, Pages
  <2> QED
    BY <1>1, <2>1
<1>3. Place(pagesBack, storageBack[pagesBack]) = 0
  <2>1. Place(0, 0) = (0 * NumPages + 0) * PageSize + 0
    BY <1>1 DEF Init, Place
  <2> QED
    BY <1>1, <2>1 DEF Init
<1>4. pagesBack = 0 /\ Len(placed) = 0 /\ DOMAIN placed = {} /\ atStop.placed = {}
  BY DEF Init
<1>5. \A p \in Pages : storageBack[p] = 0
  BY DEF Init
<1>6. \A p \in Pages : ~(Gen(p) < Gen(pagesBack))
  BY <1>1, <1>2, <1>4 DEF Pages
<1> QED
  BY <1>3, <1>4, <1>5, <1>6 DEF TurnInv

\* A CAS that does not run into the front page moves to the next page number.
LEMMA NextGen ==
    ASSUME TypeOK, RingInv, NEW b \in Pages, NextPage(b) # pagesFront
    PROVE  NextPage(b) \in Pages /\ Gen(NextPage(b)) = Gen(b) + 1
<1> DEFINE f == pagesFront
           q == NextPage(b)
<1>1. /\ q \in Pages /\ f \in Pages /\ laps[f] \in Nat
      /\ NumPages \in Nat /\ b \in Nat /\ f \in Nat /\ b < NumPages /\ f < NumPages
  BY NumPagesAssumption, NextPageType DEF TypeOK, QueueTypeOK, HistoryTypeOK, Pages
<1>2. /\ laps[b] = laps[f] + (IF b < f THEN 1 ELSE 0)
      /\ laps[q] = laps[f] + (IF q < f THEN 1 ELSE 0)
  BY <1>1 DEF RingInv
<1>3. CASE b + 1 = NumPages
  <2>1. q = 0
    BY <1>3 DEF NextPage
  <2>2. q < f /\ ~(b < f)
    BY <1>1, <1>3, <2>1
  <2>3. laps[b] = laps[f] /\ laps[q] = laps[f] + 1
    BY <1>1, <1>2, <2>2
  <2>4. PICK k \in Nat : k = laps[f] * NumPages
    BY <1>1, NatClosed
  <2>5. (laps[f] + 1) * NumPages = k + NumPages
    BY <1>1, <2>4, NextMultiple
  <2>6. Gen(q) = (k + NumPages) + 0
    BY <2>1, <2>3, <2>5, Zenon DEF Gen
  <2>7. Gen(b) = k + b
    BY <2>3, <2>4, Zenon DEF Gen
  <2> QED
    BY <1>1, <1>3, <2>4, <2>6, <2>7
<1>4. CASE b + 1 # NumPages
  <2>1. q = b + 1
    BY <1>4 DEF NextPage
  <2>2. q < f <=> b < f
    BY <1>1, <2>1
  <2>3. laps[q] = laps[b] /\ laps[b] \in Nat
    BY <1>1, <1>2, <2>2
  <2>4. laps[b] * NumPages \in Nat
    BY <1>1, <2>3, NatClosed
  <2> QED
    BY <1>1, <2>1, <2>3, <2>4 DEF Gen
<1> QED
  BY <1>3, <1>4

\* What a step has to leave alone to preserve TurnInv.
LEMMA TurnFrame ==
    ASSUME TurnInv, UNCHANGED <<pagesBack, storageBack, placed, laps, atStop>>,
           hazards \subseteq hazards'
    PROVE  TurnInv'
BY PlaceFrame DEF TurnInv

LEMMA AcquireSlotTurnInv ==
    ASSUME IInv, RingInv, TurnInv, NEW t \in Threads, AcquireSlot(t)
    PROVE  TurnInv'
<1> USE DEF IInv
<1>1. PICK b \in Pages, s \in Slots, n \in Nat : Reserves(t, b, s, n)
  BY AcquireSlotFacts
<1>2. /\ b = page[t] /\ s = storageBack[b] /\ n = Len(placed) + 1
      /\ DOMAIN placed' = DOMAIN placed \cup {n} /\ placed'[n] = Place(b, s)
      /\ placed' = Append(placed, Place(b, s)) /\ Place(b, s) \in Nat
      /\ \A e \in DOMAIN placed : placed'[e] = placed[e]
      /\ storageBack' = [storageBack EXCEPT ![b] = s + 1]
      /\ hazards' = hazards \cup FetchHazards(t, s)
      /\ UNCHANGED <<pagesBack, laps, stopVars>>
  BY <1>1 DEF Reserves
<1> SUFFICES ASSUME hazards' \subseteq {"window"}
             PROVE  TurnInv'
  BY DEF TurnInv
<1>3. b = pagesBack /\ hazards \subseteq {"window"}
  BY <1>2 DEF FetchHazards
<1>4. \A p \in Pages : p # b => storageBack'[p] = storageBack[p]
  BY <1>2 DEF TypeOK, QueueTypeOK
<1>5. \A p \in Pages : Gen(p)' = Gen(p) /\ Gen(p) \in Nat
  BY <1>2, PlaceFrame, GenOrder
<1>6. \A p \in Pages : Gen(p) # Gen(b) => storageBack'[p] = storageBack[p]
  BY <1>4
<1>7. s \in 0 .. PageSize /\ s + 1 \in 0 .. PageSize /\ s \in Nat
  BY PageSizeAssumption DEF Slots
<1>8. Place(b, s) = Base(b) + s /\ Place(b, s + 1) = Base(b) + (s + 1) /\ Base(b) \in Nat
  BY <1>7, PlaceOrder
<1>9. n - 1 = Place(b, s)
  BY <1>2, <1>3, LenProperties DEF TurnInv, TypeOK, HistoryTypeOK
<1>10. Len(placed') = Place(b, s + 1)
  <2>1. Len(placed') = n
    BY <1>2, AppendProperties DEF TypeOK, HistoryTypeOK
  <2> QED
    BY <1>7, <1>8, <1>9, <2>1
<1>11. storageBack'[b] = s + 1 /\ pagesBack' = b /\ Place(b, s + 1)' = Place(b, s + 1)
  BY <1>2, <1>3, PlaceFrame DEF TypeOK, QueueTypeOK
<1>12. Len(placed') = Place(pagesBack, storageBack[pagesBack])'
  BY <1>2, <1>10, <1>11 DEF Place
<1>13. \A e \in DOMAIN placed' : placed'[e] = e - 1
  BY <1>2, <1>3, <1>9 DEF TurnInv
<1>14. /\ \A p \in Pages : Gen(p) < Gen(b) => storageBack'[p] = PageSize
       /\ \A p \in Pages : Gen(b) < Gen(p) => storageBack'[p] = 0
  BY <1>3, <1>5, <1>6 DEF TurnInv
<1>15. Gen(pagesBack)' = Gen(b)
  BY <1>2, <1>3 DEF Gen
<1>16. \A x \in atStop'.placed : 0 .. x \subseteq atStop'.placed
  BY <1>2, <1>3 DEF TurnInv, stopVars
<1> QED
  BY <1>5, <1>12, <1>13, <1>14, <1>15, <1>16 DEF TurnInv

LEMMA AdvancePageTurnInv ==
    ASSUME IInv, RingInv, TurnInv, NEW t \in Threads, AdvancePage(t)
    PROVE  TurnInv'
<1> USE DEF IInv
<1>1. UNCHANGED <<storageBack, placed, laps, atStop>>
  BY DEF AdvancePage, stopVars
<1>2. CASE pagesBack # page[t]
  BY <1>1, <1>2, TurnFrame DEF AdvancePage
<1>3. CASE pagesBack = page[t]
  <2>1. PICK b, c \in Pages : b = pagesBack /\ c = NextPage(b)
    BY NextPageType DEF TypeOK, QueueTypeOK
  <2>2. pagesBack' = c /\ hazards' = hazards \cup AdvanceHazards(b)
    BY <1>3, <2>1 DEF AdvancePage
  <2> SUFFICES ASSUME hazards' \subseteq {"window"}
               PROVE  TurnInv'
    BY DEF TurnInv
  <2>3. c # pagesFront /\ ~(storageBack[b] < PageSize) /\ hazards \subseteq {"window"}
    BY <2>1, <2>2 DEF AdvanceHazards
  <2>4. storageBack[b] = PageSize
    <3>1. storageBack[b] \in 0 .. PageSize /\ PageSize \in Nat
      BY PageSizeAssumption DEF TypeOK, QueueTypeOK
    <3> QED
      BY <2>3, <3>1
  <2>5. Gen(c) = Gen(b) + 1 /\ \A p \in Pages : Gen(p) \in Nat
    BY <2>1, <2>3, NextGen, GenOrder
  <2>6. ASSUME NEW p \in Pages, Gen(p) < Gen(c)
        PROVE  storageBack[p] = PageSize
    <3>1. CASE Gen(p) = Gen(b)
      BY <2>4, <3>1, GenOrder
    <3>2. CASE Gen(p) # Gen(b)
      <4>1. Gen(p) < Gen(b)
        BY <2>5, <2>6, <3>2
      <4> QED
        BY <2>1, <2>3, <4>1 DEF TurnInv
    <3> QED
      BY <3>1, <3>2
  <2>7. ASSUME NEW p \in Pages, Gen(b) < Gen(p)
        PROVE  storageBack[p] = 0
    BY <2>1, <2>3, <2>7 DEF TurnInv
  <2>8. storageBack[c] = 0 /\ \A p \in Pages : Gen(c) < Gen(p) => storageBack[p] = 0
    BY <2>5, <2>7
  <2>9. Place(c, 0) = Place(b, PageSize)
    <3>1. PageSize \in Nat /\ 0 \in 0 .. PageSize /\ PageSize \in 0 .. PageSize
      BY PageSizeAssumption
    <3>2. Place(c, 0) = Base(c) + 0 /\ Place(b, PageSize) = Base(b) + PageSize
      BY <3>1, PlaceOrder
    <3>3. Base(c) = Base(b) + PageSize /\ Base(b) \in Nat
      BY <2>5, PlaceOrder
    <3> QED
      BY <3>1, <3>2, <3>3
  <2>10. Len(placed) = Place(c, storageBack[c])
    BY <2>1, <2>3, <2>4, <2>8, <2>9 DEF TurnInv
  <2>11. /\ Gen(pagesBack)' = Gen(c) /\ \A p : Gen(p)' = Gen(p)
         /\ Place(pagesBack, storageBack[pagesBack])' = Place(c, storageBack[c])
    BY <1>1, <2>2 DEF Gen, Place
  <2>12. /\ \A e \in DOMAIN placed : placed[e] = e - 1
         /\ \A x \in atStop.placed : 0 .. x \subseteq atStop.placed
    BY <2>3 DEF TurnInv
  <2> QED
    BY <1>1, <2>6, <2>8, <2>10, <2>11, <2>12 DEF TurnInv
<1> QED
  BY <1>2, <1>3

LEMMA ReleasePageTurnInv ==
    ASSUME IInv, RingInv, RingInv', TurnInv, ReleasePage
    PROVE  TurnInv'
<1> USE DEF IInv
<1>1. PICK f, b \in Pages : f = wpage /\ b = pagesBack
  BY DEF TypeOK, QueueTypeOK, WorkerTypeOK
<1>2. /\ wpage = pagesFront
      /\ storageBack' = [storageBack EXCEPT ![f] = 0]
      /\ UNCHANGED <<placed, pagesBack>>
      /\ \A q \in Pages : q # f => Gen(q)' = Gen(q) /\ \A s : Place(q, s)' = Place(q, s)
      /\ Gen(wpage)' = Gen(wpage) + NumPages
      /\ wpage' = wpage
  BY <1>1, ReleasePageFacts
<1>3. hazards \subseteq hazards' /\ (b = f => "early" \in hazards') /\ atStop' = atStop
  BY <1>1 DEF ReleasePage, stopVars
<1> SUFFICES ASSUME hazards' \subseteq {"window"}
             PROVE  TurnInv'
  BY DEF TurnInv
<1>4. b # f /\ hazards \subseteq {"window"}
  BY <1>3
<1>5. /\ Gen(b)' = Gen(b) /\ Gen(pagesBack)' = Gen(b)
      /\ Gen(f)' = Gen(f) + NumPages
  BY <1>1, <1>2, <1>4 DEF Gen
<1>6. Gen(b) < Gen(f) + NumPages /\ Gen(b) \in Nat /\ Gen(f) \in Nat /\ NumPages \in Nat
  BY <1>1, <1>2, GenOrder, NumPagesAssumption
<1>7. ~(Gen(f)' < Gen(b))
  BY <1>5, <1>6
<1>8. /\ storageBack'[f] = 0
      /\ \A p \in Pages : p # f => storageBack'[p] = storageBack[p]
  BY <1>2 DEF TypeOK, QueueTypeOK
<1>9. \A p \in Pages : Gen(p)' < Gen(b) => storageBack'[p] = PageSize
  BY <1>1, <1>2, <1>4, <1>7, <1>8 DEF TurnInv
<1>10. \A p \in Pages : Gen(b) < Gen(p)' => storageBack'[p] = 0
  BY <1>1, <1>2, <1>4, <1>8 DEF TurnInv
<1>11. Len(placed') = Place(pagesBack, storageBack[pagesBack])'
  <2>1. Len(placed) = Place(b, storageBack[b])
    BY <1>1, <1>4 DEF TurnInv
  <2>2. storageBack'[b] = storageBack[b]
    BY <1>4, <1>8
  <2>3. laps'[b] = laps[b]
    BY <1>1, <1>4, ReleasePageFacts DEF TypeOK, HistoryTypeOK
  <2> QED
    BY <1>1, <1>2, <2>1, <2>2, <2>3 DEF Place
<1>12. /\ \A e \in DOMAIN placed' : placed'[e] = e - 1
       /\ \A x \in atStop'.placed : 0 .. x \subseteq atStop'.placed
  BY <1>2, <1>3, <1>4 DEF TurnInv
<1> QED
  BY <1>5, <1>9, <1>10, <1>11, <1>12 DEF TurnInv

LEMMA StopWorkerTurnInv ==
    ASSUME IInv, TurnInv, StopWorker
    PROVE  TurnInv'
<1> USE DEF IInv
<1>1. /\ UNCHANGED <<pagesBack, storageBack, placed, laps, hazards>>
      /\ atStop'.placed = Placed
  BY DEF StopWorker, queueVars, history
<1> SUFFICES ASSUME hazards \subseteq {"window"}
             PROVE  TurnInv'
  BY <1>1 DEF TurnInv
<1>2. ASSUME NEW x \in Placed, NEW y \in 0 .. x
      PROVE  y \in Placed
  <2>1. PICK e \in DOMAIN placed : placed[e] = x
    BY DEF Placed
  <2>2. x = e - 1 /\ e \in 1 .. Len(placed) /\ Len(placed) \in Nat
    BY <2>1, LenProperties DEF TurnInv, TypeOK, HistoryTypeOK
  <2>3. y + 1 \in 1 .. Len(placed) /\ (y + 1) - 1 = y
    BY <2>2
  <2>4. y + 1 \in DOMAIN placed
    BY <2>3, LenProperties DEF TypeOK, HistoryTypeOK
  <2>5. placed[y + 1] = y
    BY <2>3, <2>4 DEF TurnInv
  <2> QED
    BY <2>4, <2>5 DEF Placed
<1>3. \A x \in atStop'.placed : 0 .. x \subseteq atStop'.placed
  BY <1>1, <1>2
<1> QED
  BY <1>1, <1>3, PlaceFrame DEF TurnInv

LEMMA NextTurnInv ==
    ASSUME IInv, RingInv, RingInv', TurnInv, [Next]_vars
    PROVE  TurnInv'
<1>1. ASSUME NEW t \in Threads, AcquireSlot(t) \/ AdvancePage(t)
      PROVE  TurnInv'
  BY <1>1, AcquireSlotTurnInv, AdvancePageTurnInv
<1>2. ASSUME NEW t \in Threads,
             LoadPagesBack(t) \/ PageFull(t) \/ InitializeEvent(t) \/ FinalizeEvent(t)
      PROVE  TurnInv'
  <2>1. storageBack' = storageBack
    <3>1. QuietStep => storageBack' = storageBack
      BY QuietFrame
    <3>2. CASE LoadPagesBack(t) \/ PageFull(t)
      BY <3>1, <3>2 DEF QuietStep
    <3>3. CASE InitializeEvent(t) \/ FinalizeEvent(t)
      BY <3>3 DEF InitializeEvent, FinalizeEvent
    <3> QED
      BY <1>2, <3>2, <3>3
  <2>2. UNCHANGED <<pagesBack, placed, laps, atStop>> /\ hazards \subseteq hazards'
    BY <1>2 DEF LoadPagesBack, PageFull, InitializeEvent, FinalizeEvent, queueVars,
                stopVars, history
  <2> QED
    BY <2>1, <2>2, TurnFrame
<1>3. CASE ReleasePage \/ StopWorker
  BY <1>3, ReleasePageTurnInv, StopWorkerTurnInv
<1>4. CASE \/ CheckStopToken \/ LoadFrontPage \/ SeeSignature \/ WriteBatch
           \/ KeepPage \/ ClearSlot \/ PageCleared \/ WriteFails \/ JoinAndClose
           \/ UNCHANGED vars
  <2>1. UNCHANGED <<pagesBack, storageBack, placed, laps, atStop, hazards>>
    BY <1>4 DEF CheckStopToken, LoadFrontPage, SeeSignature, WriteBatch, KeepPage,
                ClearSlot, PageCleared, WriteFails, JoinAndClose, vars, queueVars,
                stopVars, history
  <2> QED
    BY <2>1, TurnFrame
<1> QED
  BY <1>1, <1>2, <1>3, <1>4 DEF Next, Capture, Work

\* Without a CAS or a release out of turn the ring is filled in the order of the
\* file.
THEOREM TurnInvariance == Spec => []TurnInv
BY InitTurnInv, NextTurnInv, Invariance, RingInOrder, PTL DEF Spec

\* Places are given in the order of the fetch-adds, so events reach the file in
\* the order in which they reserved their slots, unless a reservation or a page
\* was taken in one of the four ways out of turn.
THEOREM ReservedInTurn == Spec => []InTurnUnlessHazard
<1>1. TurnInv => InTurnUnlessHazard
  BY DEF TurnInv, InTurnUnlessHazard
<1> QED
  BY <1>1, TurnInvariance, PTL

-----------------------------------------------------------------------------
(* The closed file.                                                        *)

\* A slot whose place lies in the file is one of those the file ends with.
LEMMA WrittenSlot ==
    ASSUME TypeOK, RingInv, NEW n \in 0 .. PageSize, Filled(n),
           NEW p \in Pages, NEW s \in Slots, Place(p, s) < Len(dump)
    PROVE  /\ p = pagesFront /\ s < n /\ signed[p][s]
           /\ Place(p, s) + 1 \in DOMAIN dump
           /\ dump[Place(p, s) + 1] = record[p][s]
<1>1. /\ pagesFront \in Pages /\ s \in 0 .. PageSize /\ s \in Nat /\ s < PageSize
      /\ PageSize \in Nat /\ n \in Nat /\ n <= PageSize
  BY PageSizeAssumption DEF TypeOK, QueueTypeOK, Slots
<1>2. PICK b, c \in Nat : b = Base(pagesFront) /\ c = Base(p)
  BY <1>1, PlaceOrder
<1>3. Place(p, s) = c + s /\ Len(dump) = b + n
  BY <1>1, <1>2, PlaceOrder DEF Filled
<1>4. p = pagesFront
  <2>1. SUFFICES ASSUME p # pagesFront PROVE FALSE
    OBVIOUS
  <2>2. b + PageSize <= c
    BY <1>2, <2>1, PlaceOrder
  <2> QED
    BY <1>1, <1>2, <1>3, <2>2
<1>5. b = c /\ s < n
  BY <1>1, <1>2, <1>3, <1>4
<1>6. signed[p][s] /\ dump[b + s + 1] = record[p][s]
  BY <1>2, <1>4, <1>5 DEF Filled
<1>7. Place(p, s) + 1 = b + s + 1 /\ b + s + 1 \in 1 .. Len(dump)
  BY <1>1, <1>2, <1>3, <1>5, SMTT(30)
<1>8. DOMAIN dump = 1 .. Len(dump)
  BY LenProperties DEF TypeOK, WorkerTypeOK
<1> QED
  BY <1>4, <1>5, <1>6, <1>7, <1>8

LEMMA EventNumber == TypeOK => \A e \in DOMAIN placed : e # NoEvent /\ placed[e] \in Nat
<1> SUFFICES ASSUME TypeOK, NEW e \in DOMAIN placed
             PROVE  e # NoEvent /\ placed[e] \in Nat
  OBVIOUS
<1>1. placed \in Seq(Nat) /\ e \in 1 .. Len(placed)
  BY LenProperties DEF TypeOK, HistoryTypeOK
<1> QED
  BY <1>1, ElementOfSeq DEF NoEvent

\* An event that nothing took and whose place lies in the file is in the file.
LEMMA ReachedIsDumped ==
    ASSUME TypeOK, RingInv, ReserveInv, FileInv, NothingVanishes,
           "window" \notin hazards, NEW e \in finalized, placed[e] < Len(dump)
    PROVE  e \in Dumped
<1>1. SUFFICES ASSUME e \notin Dumped PROVE FALSE
  OBVIOUS
<1>2. PICK p \in Pages, s \in Slots : placed[e] = Place(p, s) /\ record[p][s] = e
  BY <1>1 DEF NothingVanishes
<1>3. PICK n \in 0 .. PageSize : Filled(n)
  BY DEF FileInv
<1>4. Place(p, s) + 1 \in DOMAIN dump /\ dump[Place(p, s) + 1] = e
  BY <1>2, <1>3, WrittenSlot
<1>5. e # NoEvent
  BY EventNumber DEF ReserveInv, PlacedInv
<1> QED
  BY <1>1, <1>4, <1>5 DEF Dumped

LEMMA StoppedComplete ==
    ASSUME IInv, RingInv, ReserveInv, FileInv, StopInv, TurnInv, NothingVanishes
    PROVE  ClosedComplete
<1> USE DEF IInv
<1> SUFFICES ASSUME shutdown = "closed"
             PROVE  /\ Len(dump) \notin atStop.placed
                    /\ hazards = {} => atStop.finalized \subseteq Dumped
  BY DEF ClosedComplete
<1>1. Len(dump) \notin atStop.placed
  BY DoneAtStop DEF StopInv
<1>2. ASSUME hazards = {}, NEW e \in atStop.finalized
      PROVE  e \in Dumped
  <2>1. placed[e] \in atStop.placed /\ e \in finalized
    BY DEF StopInv
  <2>2. 0 .. placed[e] \subseteq atStop.placed
    BY <1>2, <2>1 DEF TurnInv
  <2>3. Len(dump) \notin 0 .. placed[e]
    BY <1>1, <2>2
  <2>4. Len(dump) \in Nat /\ placed[e] \in Nat
    BY <2>1, EventNumber, LenProperties DEF ReserveInv, PlacedInv, TypeOK, WorkerTypeOK
  <2>5. placed[e] < Len(dump)
    BY <2>3, <2>4
  <2> QED
    BY <1>2, <2>1, <2>5, ReachedIsDumped
<1> QED
  BY <1>1, <1>2

\* The file syan_shutdown closes lacks no event finalized before the stop, as
\* long as no reservation was out of turn; in any case it ends before the first
\* place that was free when the worker was told to stop.
THEOREM ClosedFileComplete == Spec => []ClosedComplete
BY StoppedComplete, Invariance, RingInOrder, PlacesReserved, FileFollowsRing,
   StopInvariance, TurnInvariance, FinalizedKept, PTL

-----------------------------------------------------------------------------
(* The queue implements the log.                                           *)

FinalPlaces == {placed[e] : e \in finalized}

\* A step that keeps every event's place and state keeps the spoiled places.
LEMMA SpoiledFrame ==
    ASSUME placed' = placed, \A e \in DOMAIN placed : Intact(e)' <=> Intact(e)
    PROVE  Spoiled' = Spoiled
BY DEF Spoiled

\* A thread in a slot stays there in a quiet step.
LEMMA QuietHolds ==
    ASSUME IInv, QuietStep, NEW u \in Threads
    PROVE  /\ pc[u] = "acquired" <=> pc'[u] = "acquired"
           /\ pc[u] = "acquired" => event'[u] = event[u]
<1>1. ASSUME NEW t \in Threads, LoadPagesBack(t) \/ PageFull(t) \/ AdvancePage(t)
      PROVE  /\ event' = event /\ pc[t] # "acquired"
             /\ \E v : pc' = [pc EXCEPT ![t] = v] /\ v # "acquired"
  BY <1>1 DEF LoadPagesBack, PageFull, AdvancePage
<1>2. CASE \E t \in Threads : LoadPagesBack(t) \/ PageFull(t) \/ AdvancePage(t)
  BY <1>1, <1>2 DEF IInv, TypeOK, ThreadTypeOK
<1>3. CASE \/ CheckStopToken \/ LoadFrontPage \/ SeeSignature \/ WriteBatch
           \/ WriteFails \/ KeepPage \/ PageCleared
           \/ StopWorker \/ JoinAndClose \/ UNCHANGED vars
  <2>1. UNCHANGED threadVars
    BY <1>3 DEF CheckStopToken, LoadFrontPage, SeeSignature, WriteBatch, WriteFails,
                KeepPage, PageCleared, StopWorker, JoinAndClose, vars
  <2> QED
    BY <2>1 DEF threadVars
<1> QED
  BY <1>2, <1>3 DEF QuietStep

\* A record that a step adds to the file comes from the slot of its event.
LEMMA DumpedFromSlot ==
    ASSUME IInv, RingInv, FileInv, FileInv', [Next]_vars,
           UNCHANGED <<pagesFront, laps, record, signed>>,
           NEW e \in Dumped', e \notin Dumped
    PROVE  \E p \in Pages, s \in Slots :
               placed'[e] = Place(p, s) /\ record[p][s] = e /\ signed[p][s]
<1> USE DEF IInv
<1>1. PICK k \in DOMAIN dump' : dump'[k] = e /\ e # NoEvent
  BY DEF Dumped
<1>2. k \notin DOMAIN dump
  BY <1>1, DumpGrows DEF Dumped
<1>3. PICK n \in 0 .. PageSize : Filled(n)
  BY DEF FileInv
<1>4. PICK m \in 0 .. PageSize : Filled(m)'
  BY DEF FileInv
<1>5. PICK f \in Pages : f = pagesFront
  BY DEF TypeOK, QueueTypeOK
<1>6. PICK b \in Nat : b = Base(f)
  BY PlaceOrder
<1>7. Base(pagesFront)' = b
  BY <1>5, <1>6, PlaceFrame
<1>8. /\ Len(dump) = b + n /\ Len(dump') = b + m
      /\ \A s \in Slots : s < m => signed[f][s] /\ dump'[b + s + 1] = record[f][s]
  BY <1>3, <1>4, <1>5, <1>6, <1>7 DEF Filled
<1>9. k \in 1 .. Len(dump') /\ k \notin 1 .. Len(dump)
  <2>1. DOMAIN dump = 1 .. Len(dump)
    BY LenProperties DEF TypeOK, WorkerTypeOK
  <2>2. DOMAIN dump' = 1 .. Len(dump')
    <3>1. dump' \in Seq(Nat)
      BY NextIInv DEF IInv, TypeOK, WorkerTypeOK
    <3> QED
      BY <3>1, LenProperties
  <2> QED
    BY <1>2, <2>1, <2>2
<1>10. PICK s \in Slots : s < m /\ k = b + s + 1
  <2>1. n \in Nat /\ m \in Nat /\ m <= PageSize /\ PageSize \in Nat /\ k \in Int
    BY <1>9, PageSizeAssumption
  <2>2. k - 1 - b \in Slots /\ k - 1 - b < m /\ k = b + (k - 1 - b) + 1
    BY <1>8, <1>9, <2>1 DEF Slots
  <2> QED
    BY <2>2
<1>11. record[f][s] = e /\ signed[f][s]
  BY <1>1, <1>8, <1>10
<1>12. placed'[e] = Place(f, s)
  <2>1. placed'[e] = k - 1
    BY <1>1 DEF FileInv, DumpByPlace
  <2>2. s \in 0 .. PageSize /\ s \in Nat
    BY PageSizeAssumption DEF Slots
  <2>3. Place(f, s) = b + s
    BY <1>6, <2>2, PlaceOrder
  <2> QED
    BY <1>10, <2>1, <2>2, <2>3
<1> QED
  BY <1>11, <1>12

LEMMA QuietSpoiled ==
    ASSUME IInv, RingInv, ReserveInv, FileInv, FileInv', QuietStep, [Next]_vars
    PROVE  Spoiled' = Spoiled
<1>1. /\ UNCHANGED <<placed, finalized, laps, pagesFront, record, signed>>
      /\ \A p, s : Place(p, s)' = Place(p, s)
  BY QuietFrame, PlaceFrame
<1>2. \A u \in Threads :
          /\ pc[u] = "acquired" <=> pc'[u] = "acquired"
          /\ pc[u] = "acquired" => event'[u] = event[u]
  BY QuietHolds
<1>3. Dumped \subseteq Dumped'
  BY DumpGrows
<1>4. \A e \in Dumped' : e \in Dumped \/
          \E p \in Pages, s \in Slots :
              placed[e] = Place(p, s) /\ record[p][s] = e /\ signed[p][s]
  BY <1>1, DumpedFromSlot
<1>5. \A e \in DOMAIN placed : Intact(e)' <=> Intact(e)
  BY <1>1, <1>2, <1>3, <1>4 DEF Intact
<1> QED
  BY <1>1, <1>5, SpoiledFrame

LEMMA AcquireSlotSpoiled ==
    ASSUME IInv, ReserveInv, NEW t \in Threads, AcquireSlot(t)
    PROVE  Spoiled' = Spoiled
<1>1. PICK p \in Pages, s \in Slots, n \in Nat : Reserves(t, p, s, n)
  BY AcquireSlotFacts
<1>2. /\ DOMAIN placed' = DOMAIN placed \cup {n} /\ n \notin DOMAIN placed
      /\ \A e \in DOMAIN placed : placed'[e] = placed[e]
      /\ UNCHANGED <<record, signed, dump, finalized, laps>>
      /\ event' = [event EXCEPT ![t] = n]
      /\ pc' = [pc EXCEPT ![t] = "acquired"]
  BY <1>1 DEF Reserves, workerVars
<1>3. /\ \A q, r : Place(q, r)' = Place(q, r)
      /\ Dumped' = Dumped /\ pc[t] = "loaded"
  BY <1>2, PlaceFrame DEF Dumped, AcquireSlot
<1>4. /\ event'[t] = n /\ pc'[t] = "acquired"
      /\ \A u \in Threads : u # t => event'[u] = event[u] /\ pc'[u] = pc[u]
  BY <1>2 DEF IInv, TypeOK, ThreadTypeOK
<1>5. Intact(n)'
  BY <1>4 DEF Intact
<1>6. ASSUME NEW e \in DOMAIN placed
      PROVE  Intact(e)' <=> Intact(e)
  <2>1. e # n /\ placed'[e] = placed[e]
    BY <1>2
  <2>2. (\E u \in Threads : event'[u] = e /\ pc'[u] = "acquired")
            <=> \E u \in Threads : event[u] = e /\ pc[u] = "acquired"
    BY <1>3, <1>4, <2>1
  <2>3. (\E q \in Pages, r \in Slots : /\ placed'[e] = Place(q, r)'
                                       /\ record'[q][r] = e
                                       /\ e \in finalized' => signed'[q][r])
            <=> \E q \in Pages, r \in Slots : /\ placed[e] = Place(q, r)
                                              /\ record[q][r] = e
                                              /\ e \in finalized => signed[q][r]
    BY <1>2, <1>3, <2>1
  <2> QED
    BY <1>3, <2>2, <2>3 DEF Intact
<1> QED
  BY <1>2, <1>5, <1>6 DEF Spoiled

LEMMA InitializeEventSpoiled ==
    ASSUME IInv, RingInv, ReserveInv, NEW t \in Threads, InitializeEvent(t)
    PROVE  Spoiled' = Spoiled
<1> USE DEF IInv
<1>1. /\ record' = [record EXCEPT ![page[t]][slot[t]] = event[t]]
      /\ pc' = [pc EXCEPT ![t] = "initialized"]
      /\ UNCHANGED <<placed, finalized, laps, signed, event, dump>>
      /\ pc[t] = "acquired" /\ Holds(t)
      /\ page[t] \in Pages /\ slot[t] \in Slots
  BY DEF InitializeEvent, Holds, workerVars, history, TypeOK, ThreadTypeOK
<1>2. PICK g \in DOMAIN placed, p \in Pages, s \in Slots :
          g = event[t] /\ p = page[t] /\ s = slot[t]
  BY <1>1 DEF ReserveInv, HolderInv
<1>3. placed[g] = Place(p, s) /\ g \notin finalized
  BY <1>1, <1>2 DEF ReserveInv, HolderInv
<1>4. (\A q, r : Place(q, r)' = Place(q, r)) /\ Dumped' = Dumped
  BY <1>1, PlaceFrame DEF Dumped
<1>5. /\ record'[p][s] = g
      /\ \A q \in Pages, r \in Slots :
             ~(q = p /\ r = s) => record'[q][r] = record[q][r]
  BY <1>1, <1>2 DEF TypeOK, QueueTypeOK
<1>6. Intact(g) /\ Intact(g)'
  <2>1. Intact(g)
    BY <1>1, <1>2 DEF Intact
  <2>2. placed'[g] = Place(p, s)' /\ record'[p][s] = g /\ g \notin finalized'
    BY <1>1, <1>3, <1>4, <1>5
  <2>3. Intact(g)'
    BY <2>2 DEF Intact
  <2> QED
    BY <2>1, <2>3
<1>7. ASSUME NEW e \in DOMAIN placed, e # g
      PROVE  Intact(e)' <=> Intact(e)
  <2>1. placed[e] # Place(p, s)
    BY <1>3, <1>7 DEF ReserveInv, PlacedInv
  <2>2. (\E u \in Threads : event'[u] = e /\ pc'[u] = "acquired")
            <=> \E u \in Threads : event[u] = e /\ pc[u] = "acquired"
    BY <1>1, <1>2, <1>7 DEF TypeOK, ThreadTypeOK
  <2>3. (\E q \in Pages, r \in Slots : /\ placed'[e] = Place(q, r)'
                                       /\ record'[q][r] = e
                                       /\ e \in finalized' => signed'[q][r])
            <=> \E q \in Pages, r \in Slots : /\ placed[e] = Place(q, r)
                                              /\ record[q][r] = e
                                              /\ e \in finalized => signed[q][r]
    BY <1>1, <1>4, <1>5, <2>1
  <2> QED
    BY <1>4, <2>2, <2>3 DEF Intact
<1> QED
  BY <1>1, <1>6, <1>7, SpoiledFrame

LEMMA FinalizeEventSpoiled ==
    ASSUME IInv, RingInv, ReserveInv, FileInv, NEW t \in Threads, FinalizeEvent(t)
    PROVE  Spoiled' = Spoiled
<1> USE DEF IInv
<1>1. /\ signed' = [signed EXCEPT ![page[t]][slot[t]] = TRUE]
      /\ finalized' = finalized \cup {event[t]}
      /\ pc' = [pc EXCEPT ![t] = "idle"]
      /\ UNCHANGED <<placed, laps, record, event, dump>>
      /\ pc[t] = "initialized" /\ Holds(t)
      /\ page[t] \in Pages /\ slot[t] \in Slots
  BY DEF FinalizeEvent, Holds, workerVars, TypeOK, ThreadTypeOK
<1>2. PICK g \in DOMAIN placed, p \in Pages, s \in Slots :
          g = event[t] /\ p = page[t] /\ s = slot[t]
  BY <1>1 DEF ReserveInv, HolderInv
<1>3. placed[g] = Place(p, s) /\ g \notin finalized
  BY <1>1, <1>2 DEF ReserveInv, HolderInv
<1>4. (\A q, r : Place(q, r)' = Place(q, r)) /\ Dumped' = Dumped
  BY <1>1, PlaceFrame DEF Dumped
<1>5. /\ signed'[p][s]
      /\ \A q \in Pages, r \in Slots :
             ~(q = p /\ r = s) => signed'[q][r] = signed[q][r]
  BY <1>1, <1>2 DEF TypeOK, QueueTypeOK
<1>6. \A u \in Threads : pc'[u] = "acquired" <=> pc[u] = "acquired"
  BY <1>1 DEF TypeOK, ThreadTypeOK
<1>7. Intact(g)' <=> Intact(g)
  <2>1. g \notin Dumped
    BY <1>3 DEF FileInv, DumpByPlace, Dumped
  <2>2. ASSUME NEW u \in Threads, event[u] = g, pc[u] = "acquired"
        PROVE  FALSE
    <3>1. Holds(u) /\ u # t /\ page[u] \in Pages /\ slot[u] \in Slots
      BY <1>1, <2>2 DEF Holds, TypeOK, ThreadTypeOK
    <3>2. Place(page[u], slot[u]) = Place(p, s)
      BY <1>3, <2>2, <3>1 DEF ReserveInv, HolderInv
    <3>3. page[u] = p /\ slot[u] = s
      BY <3>1, <3>2, PlaceInjective
    <3> QED
      BY <1>1, <1>2, <3>1, <3>3 DEF SlotInv, SlotExclusive
  <2>3. ASSUME NEW q \in Pages, NEW r \in Slots, placed[g] = Place(q, r)
        PROVE  q = p /\ r = s
    <3>1. Place(p, s) = Place(q, r)
      BY <1>3, <2>3
    <3> QED
      BY <3>1, PlaceInjective, Zenon
  <2> QED
    BY <1>1, <1>3, <1>4, <1>5, <1>6, <2>1, <2>2, <2>3 DEF Intact
<1>8. ASSUME NEW e \in DOMAIN placed, e # g
      PROVE  Intact(e)' <=> Intact(e)
  <2>1. placed[e] # Place(p, s)
    BY <1>3, <1>8 DEF ReserveInv, PlacedInv
  <2>2. e \in finalized' <=> e \in finalized
    BY <1>1, <1>2, <1>8
  <2>3. ASSUME NEW q \in Pages, NEW r \in Slots, placed[e] = Place(q, r)
        PROVE  signed'[q][r] = signed[q][r]
    BY <1>5, <2>1, <2>3
  <2>4. ASSUME NEW q \in Pages, NEW r \in Slots
        PROVE  (/\ placed'[e] = Place(q, r)'
                /\ record'[q][r] = e
                /\ e \in finalized' => signed'[q][r])
                   <=> (/\ placed[e] = Place(q, r)
                        /\ record[q][r] = e
                        /\ e \in finalized => signed[q][r])
    <3>1. CASE placed[e] = Place(q, r)
      <4>1. signed'[q][r] = signed[q][r]
        BY <2>3, <3>1
      <4> QED
        BY <1>1, <1>4, <2>2, <4>1
    <3>2. CASE placed[e] # Place(q, r)
      BY <1>1, <1>4, <3>2
    <3> QED
      BY <3>1, <3>2
  <2> QED
    BY <1>1, <1>4, <1>6, <2>4 DEF Intact
<1> QED
  BY <1>1, <1>7, <1>8, SpoiledFrame

\* What a released page held is in the file, and its new places are nobody's.
LEMMA ReleasePageSpoiled ==
    ASSUME IInv, RingInv, RingInv', ReserveInv, FileInv, FreshPlaces', ReleasePage
    PROVE  Spoiled' = Spoiled
<1> USE DEF IInv
<1>1. PICK f \in Pages : f = wpage
  BY DEF TypeOK, WorkerTypeOK
<1>2. /\ wpage = pagesFront /\ wback = PageSize
      /\ storageBack' = [storageBack EXCEPT ![f] = 0]
      /\ UNCHANGED <<placed, finalized, record, signed, pc, event, dump>>
      /\ \A q \in Pages : q # f => \A s : Place(q, s)' = Place(q, s)
  BY <1>1, ReleasePageFacts DEF threadVars
<1>3. Dumped' = Dumped /\ Placed' = Placed
  BY <1>2 DEF Dumped, Placed
<1>4. ASSUME NEW s \in Slots, NEW e \in DOMAIN placed,
             placed[e] = Place(f, s), record[f][s] = e
      PROVE  e \in Dumped
  <2>1. Filled(PageSize) /\ PageSize \in 0 .. PageSize
    BY <1>2, PageSizeAssumption DEF FileInv, ReleasePage
  <2>2. s \in Nat /\ s < PageSize /\ s \in 0 .. PageSize /\ PageSize \in Nat
    BY PageSizeAssumption DEF Slots
  <2>3. Place(f, s) = Base(f) + s /\ Base(f) \in Nat
    BY <2>2, PlaceOrder
  <2>4. Len(dump) = Base(f) + PageSize
    BY <1>1, <1>2, <2>1 DEF Filled
  <2>5. Place(f, s) < Len(dump)
    BY <2>2, <2>3, <2>4
  <2>6. Place(f, s) + 1 \in DOMAIN dump /\ dump[Place(f, s) + 1] = record[f][s]
    BY <2>1, <2>5, WrittenSlot
  <2> QED
    BY <1>4, <2>6, EventNumber DEF Dumped
<1>5. ASSUME NEW s \in Slots, NEW e \in DOMAIN placed
      PROVE  placed[e] # Place(f, s)'
  <2>1. s >= storageBack'[f]
    BY <1>2, PageSizeAssumption DEF TypeOK, QueueTypeOK, Slots
  <2>2. Place(f, s)' \notin Placed'
    BY <2>1 DEF FreshPlaces
  <2> QED
    BY <1>3, <2>2 DEF Placed
<1>6. ASSUME NEW e \in DOMAIN placed
      PROVE  Intact(e)' <=> Intact(e)
  BY <1>2, <1>3, <1>4, <1>5 DEF Intact
<1> QED
  BY <1>2, <1>6, SpoiledFrame

\* The memset takes at most one event, whose place is not written yet.
LEMMA ClearSlotSpoiled ==
    ASSUME IInv, RingInv, ReserveInv, FileInv, ClearSlot
    PROVE  \/ Spoiled' = Spoiled
           \/ \E x \in Placed \ Spoiled : x >= Len(dump) /\ Spoiled' = Spoiled \cup {x}
<1> USE DEF IInv
<1>1. PICK p \in Pages, s \in Slots :
          /\ p = wpage /\ s \in toClear
          /\ record' = [record EXCEPT ![p][s] = NoEvent]
          /\ signed' = [signed EXCEPT ![p][s] = FALSE]
  BY DEF ClearSlot, TypeOK, WorkerTypeOK
<1>2. /\ UNCHANGED <<placed, finalized, laps, pc, event, dump>>
      /\ wpc = "clear"
  BY DEF ClearSlot, threadVars, history
<1>3. (\A q, r : Place(q, r)' = Place(q, r)) /\ Dumped' = Dumped
  BY <1>2, PlaceFrame DEF Dumped
<1>4. /\ record'[p][s] = NoEvent
      /\ \A q \in Pages, r \in Slots : ~(q = p /\ r = s) =>
             record'[q][r] = record[q][r] /\ signed'[q][r] = signed[q][r]
  BY <1>1 DEF TypeOK, QueueTypeOK
<1>5. ASSUME NEW e \in DOMAIN placed, placed[e] # Place(p, s)
      PROVE  Intact(e)' <=> Intact(e)
  <2>1. (\E q \in Pages, r \in Slots : /\ placed'[e] = Place(q, r)'
                                       /\ record'[q][r] = e
                                       /\ e \in finalized' => signed'[q][r])
            <=> \E q \in Pages, r \in Slots : /\ placed[e] = Place(q, r)
                                              /\ record[q][r] = e
                                              /\ e \in finalized => signed[q][r]
    BY <1>2, <1>3, <1>4, <1>5
  <2> QED
    BY <1>2, <1>3, <2>1 DEF Intact
<1>6. ASSUME NEW e \in DOMAIN placed, Intact(e)'
      PROVE  Intact(e)
  <2>1. e # NoEvent
    BY EventNumber
  <2>2. (\E q \in Pages, r \in Slots : /\ placed'[e] = Place(q, r)'
                                       /\ record'[q][r] = e
                                       /\ e \in finalized' => signed'[q][r])
            => \E q \in Pages, r \in Slots : /\ placed[e] = Place(q, r)
                                             /\ record[q][r] = e
                                             /\ e \in finalized => signed[q][r]
    BY <1>2, <1>3, <1>4, <2>1
  <2> QED
    BY <1>2, <1>3, <1>6, <2>2 DEF Intact
<1>7. CASE \A e \in DOMAIN placed : placed[e] = Place(p, s) => (Intact(e)' <=> Intact(e))
  BY <1>2, <1>5, <1>7, SpoiledFrame
<1>8. CASE \E e \in DOMAIN placed : placed[e] = Place(p, s) /\ ~(Intact(e)' <=> Intact(e))
  <2>1. PICK g \in DOMAIN placed : placed[g] = Place(p, s) /\ ~(Intact(g)' <=> Intact(g))
    BY <1>8
  <2>2. Intact(g) /\ ~Intact(g)'
    BY <1>6, <2>1
  <2>3. \A e \in DOMAIN placed : placed[e] = Place(p, s) => e = g
    BY <2>1 DEF ReserveInv, PlacedInv
  <2>4. Place(p, s) \in Placed
    BY <2>1 DEF Placed
  <2>5. Place(p, s) \notin Spoiled
    BY <2>2, <2>3 DEF Spoiled
  <2>6. Spoiled' = Spoiled \cup {Place(p, s)}
    BY <1>2, <1>5, <2>1, <2>2, <2>3 DEF Spoiled
  <2>7. Place(p, s) >= Len(dump)
    <3>1. p # pagesFront
      BY <1>1, <1>2 DEF RingInv
    <3>2. PICK n \in 0 .. PageSize : Filled(n)
      BY DEF FileInv
    <3>3. Place(p, s) \in Nat /\ Len(dump) \in Nat
      BY PlaceType, LenProperties DEF TypeOK, WorkerTypeOK
    <3>4. ~(Place(p, s) < Len(dump))
      BY <3>1, <3>2, WrittenSlot
    <3> QED
      BY <3>3, <3>4
  <2> QED
    BY <2>4, <2>5, <2>6, <2>7
<1> QED
  BY <1>7, <1>8

\* A step that the log does not see.
LEMMA LogFrame ==
    ASSUME UNCHANGED <<placed, finalized, dump, shutdown, atStop>>, Spoiled' = Spoiled
    PROVE  UNCHANGED Log!vars
BY DEF Log!vars, Placed, Phase

\* The places that a call of fwrite covers are final.
LEMMA WritesFinal ==
    ASSUME IInv, RingInv, ReserveInv, FileInv, FileInv', WriteBatch \/ WriteFails
    PROVE  /\ Len(dump') \in Nat /\ Len(dump') >= Len(dump)
           /\ Len(dump) .. Len(dump') - 1 \subseteq FinalPlaces
<1> USE DEF IInv
<1>1. /\ UNCHANGED <<placed, finalized, laps, pagesFront, record, signed>>
      /\ wpc = "scan"
  BY DEF WriteBatch, WriteFails, queueVars, history
<1>2. PICK n \in 0 .. PageSize : Filled(n)
  BY DEF FileInv
<1>3. PICK m \in 0 .. PageSize : Filled(m)'
  BY DEF FileInv
<1>4. PICK f \in Pages : f = pagesFront
  BY DEF TypeOK, QueueTypeOK
<1>5. PICK b \in Nat : b = Base(f)
  BY PlaceOrder
<1>6. /\ Len(dump) = b + n /\ Len(dump') = b + m
      /\ \A s \in Slots : s < m => signed[f][s]
  <2>1. Base(pagesFront)' = b
    BY <1>1, <1>4, <1>5, PlaceFrame
  <2> QED
    BY <1>1, <1>2, <1>3, <1>4, <1>5, <2>1 DEF Filled
<1>7. Len(dump') >= Len(dump)
  <2>1. DOMAIN dump \subseteq DOMAIN dump' /\ dump \in Seq(Nat) /\ dump' \in Seq(Nat)
    BY DumpGrows, NextIInv DEF Next, Work, TypeOK, WorkerTypeOK
  <2>2. \A c, d \in Seq(Nat) : DOMAIN c \subseteq DOMAIN d => Len(d) >= Len(c)
    <3> SUFFICES ASSUME NEW c \in Seq(Nat), NEW d \in Seq(Nat), DOMAIN c \subseteq DOMAIN d
                 PROVE  Len(d) >= Len(c)
      OBVIOUS
    <3>1. /\ Len(c) \in Nat /\ Len(d) \in Nat
          /\ 1 .. Len(c) \subseteq 1 .. Len(d)
      BY LenProperties
    <3>2. Len(c) = 0 \/ Len(c) \in 1 .. Len(c)
      BY <3>1
    <3> QED
      BY <3>1, <3>2
  <2> QED
    BY <2>1, <2>2
<1>8. ASSUME NEW x \in Len(dump) .. Len(dump') - 1
      PROVE  x \in FinalPlaces
  <2>1. n \in Nat /\ m \in Nat /\ m <= PageSize /\ PageSize \in Nat
    BY PageSizeAssumption
  <2>2. PICK s \in Slots : s = x - b /\ s < m
    <3>1. x - b \in Slots /\ x - b < m
      BY <1>6, <2>1 DEF Slots
    <3> QED
      BY <3>1
  <2>3. Place(f, s) = x
    <3>1. s \in 0 .. PageSize /\ s \in Nat
      BY PageSizeAssumption DEF Slots
    <3>2. Place(f, s) = b + s
      BY <1>5, <3>1, PlaceOrder
    <3> QED
      BY <1>6, <2>1, <2>2, <3>2
  <2>4. signed[f][s] /\ ~Pending(f, s)
    BY <1>1, <1>6, <2>2 DEF Pending, ScanInv
  <2>5. PICK e \in finalized : placed[e] = Place(f, s)
    BY <2>4 DEF ReserveInv, SignedInv
  <2> QED
    BY <2>3, <2>5 DEF FinalPlaces
<1> QED
  BY <1>5, <1>6, <1>7, <1>8, PageSizeAssumption

LEMMA AcquireSlotLog ==
    ASSUME IInv, RingInv, ReserveInv, FileInv, Places = Nat,
           NEW t \in Threads, AcquireSlot(t)
    PROVE  Log!Next
<1> USE DEF IInv
<1>1. PICK p \in Pages, s \in Slots, n \in Nat : Reserves(t, p, s, n)
  BY AcquireSlotFacts
<1>2. /\ s = storageBack[p] /\ Place(p, s) \in Nat
      /\ Placed' = Placed \cup {Place(p, s)}
      /\ \A e \in DOMAIN placed : placed'[e] = placed[e]
      /\ UNCHANGED <<finalized, dump, shutdown, atStop>>
  BY <1>1 DEF Reserves, workerVars, stopVars
<1>3. Place(p, s) \notin Placed
  <2>1. s >= storageBack[p]
    BY <1>2, PageSizeAssumption DEF Slots
  <2> QED
    BY <2>1, AllFresh DEF FreshPlaces
<1>4. Place(p, s) >= Len(dump)
  <2>1. PICK n1 \in 0 .. PageSize : Filled(n1)
    BY DEF FileInv
  <2>2. ASSUME Place(p, s) < Len(dump) PROVE FALSE
    <3>1. p = pagesFront /\ s < n1
      BY <2>1, <2>2, WrittenSlot
    <3>2. n1 <= storageBack[pagesFront]
      BY <2>1 DEF Filled
    <3> QED
      BY <1>2, <3>1, <3>2, PageSizeAssumption DEF Slots
  <2>3. Len(dump) \in Nat
    BY LenProperties DEF TypeOK, WorkerTypeOK
  <2> QED
    BY <1>2, <2>2, <2>3
<1>5. {placed[e] : e \in finalized}' = {placed[e] : e \in finalized}
  BY <1>2 DEF ReserveInv, PlacedInv
<1>6. Spoiled' = Spoiled
  BY AcquireSlotSpoiled
<1>7. Log!Reserve(Place(p, s))
  BY <1>2, <1>3, <1>4, <1>5, <1>6 DEF Log!Reserve, Phase
<1> QED
  BY <1>2, <1>7 DEF Log!Next

LEMMA FinalizeEventLog ==
    ASSUME IInv, RingInv, ReserveInv, FileInv, Places = Nat,
           NEW t \in Threads, FinalizeEvent(t)
    PROVE  Log!Next
<1> USE DEF IInv
<1>1. /\ finalized' = finalized \cup {event[t]}
      /\ UNCHANGED <<placed, dump, shutdown, atStop>>
      /\ Holds(t)
  BY DEF FinalizeEvent, Holds, workerVars, stopVars
<1>2. PICK g \in DOMAIN placed : g = event[t] /\ g \notin finalized
  BY <1>1 DEF ReserveInv, HolderInv
<1>3. PICK x \in Nat : x = placed[g] /\ x \in Placed
  BY EventNumber DEF Placed
<1>4. x \notin {placed[e] : e \in finalized}
  BY <1>2, <1>3 DEF ReserveInv, PlacedInv
<1>5. {placed[e] : e \in finalized}' = {placed[e] : e \in finalized} \cup {x}
  BY <1>1, <1>2, <1>3
<1>6. Spoiled' = Spoiled /\ Placed' = Placed
  BY <1>1, FinalizeEventSpoiled DEF Placed
<1>7. Log!Finalize(x)
  BY <1>1, <1>3, <1>4, <1>5, <1>6 DEF Log!Finalize, Phase
<1> QED
  BY <1>7 DEF Log!Next

LEMMA WriteLog ==
    ASSUME IInv, RingInv, ReserveInv, FileInv, FileInv', StopInv, Places = Nat,
           WriteBatch \/ WriteFails
    PROVE  Log!Next
<1>1. /\ UNCHANGED <<placed, finalized, atStop>>
      /\ wpc = "scan"
  BY DEF WriteBatch, WriteFails, stopVars, history
<1>2. shutdown \in {"running", "joining"}
  BY <1>1 DEF StopInv, IInv, TypeOK, StopTypeOK
<1>3. Phase \in {"open", "stopping"}
  BY <1>2 DEF Phase
<1>4. Spoiled' = Spoiled
  BY QuietSpoiled DEF QuietStep, Next, Work
<1>5. PICK n \in Nat : /\ n = Len(dump') /\ n >= Len(dump)
                       /\ Len(dump) .. n - 1 \subseteq FinalPlaces
  BY WritesFinal
<1>6. Log!Writable(n)
  BY <1>5 DEF Log!Writable, FinalPlaces
<1>7. CASE WriteBatch
  <2>1. shutdown' = shutdown
    BY <1>7 DEF WriteBatch, stopVars
  <2>2. Log!Write(n)
    BY <1>1, <1>3, <1>4, <1>5, <1>6, <2>1 DEF Log!Write, Phase, Placed
  <2> QED
    BY <2>2 DEF Log!Next
<1>8. CASE WriteFails
  <2>1. Phase' = "failed"
    BY <1>8 DEF WriteFails, Phase
  <2>2. Log!Fail(n)
    BY <1>1, <1>3, <1>4, <1>5, <1>6, <2>1 DEF Log!Fail, Placed
  <2> QED
    BY <2>2 DEF Log!Next
<1> QED
  BY <1>7, <1>8

LEMMA ShutdownLog ==
    ASSUME IInv, RingInv, ReserveInv, FileInv, FileInv', StopInv,
           StopWorker \/ JoinAndClose
    PROVE  Log!Next
<1>1. UNCHANGED <<placed, finalized, dump>>
  BY DEF StopWorker, JoinAndClose, workerVars, history
<1>2. Spoiled' = Spoiled
  BY QuietSpoiled DEF QuietStep, Next
<1>3. CASE StopWorker
  <2>1. Phase = "open" /\ Phase' = "stopping" /\ atStop'.placed = Placed
    BY <1>3 DEF StopWorker, Phase
  <2>2. Log!Stop
    BY <1>1, <1>2, <2>1 DEF Log!Stop, Placed
  <2> QED
    BY <2>2 DEF Log!Next
<1>4. CASE JoinAndClose
  <2>1. Phase = "stopping" /\ Phase' = "closed" /\ atStop' = atStop /\ wpc = "done"
    BY <1>4 DEF JoinAndClose, Phase
  <2>2. Len(dump) \notin atStop.placed
    BY <2>1, DoneAtStop
  <2>3. Log!Close
    BY <1>1, <1>2, <2>1, <2>2 DEF Log!Close, Placed
  <2> QED
    BY <2>3 DEF Log!Next
<1> QED
  BY <1>3, <1>4

LEMMA ClearSlotLog ==
    ASSUME IInv, RingInv, ReserveInv, FileInv, Places = Nat, ClearSlot
    PROVE  Log!Next \/ UNCHANGED Log!vars
<1>1. UNCHANGED <<placed, finalized, dump, shutdown, atStop>>
  BY DEF ClearSlot, stopVars, history
<1>2. CASE Spoiled' = Spoiled
  BY <1>1, <1>2, LogFrame
<1>3. ASSUME NEW x \in Placed \ Spoiled, x >= Len(dump), Spoiled' = Spoiled \cup {x}
      PROVE  Log!Next
  <2>1. x \in Nat
    BY EventNumber DEF IInv, Placed
  <2>2. Log!Spoil(x)
    BY <1>1, <1>3 DEF Log!Spoil, Placed, Phase
  <2> QED
    BY <2>1, <2>2 DEF Log!Next
<1> QED
  BY <1>2, <1>3, ClearSlotSpoiled

\* A step of the queue is one step of the log or none.
LEMMA NextLog ==
    ASSUME IInv, RingInv, RingInv', ReserveInv, FileInv, FileInv', FreshPlaces',
           StopInv, Places = Nat, [Next]_vars
    PROVE  [Log!Next]_(Log!vars)
<1>1. CASE WriteBatch \/ WriteFails \/ StopWorker \/ JoinAndClose
  BY <1>1, WriteLog, ShutdownLog
<1>2. ASSUME QuietStep, ~(WriteBatch \/ WriteFails \/ StopWorker \/ JoinAndClose)
      PROVE  UNCHANGED Log!vars
  <2>1. UNCHANGED <<placed, finalized, dump, shutdown, atStop>>
    BY <1>2 DEF QuietStep, LoadPagesBack, PageFull, AdvancePage, CheckStopToken,
                LoadFrontPage, SeeSignature, KeepPage, PageCleared, vars, workerVars,
                stopVars, history
  <2> QED
    BY <1>2, <2>1, QuietSpoiled, LogFrame
<1>3. ASSUME NEW t \in Threads, AcquireSlot(t) \/ FinalizeEvent(t)
      PROVE  Log!Next
  BY <1>3, AcquireSlotLog, FinalizeEventLog
<1>4. ASSUME NEW t \in Threads, InitializeEvent(t)
      PROVE  UNCHANGED Log!vars
  <2>1. UNCHANGED <<placed, finalized, dump, shutdown, atStop>>
    BY <1>4 DEF InitializeEvent, workerVars, stopVars, history
  <2> QED
    BY <1>4, <2>1, InitializeEventSpoiled, LogFrame
<1>5. CASE ReleasePage
  <2>1. UNCHANGED <<placed, finalized, dump, shutdown, atStop>>
    BY <1>5 DEF ReleasePage, stopVars
  <2> QED
    BY <1>5, <2>1, ReleasePageSpoiled, LogFrame
<1>6. CASE ClearSlot
  BY <1>6, ClearSlotLog
<1> QED
  BY <1>1, <1>2, <1>3, <1>4, <1>5, <1>6, StepCases

LEMMA InitLog == Init => Log!Init
<1> SUFFICES ASSUME Init PROVE Log!Init
  OBVIOUS
<1>1. DOMAIN placed = {} /\ Len(dump) = 0
  BY DEF Init
<1>2. Placed = {} /\ Spoiled = {}
  BY <1>1 DEF Placed, Spoiled
<1> QED
  BY <1>1, <1>2 DEF Init, Log!Init, Phase

\* The lock-free ring implements the log: every fetch-add that gets a slot
\* reserves a fresh place after the end of the file, every fwrite extends the
\* file by finalized places only and without a gap, a release of a page changes
\* nothing, and only the memset can spoil a place, one not written yet. Places
\* is any set TLC can enumerate there; here it is all of Nat.
THEOREM QueueImplementsLog ==
    ASSUME Places = Nat
    PROVE  Spec => ImplementsLog
<1>1. TypeOK /\ RingInv /\ ReserveInv => FreshPlaces
  BY AllFresh
<1>2. IInv => TypeOK
  BY DEF IInv
<1>3. /\ IInv /\ RingInv /\ RingInv' /\ ReserveInv /\ FileInv /\ FileInv'
      /\ FreshPlaces' /\ StopInv /\ [Next]_vars
      => [Log!Next]_(Log!vars)
  BY NextLog
<1> QED
  BY <1>1, <1>2, <1>3, InitLog, Invariance, RingInOrder, PlacesReserved,
     FileFollowsRing, StopInvariance, PTL DEF Spec, ImplementsLog, Log!Spec

=============================================================================
