------------------------- MODULE EventChainRefinement -------------------------
(* The event chain execution thread implements the two queues of           *)
(* EventQueues, for rings of any length. Read from its oldest entry to its *)
(* end a ring is a queue: adding appends, removing takes the head away.    *)
EXTENDS EventChainProofs, Sequences, SequenceTheorems

Entry == Event \cup {NoEvent}

(* the slot d places after slot s; Depth is its inverse *)
SlotAt(n, s, d) == IF d <= s THEN s - d ELSE s - d + n

LEMMA DepthOfSlot ==
  ASSUME NEW n \in Nat, n > 1, NEW s \in Slots(n), NEW d \in Slots(n)
  PROVE  /\ SlotAt(n, s, d) \in Slots(n)
         /\ (CHOOSE i \in Slots(n) : Depth(n, s, i) = d) = SlotAt(n, s, d)
<1>1. SlotAt(n, s, d) \in Slots(n) /\ Depth(n, s, SlotAt(n, s, d)) = d
  BY DEF SlotAt, Depth, Slots
<1>2. \A i \in Slots(n) : Depth(n, s, i) = d => i = SlotAt(n, s, d)
  BY DEF SlotAt, Depth, Slots
<1> QED BY <1>1, <1>2

(* The queue a ring stands for, entry by entry.                            *)
LEMMA ContentsProperties ==
  ASSUME NEW n \in Nat, n > 1, NEW r \in Ring(n)
  PROVE  /\ Length(n, r) \in Slots(n)
         /\ Contents(n, r) \in Seq(Entry)
         /\ Len(Contents(n, r)) = Length(n, r)
         /\ \A k \in 1 .. Length(n, r) :
              Contents(n, r)[k] = r.slot[SlotAt(n, r.start, k - 1)]
<1>0. r.end \in Slots(n) /\ r.start \in Slots(n) /\ r.slot \in [Slots(n) -> Entry]
  BY DEF Ring, Entry
<1>1. Length(n, r) \in Slots(n)
  BY <1>0 DEF Length, Depth, Slots
<1>2. Length(n, r) \in Nat /\ \A k \in 1 .. Length(n, r) : k - 1 \in Slots(n)
  BY <1>1 DEF Slots
<1>3. ASSUME NEW k \in 1 .. Length(n, r)
      PROVE  /\ Contents(n, r)[k] = r.slot[SlotAt(n, r.start, k - 1)]
             /\ Contents(n, r)[k] \in Entry
  <2>1. Contents(n, r)[k] = r.slot[CHOOSE i \in Slots(n) : Depth(n, r.start, i) = k - 1]
    BY Zenon DEF Contents
  <2>2. k - 1 \in Slots(n)
    BY <1>2
  <2>3. /\ SlotAt(n, r.start, k - 1) \in Slots(n)
        /\ (CHOOSE i \in Slots(n) : Depth(n, r.start, i) = k - 1) = SlotAt(n, r.start, k - 1)
    BY <1>0, <2>2, DepthOfSlot, Zenon
  <2> QED BY <1>0, <2>1, <2>3
<1>4. Contents(n, r) \in [1 .. Length(n, r) -> Entry]
  BY <1>3 DEF Contents
<1>5. Contents(n, r) \in Seq(Entry) /\ Len(Contents(n, r)) = Length(n, r)
  BY <1>2, <1>4
<1> QED BY <1>1, <1>3, <1>5

(* Two rings with the same pointers and the same queued slots.             *)
LEMMA SameContents ==
  ASSUME NEW n \in Nat, n > 1, NEW r \in Ring(n), NEW q \in Ring(n),
         q.start = r.start, q.end = r.end,
         \A i \in Slots(n) : i # r.end => q.slot[i] = r.slot[i]
  PROVE  Contents(n, q) = Contents(n, r)
<1>0. r.end \in Slots(n) /\ r.start \in Slots(n)
  BY DEF Ring
<1>1. Length(n, q) = Length(n, r)
  BY DEF Length
<1>2. \A k \in 1 .. Length(n, r) : q.slot[SlotAt(n, r.start, k - 1)] = r.slot[SlotAt(n, r.start, k - 1)]
  <2> SUFFICES ASSUME NEW k \in 1 .. Length(n, r)
               PROVE  SlotAt(n, r.start, k - 1) \in Slots(n) \ {r.end}
    OBVIOUS
  <2> QED BY <1>0 DEF SlotAt, Slots, Length, Depth
<1> QED
  BY <1>1, <1>2, ContentsProperties, SeqEqual

(* A ring is idle when its queue is empty, and only then.                  *)
LEMMA IdleIsEmpty ==
  ASSUME NEW n \in Nat, n > 1, NEW r \in Ring(n)
  PROVE  Idle(r) <=> Contents(n, r) = <<>>
<1>1. Idle(r) <=> Length(n, r) = 0
  BY DEF Ring, Idle, Length, Depth, Slots
<1>2. Contents(n, r) = <<>> <=> Len(Contents(n, r)) = 0
  BY ContentsProperties, EmptySeq
<1> QED BY <1>1, <1>2, ContentsProperties

(* The entry that is written at end is not yet queued.                     *)
LEMMA WriteContents ==
  ASSUME NEW n \in Nat, n > 1, NEW r \in Ring(n), NEW e \in Event
  PROVE  Contents(n, Write(r, e)) = Contents(n, r)
<1>1. \A i \in Slots(n) : i # r.end => Write(r, e).slot[i] = r.slot[i]
  BY DEF Write, Ring
<1> QED BY <1>1, WriteInOrder, SameContents

(* Moving the end pointer over it appends it, unless the queue holds one   *)
(* entry less than the ring has slots; then the ring is full.              *)
LEMMA AdvanceContents ==
  ASSUME NEW n \in Nat, n > 1, NEW r \in Ring(n), WellFormed(n, r), Refuses(r)
  PROVE  /\ Contents(n, Advance(n, r)) =
              IF Len(Contents(n, r)) < n - 1 THEN Append(Contents(n, r), r.slot[r.end])
                                             ELSE Contents(n, r)
         /\ Refuses(Advance(n, r)) <=> Len(Contents(n, r)) = n - 1
         /\ Len(Contents(n, r)) <= n - 1
<1>0. r.end \in Slots(n) /\ r.start \in Slots(n) /\ r.slot \in [Slots(n) -> Entry]
  BY DEF Ring, Entry
<1>1. Length(n, r) \in 0 .. n - 1 /\ Len(Contents(n, r)) = Length(n, r)
  BY ContentsProperties DEF Slots
<1>2. Prev(n, r.end) = r.start <=> Length(n, r) = n - 1
  BY <1>0 DEF Prev, Length, Depth, Slots
<1>3. CASE Prev(n, r.end) = r.start
  BY <1>1, <1>2, <1>3 DEF Advance
<1>4. CASE Prev(n, r.end) # r.start
  <2> DEFINE q == Advance(n, r)
  <2>1. /\ q \in Ring(n) /\ q.start = r.start /\ q.end = Prev(n, r.end) /\ q.slot = r.slot
    BY <1>4, AdvanceInOrder DEF Advance, Ring
  <2>2. Length(n, q) = Length(n, r) + 1
    BY <1>0, <1>4, <2>1 DEF Length, Depth, Prev, Slots
  <2>3. SlotAt(n, r.start, Length(n, r)) = r.end
    BY <1>0 DEF Length, Depth, SlotAt, Slots
  <2> HIDE DEF q
  <2>4. \A k \in 1 .. Length(n, r) + 1 :
          Contents(n, q)[k] = Append(Contents(n, r), r.slot[r.end])[k]
    <3> SUFFICES ASSUME NEW k \in 1 .. Length(n, r) + 1
                 PROVE  Contents(n, q)[k] = Append(Contents(n, r), r.slot[r.end])[k]
      OBVIOUS
    <3>1. Contents(n, q)[k] = r.slot[SlotAt(n, r.start, k - 1)]
      BY <2>1, <2>2, ContentsProperties
    <3>2. CASE k = Length(n, r) + 1
      BY <3>1, <3>2, <2>3, <1>0, <1>1, ContentsProperties
    <3>3. CASE k \in 1 .. Length(n, r)
      BY <3>1, <3>3, <1>0, <1>1, ContentsProperties
    <3> QED BY <3>2, <3>3, <1>1
  <2>5. Append(Contents(n, r), r.slot[r.end]) \in Seq(Entry)
        /\ Len(Append(Contents(n, r), r.slot[r.end])) = Length(n, r) + 1
    BY <1>0, <1>1, ContentsProperties
  <2>6. Contents(n, q) = Append(Contents(n, r), r.slot[r.end])
    BY <2>1, <2>2, <2>4, <2>5, ContentsProperties, SeqEqual
  <2>7. ~Refuses(q)
    <3>1. Prev(n, r.end) \in Slots(n) /\ Prev(n, r.end) # r.end
      BY <1>0, PrevType
    <3>2. Depth(n, r.start, Prev(n, r.end)) = Length(n, r) + 1
      BY <2>1, <2>2 DEF Length
    <3> QED BY <3>1, <3>2, <1>1, <2>1 DEF WellFormed, Refuses
  <2> QED BY <1>1, <1>2, <1>4, <2>6, <2>7 DEF q
<1> QED BY <1>3, <1>4

(* Removing the first entry leaves the tail, and room only where it was.   *)
LEMMA RemoveFirstContents ==
  ASSUME NEW n \in Nat, n > 1, NEW r \in Ring(n), ~Idle(r)
  PROVE  /\ Contents(n, RemoveFirst(n, r)) = Tail(Contents(n, r))
         /\ Head(Contents(n, r)) = r.slot[r.start]
         /\ Refuses(RemoveFirst(n, r)) <=> Refuses(r)
<1> DEFINE q == RemoveFirst(n, r)
           c == Contents(n, r)
<1>0. r.end \in Slots(n) /\ r.start \in Slots(n) /\ r.slot \in [Slots(n) -> Entry]
  BY DEF Ring, Entry
<1>1. /\ q \in Ring(n) /\ q.start = Prev(n, r.start) /\ q.end = r.end
      /\ q.slot = [r.slot EXCEPT ![r.start] = NoEvent]
  BY <1>0, RemoveFirstInOrder DEF RemoveFirst, Ring
<1>2. Length(n, q) = Length(n, r) - 1 /\ Length(n, r) \in Slots(n) /\ Length(n, r) > 0
  <2>1. /\ Length(n, q) = Depth(n, Prev(n, r.start), r.end) /\ r.start # r.end
        /\ Length(n, r) = Depth(n, r.start, r.end)
    BY <1>1 DEF Length, Idle
  <2>2. CASE r.start = 0
    BY <1>0, <2>1, <2>2 DEF Depth, Prev, Slots
  <2>3. CASE r.start > 0
    BY <1>0, <2>1, <2>3 DEF Depth, Prev, Slots
  <2> QED BY <1>0, <2>2, <2>3 DEF Slots
<1>3. c # <<>> /\ c \in Seq(Entry) /\ Len(c) = Length(n, r)
  BY IdleIsEmpty, ContentsProperties
<1> HIDE DEF q
<1>4. ASSUME NEW k \in 1 .. Length(n, r) - 1
      PROVE  Contents(n, q)[k] = c[k + 1]
  <2>0. k \in 1 .. Length(n, q)
    BY <1>2, <1>4
  <2>1. Contents(n, q)[k] = q.slot[SlotAt(n, Prev(n, r.start), k - 1)]
    <3>1. \A j \in 1 .. Length(n, q) : Contents(n, q)[j] = q.slot[SlotAt(n, q.start, j - 1)]
      BY <1>1, ContentsProperties
    <3> QED BY <1>1, <2>0, <3>1, Zenon
  <2>2. /\ SlotAt(n, Prev(n, r.start), k - 1) = SlotAt(n, r.start, k)
        /\ SlotAt(n, r.start, k) \in Slots(n) \ {r.start}
    <3>1. k \in 1 .. n - 1
      BY <1>2, <1>4 DEF Slots
    <3>2. CASE r.start = 0
      BY <1>0, <3>1, <3>2 DEF SlotAt, Prev, Slots
    <3>3. CASE r.start > 0
      BY <1>0, <3>1, <3>3 DEF SlotAt, Prev, Slots
    <3> QED BY <1>0, <3>2, <3>3 DEF Slots
  <2>3. k + 1 \in 1 .. Length(n, r) /\ (k + 1) - 1 = k
    BY <1>2, <1>4 DEF Slots
  <2>4. c[k + 1] = r.slot[SlotAt(n, r.start, k)]
    BY <2>3, ContentsProperties
  <2> QED BY <1>0, <1>1, <2>1, <2>2, <2>4
<1>5. /\ Tail(c) \in Seq(Entry) /\ Len(Tail(c)) = Length(n, r) - 1
      /\ \A k \in 1 .. Length(n, r) - 1 : Tail(c)[k] = c[k + 1]
  BY <1>3, HeadTailProperties
<1>6. Contents(n, q) = Tail(c)
  BY <1>1, <1>2, <1>4, <1>5, ContentsProperties, SeqEqual
<1>7. Head(c) = r.slot[r.start]
  <2>1. c[1] = r.slot[SlotAt(n, r.start, 0)]
    BY <1>2, ContentsProperties DEF Slots
  <2>2. SlotAt(n, r.start, 0) = r.start
    BY <1>0 DEF SlotAt, Slots
  <2> QED BY <2>1, <2>2, <1>3
<1>8. Refuses(q) <=> Refuses(r)
  BY <1>0, <1>1 DEF Refuses, Idle
<1> QED BY <1>6, <1>7, <1>8 DEF q

(* The four values the queues' state is read from.                         *)
Queued == Contents(EventListSize, eventList)
QueuedExternal == Contents(ExternalEventListSize, externalList)
Jammed == Refuses(eventList)
ExternalJammed == Refuses(externalList) /\ sync \notin Handler

LEMMA MappedInit == Init => Queues!Init
<1> SUFFICES ASSUME Init PROVE Queues!Init
  OBVIOUS
<1>1. /\ Contents(EventListSize, eventList) = <<>> /\ ~Refuses(eventList)
      /\ Contents(ExternalEventListSize, externalList) = <<>> /\ ~Refuses(externalList)
  BY EmptyRingInOrder, IdleIsEmpty, SizeAssumption DEF Init
<1> QED BY <1>1 DEF Init, Queues!Init

(* After a Kill, and while nothing of the four changes, the queues stand.  *)
LEMMA Stands ==
  ASSUME killed' = killed,
         killed \/ (/\ Queued' = Queued /\ QueuedExternal' = QueuedExternal
                    /\ Jammed' = Jammed /\ ExternalJammed' = ExternalJammed)
  PROVE  UNCHANGED Queues!vars
<1>1. CASE killed
  BY <1>1, Zenon DEF Queues!vars
<1>2. CASE ~killed
  BY <1>2, Zenon DEF Queues!vars, Queued, QueuedExternal, Jammed, ExternalJammed
<1> QED BY <1>1, <1>2

(* addEventEntry() enqueues.                                               *)
LEMMA AddEnqueues ==
  ASSUME Inv, ~killed, NEW e \in Event, eventList' = Add(EventListSize, eventList, e)
  PROVE  /\ Queued' = IF ~Jammed /\ Len(Queued) < EventListSize - 1
                      THEN Append(Queued, e) ELSE Queued
         /\ Jammed' = (Jammed \/ Len(Queued) = EventListSize - 1)
<1>0. eventList \in Ring(EventListSize) /\ WellFormed(EventListSize, eventList)
  BY DEF Inv, TypeOK, EventListContiguous
<1>1. CASE Refuses(eventList)
  BY <1>1 DEF Add, Queued, Jammed
<1>2. CASE ~Refuses(eventList)
  <2> DEFINE r == Write(eventList, e)
  <2>1. /\ r \in Ring(EventListSize) /\ WellFormed(EventListSize, r) /\ Refuses(r)
        /\ Contents(EventListSize, r) = Contents(EventListSize, eventList)
        /\ r.slot[r.end] = e
    BY <1>0, WriteInOrder, WriteContents, SizeAssumption DEF Write, Ring
  <2>2. eventList' = Advance(EventListSize, r)
    BY <1>2 DEF Add
  <2> HIDE DEF r
  <2>3. /\ Contents(EventListSize, eventList') =
             IF Len(Contents(EventListSize, r)) < EventListSize - 1
             THEN Append(Contents(EventListSize, r), r.slot[r.end])
             ELSE Contents(EventListSize, r)
        /\ Refuses(eventList') <=> Len(Contents(EventListSize, r)) = EventListSize - 1
    BY <2>1, <2>2, AdvanceContents, SizeAssumption
  <2>4. Contents(EventListSize, r) = Queued /\ ~Jammed
    BY <1>2, <2>1 DEF Queued, Jammed
  <2>5. /\ Queued' = IF Len(Queued) < EventListSize - 1 THEN Append(Queued, e) ELSE Queued
        /\ Jammed' <=> Len(Queued) = EventListSize - 1
    BY <2>1, <2>3, <2>4 DEF Queued, Jammed
  <2> QED BY <2>4, <2>5, Zenon
<1> QED BY <1>1, <1>2

LEMMA HandlerImplements ==
  ASSUME Inv, NEW h \in Handler,
         Chain(h) \/ \E e \in Event : StartEventChain(h, e)
  PROVE  [Queues!Next]_(Queues!vars)
<1>0. /\ externalList \in Ring(ExternalEventListSize)
      /\ WellFormed(ExternalEventListSize, externalList)
      /\ externalList.slot \in [Slots(ExternalEventListSize) -> Entry]
      /\ externalList.end \in Slots(ExternalEventListSize)
  BY DEF Inv, TypeOK, ExternalListContiguous, Ring, Entry
<1>1. ASSUME NEW e \in Event, StartEventChain(h, e)
      PROVE  UNCHANGED Queues!vars
  <2>0. UNCHANGED <<eventList, killed>>
    BY <1>1 DEF StartEventChain, managerVars
  <2>1. CASE Refuses(externalList)
    BY <1>1, <2>0, <2>1, Stands DEF StartEventChain, Queued, QueuedExternal, Jammed, ExternalJammed
  <2>2. CASE ~Refuses(externalList)
    <3>1. QueuedExternal' = QueuedExternal
      BY <1>0, <1>1, <2>2, WriteContents, SizeAssumption DEF StartEventChain, QueuedExternal
    <3>2. ~ExternalJammed /\ ~ExternalJammed'
      BY <1>1, <2>2 DEF StartEventChain, ExternalJammed
    <3>3. Queued' = Queued /\ Jammed' = Jammed
      BY <2>0 DEF Queued, Jammed
    <3>4. ExternalJammed' = ExternalJammed
      BY <3>2, Zenon DEF ExternalJammed
    <3> QED BY <2>0, <3>1, <3>3, <3>4, Stands
  <2> QED BY <2>1, <2>2
<1>2. ASSUME AdvanceExternalEnd(h)
      PROVE  [Queues!Next]_(Queues!vars)
  <2>0. UNCHANGED <<eventList, killed>> /\ sync' = Nobody /\ Nobody \notin Handler
    BY <1>2, ThreadAssumption DEF AdvanceExternalEnd, managerVars
  <2>1. Refuses(externalList) /\ sync = h
    BY <1>2 DEF AdvanceExternalEnd, Inv, MutualExclusion
  <2>2. PICK e \in Event : e = externalList.slot[externalList.end]
    BY <1>0, <2>1 DEF Refuses, Entry
  <2>3. /\ QueuedExternal' = IF Len(QueuedExternal) < ExternalEventListSize - 1
                             THEN Append(QueuedExternal, e) ELSE QueuedExternal
        /\ ExternalJammed' <=> Len(QueuedExternal) = ExternalEventListSize - 1
        /\ ~ExternalJammed
    BY <1>0, <1>2, <2>0, <2>1, <2>2, AdvanceContents, SizeAssumption
       DEF AdvanceExternalEnd, QueuedExternal, ExternalJammed
  <2>4. CASE killed
    BY <2>0, <2>4, Stands
  <2>5. CASE ~killed
    <3>1. Queues!Start(e)
      BY <2>0, <2>3, <2>5 DEF Queues!Start, Queues!Enqueue, QueuedExternal, ExternalJammed
    <3> QED BY <2>2, <2>5, <3>1 DEF Queues!Next
  <2> QED BY <2>4, <2>5
<1>3. ASSUME SetProcessing(h) \/ ResumeSelfSuspend(h)
      PROVE  UNCHANGED Queues!vars
  <2>1. UNCHANGED <<eventList, externalList, sync, killed>>
    BY <1>3 DEF SetProcessing, ResumeSelfSuspend, managerVars
  <2> QED BY <2>1, Stands DEF Queued, QueuedExternal, Jammed, ExternalJammed
<1> QED BY <1>1, <1>2, <1>3 DEF Chain

LEMMA RunImplements ==
  ASSUME Inv, Run PROVE [Queues!Next]_(Queues!vars)
<1>1. ASSUME EnterRun \/ TestAlive \/ ExternalEventOccured \/ BecomeIdle \/ ReceiveInputEvent
             \/ ExecutionDone \/ SelfSuspend \/ Woken \/ LeaveRun
      PROVE  UNCHANGED Queues!vars
  <2>1. UNCHANGED <<eventList, externalList, sync, killed>>
    BY <1>1 DEF EnterRun, TestAlive, ExternalEventOccured, BecomeIdle, ReceiveInputEvent,
       ExecutionDone, SelfSuspend, Woken, LeaveRun, managerVars
  <2> QED BY <2>1, Stands DEF Queued, QueuedExternal, Jammed, ExternalJammed
<1>2. ASSUME AcquireSync \/ TransferDone
      PROVE  UNCHANGED Queues!vars
  <2>1. UNCHANGED <<eventList, externalList, killed>>
    BY <1>2 DEF AcquireSync, TransferDone, managerVars
  <2>2. sync \notin Handler /\ sync' \notin Handler
    BY <1>2, ThreadAssumption DEF AcquireSync, TransferDone, Inv, MutualExclusion
  <2> QED BY <2>1, <2>2, Stands DEF Queued, QueuedExternal, Jammed, ExternalJammed
<1>3. ASSUME TransferExternalEvent
      PROVE  [Queues!Next]_(Queues!vars)
  <2> DEFINE e == externalList.slot[externalList.start]
  <2>0. UNCHANGED <<sync, killed>> /\ ~Idle(externalList)
    BY <1>3 DEF TransferExternalEvent, managerVars
  <2>1. externalList \in Ring(ExternalEventListSize) /\ e \in Event
    BY <2>0, FirstIsEntry, SizeAssumption DEF Inv, TypeOK, ExternalListContiguous
  <2>2. /\ QueuedExternal # <<>> /\ QueuedExternal' = Tail(QueuedExternal)
        /\ e = Head(QueuedExternal) /\ ExternalJammed' = ExternalJammed
    BY <1>3, <2>0, <2>1, IdleIsEmpty, RemoveFirstContents, SizeAssumption
       DEF TransferExternalEvent, QueuedExternal, ExternalJammed
  <2>3. CASE killed
    BY <2>0, <2>3, Stands
  <2>4. CASE ~killed
    <3>1. eventList' = Add(EventListSize, eventList, e)
      BY <1>3 DEF TransferExternalEvent
    <3>2. /\ Queued' = IF ~Jammed /\ Len(Queued) < EventListSize - 1
                       THEN Append(Queued, e) ELSE Queued
          /\ Jammed' = (Jammed \/ Len(Queued) = EventListSize - 1)
      BY <2>1, <2>4, <3>1, AddEnqueues
    <3>3. Queues!Transfer
      BY <2>0, <2>2, <2>4, <3>2 DEF Queues!Transfer, Queues!Enqueue, Queued, QueuedExternal,
         Jammed, ExternalJammed
    <3> QED BY <2>4, <3>3 DEF Queues!Next
  <2> QED BY <2>3, <2>4
<1>4. ASSUME RemoveDelivered
      PROVE  [Queues!Next]_(Queues!vars)
  <2>0. UNCHANGED <<externalList, sync, killed>>
    BY <1>4 DEF RemoveDelivered, managerVars
  <2>1. CASE killed
    BY <2>0, <2>1, Stands
  <2>2. CASE ~killed
    <3>1. eventList \in Ring(EventListSize) /\ ~Idle(eventList)
      BY <1>4, <2>2 DEF RemoveDelivered, Inv, TypeOK
    <3>2. eventList' = RemoveFirst(EventListSize, eventList)
      BY <1>4 DEF RemoveDelivered
    <3>3. Queued # <<>>
      BY <3>1, IdleIsEmpty, SizeAssumption DEF Queued
    <3>4. Queued' = Tail(Queued) /\ Jammed' = Jammed
      <4>1. /\ Contents(EventListSize, eventList') = Tail(Contents(EventListSize, eventList))
            /\ Refuses(eventList') <=> Refuses(eventList)
        BY <3>1, <3>2, RemoveFirstContents, SizeAssumption
      <4> QED BY <4>1, Zenon DEF Queued, Jammed, Refuses
    <3>5. Queues!Deliver
      BY <2>0, <2>2, <3>3, <3>4 DEF Queues!Deliver, Queued, Jammed
    <3> QED BY <2>2, <3>5 DEF Queues!Next
  <2> QED BY <2>1, <2>2
<1> QED BY <1>1, <1>2, <1>3, <1>4 DEF Run

LEMMA AddEventEntryImplements ==
  ASSUME Inv, NEW e \in Event, AddEventEntry(e) PROVE [Queues!Next]_(Queues!vars)
<1>0. UNCHANGED <<externalList, sync, killed>>
  BY DEF AddEventEntry, managerVars
<1>1. CASE killed
  BY <1>0, <1>1, Stands
<1>2. CASE ~killed
  <2>1. /\ Queued' = IF ~Jammed /\ Len(Queued) < EventListSize - 1
                     THEN Append(Queued, e) ELSE Queued
        /\ Jammed' = (Jammed \/ Len(Queued) = EventListSize - 1)
    BY <1>2, AddEnqueues DEF AddEventEntry
  <2>2. Queues!Send(e)
    BY <1>0, <1>2, <2>1 DEF Queues!Send, Queues!Enqueue, Queued, Jammed
  <2> QED BY <1>2, <2>2 DEF Queues!Next
<1> QED BY <1>1, <1>2

LEMMA ManagerImplements ==
  ASSUME Inv, Command \/ Carry PROVE [Queues!Next]_(Queues!vars)
<1>1. ASSUME Command \/ ClearAlive \/ WakeForStop
      PROVE  UNCHANGED Queues!vars
  <2>1. UNCHANGED <<eventList, externalList, sync, killed>>
    BY <1>1 DEF Command, CommandStart, CommandStop, CommandKill, CommandReset,
       ClearAlive, WakeForStop
  <2> QED BY <2>1, Stands DEF Queued, QueuedExternal, Jammed, ExternalJammed
<1>2. ASSUME ClearEventList
      PROVE  [Queues!Next]_(Queues!vars)
  <2>1. killed'
    BY <1>2 DEF ClearEventList
  <2>2. CASE killed
    BY <2>1, <2>2, Stands, Zenon DEF Inv, TypeOK
  <2>3. CASE ~killed
    <3>1. Queues!Clear
      BY <2>1 DEF Queues!Clear
    <3> QED BY <2>3, <3>1 DEF Queues!Next
  <2> QED BY <2>2, <2>3
<1>3. ASSUME ClearExternalList
      PROVE  UNCHANGED Queues!vars
  <2>1. killed /\ killed' = killed
    BY <1>3 DEF ClearExternalList, Inv
  <2> QED BY <2>1, Stands
<1> QED BY <1>1, <1>2, <1>3 DEF Carry

LEMMA StutterImplements ==
  ASSUME UNCHANGED vars PROVE UNCHANGED Queues!vars
<1>1. UNCHANGED <<eventList, externalList, sync, killed>>
  BY DEF vars, managerVars
<1> QED BY <1>1, Stands DEF Queued, QueuedExternal, Jammed, ExternalJammed

(* Whatever handlers, function blocks and commands do, and wherever they   *)
(* interrupt each other: no event is duplicated or reordered, and none is  *)
(* lost but when a queue of one entry less than the ring's slots is full,  *)
(* and after that for ever, until a Kill clears both rings.                *)
THEOREM QueuesImplemented == Spec => ImplementsEventQueues
<1>1. Init => Queues!Init
  BY MappedInit
<1>2. Inv /\ [Next]_vars => [Queues!Next]_(Queues!vars)
  BY HandlerImplements, RunImplements, AddEventEntryImplements, ManagerImplements,
     StutterImplements, EventAssumption DEF Next
<1> QED BY <1>1, <1>2, InvHolds, PTL DEF Spec, ImplementsEventQueues, Queues!Spec
=============================================================================
