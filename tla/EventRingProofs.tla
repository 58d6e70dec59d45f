--------------------------- MODULE EventRingProofs ---------------------------
(* Lemmas about the ring buffer: every operation keeps a ring of length n  *)
(* a ring of length n, and keeps its entries contiguous.                   *)
EXTENDS EventRing, TLAPS

(* The wrap stays inside the array (ecet.cpp:44-50 and 94-100).            *)
LEMMA PrevType ==
  ASSUME NEW n \in Nat, n > 1, NEW i \in Slots(n)
  PROVE  Prev(n, i) \in Slots(n) /\ Prev(n, i) # i
BY DEF Slots, Prev

(* A cleared ring, CEventChainExecutionThread::clear(), is in order.       *)
LEMMA EmptyRingInOrder ==
  ASSUME NEW n \in Nat, n > 1
  PROVE  /\ EmptyRing(n) \in Ring(n)
         /\ WellFormed(n, EmptyRing(n))
         /\ Idle(EmptyRing(n))
         /\ ~Refuses(EmptyRing(n))
BY DEF EmptyRing, Ring, Slots, WellFormed, Idle, Refuses, Depth, Length

(* Storing an entry at end disturbs no other slot and no pointer.          *)
LEMMA WriteInOrder ==
  ASSUME NEW n \in Nat, n > 1, NEW r \in Ring(n), NEW e \in Event
  PROVE  /\ Write(r, e) \in Ring(n)
         /\ Write(r, e).start = r.start /\ Write(r, e).end = r.end
         /\ Refuses(Write(r, e))
         /\ WellFormed(n, r) => WellFormed(n, Write(r, e))
<1>1. Write(r, e) \in Ring(n)
  BY DEF Write, Ring
<1>2. /\ Write(r, e).start = r.start /\ Write(r, e).end = r.end
      /\ Write(r, e).slot = [r.slot EXCEPT ![r.end] = e]
  BY DEF Write, Ring
<1>3. Refuses(Write(r, e))
  BY <1>2, NoEventAssumption DEF Refuses, Ring
<1>4. ASSUME WellFormed(n, r)
      PROVE  WellFormed(n, Write(r, e))
  BY <1>2, <1>4 DEF WellFormed, Length, Ring
<1> QED BY <1>1, <1>2, <1>3, <1>4

(* Moving the end pointer over a stored entry makes that entry the last of *)
(* the queue, and never makes a queue look empty.                          *)
LEMMA AdvanceInOrder ==
  ASSUME NEW n \in Nat, n > 1, NEW r \in Ring(n)
  PROVE  /\ Advance(n, r) \in Ring(n)
         /\ Advance(n, r).start = r.start
         /\ ~Idle(Advance(n, r))
         /\ WellFormed(n, r) /\ Refuses(r) => WellFormed(n, Advance(n, r))
<1>0. r.end \in Slots(n) /\ r.start \in Slots(n)
  BY DEF Ring
<1>1. CASE Prev(n, r.end) # r.start
  <2>1. /\ Advance(n, r) \in Ring(n)
        /\ Advance(n, r).start = r.start
        /\ Advance(n, r).end = Prev(n, r.end)
        /\ Advance(n, r).slot = r.slot
    BY <1>1, <1>0, PrevType DEF Advance, Ring
  <2>2. ~Idle(Advance(n, r))
    BY <1>1, <2>1 DEF Idle
  <2>3. ASSUME WellFormed(n, r), Refuses(r), NEW i \in Slots(n), i # Prev(n, r.end)
        PROVE  r.slot[i] # NoEvent <=>
                 Depth(n, r.start, i) < Depth(n, r.start, Prev(n, r.end))
    <3>1. Depth(n, r.start, Prev(n, r.end)) = Depth(n, r.start, r.end) + 1
      BY <1>0, <1>1 DEF Depth, Prev, Slots
    <3>2. CASE i = r.end
      BY <3>1, <3>2, <2>3, <1>0 DEF Refuses, Depth, Slots
    <3>3. CASE i # r.end
      <4>1. Depth(n, r.start, i) # Depth(n, r.start, r.end)
        BY <3>3, <1>0, <2>3 DEF Depth, Slots
      <4>2. Depth(n, r.start, i) \in Int /\ Depth(n, r.start, r.end) \in Int
        BY <1>0, <2>3 DEF Depth, Slots
      <4>3. r.slot[i] # NoEvent <=> Depth(n, r.start, i) < Depth(n, r.start, r.end)
        BY <3>3, <2>3 DEF WellFormed, Length
      <4> QED BY <3>1, <4>1, <4>2, <4>3
    <3> QED BY <3>2, <3>3
  <2> QED BY <2>1, <2>2, <2>3 DEF WellFormed, Length
<1>2. CASE Prev(n, r.end) = r.start
  <2>1. Advance(n, r) = r
    BY <1>2 DEF Advance
  <2>2. ~Idle(r)
    BY <1>2, <1>0, PrevType DEF Idle
  <2> QED BY <2>1, <2>2
<1> QED BY <1>1, <1>2

(* addEventEntry() keeps the ring in order, full or not.                   *)
LEMMA AddInOrder ==
  ASSUME NEW n \in Nat, n > 1, NEW r \in Ring(n), NEW e \in Event
  PROVE  /\ Add(n, r, e) \in Ring(n)
         /\ Add(n, r, e).start = r.start
         /\ ~Idle(r) => ~Idle(Add(n, r, e))
         /\ WellFormed(n, r) => WellFormed(n, Add(n, r, e))
BY WriteInOrder, AdvanceInOrder DEF Add

(* Removing the oldest entry of a queue that is not empty keeps it in      *)
(* order, whether or not the ring is full.                                 *)
LEMMA RemoveFirstInOrder ==
  ASSUME NEW n \in Nat, n > 1, NEW r \in Ring(n)
  PROVE  /\ RemoveFirst(n, r) \in Ring(n)
         /\ WellFormed(n, r) /\ ~Idle(r) => WellFormed(n, RemoveFirst(n, r))
<1>0. r.end \in Slots(n) /\ r.start \in Slots(n)
  BY DEF Ring
<1>1. /\ RemoveFirst(n, r) \in Ring(n)
      /\ RemoveFirst(n, r).start = Prev(n, r.start)
      /\ RemoveFirst(n, r).end = r.end
      /\ RemoveFirst(n, r).slot = [r.slot EXCEPT ![r.start] = NoEvent]
  BY <1>0, PrevType DEF RemoveFirst, Ring
<1>2. ASSUME WellFormed(n, r), ~Idle(r), NEW i \in Slots(n), i # r.end
      PROVE  RemoveFirst(n, r).slot[i] # NoEvent <=>
               Depth(n, Prev(n, r.start), i) < Depth(n, Prev(n, r.start), r.end)
  <2>1. Depth(n, Prev(n, r.start), r.end) = Depth(n, r.start, r.end) - 1
    BY <1>0, <1>2 DEF Depth, Prev, Slots, Idle
  <2>2. CASE i = r.start
    <3>1. RemoveFirst(n, r).slot[i] = NoEvent
      BY <1>1, <2>2 DEF Ring
    <3>2. Depth(n, Prev(n, r.start), i) = n - 1
      BY <2>2, <1>0 DEF Depth, Prev, Slots
    <3>3. Depth(n, r.start, r.end) - 1 <= n - 1 /\ Depth(n, r.start, r.end) \in Int
      BY <1>0 DEF Depth, Slots
    <3> QED BY <2>1, <3>1, <3>2, <3>3
  <2>3. CASE i # r.start
    <3>1. RemoveFirst(n, r).slot[i] = r.slot[i]
      BY <1>1, <2>3 DEF Ring
    <3>2. Depth(n, Prev(n, r.start), i) = Depth(n, r.start, i) - 1
      BY <2>3, <1>0 DEF Depth, Prev, Slots
    <3>3. r.slot[i] # NoEvent <=> Depth(n, r.start, i) < Depth(n, r.start, r.end)
      BY <1>2 DEF WellFormed, Length
    <3>4. Depth(n, r.start, i) \in Int /\ Depth(n, r.start, r.end) \in Int
      BY <1>0 DEF Depth, Slots
    <3> QED BY <2>1, <3>1, <3>2, <3>3, <3>4
  <2> QED BY <2>2, <2>3
<1> QED BY <1>1, <1>2 DEF WellFormed, Length

(* While a ring in order has anything between start and end, its first     *)
(* slot holds an entry.                                                    *)
LEMMA FirstIsEntry ==
  ASSUME NEW n \in Nat, n > 1, NEW r \in Ring(n), WellFormed(n, r), ~Idle(r)
  PROVE  r.slot[r.start] \in Event
<1>0. r.end \in Slots(n) /\ r.start \in Slots(n) /\ r.slot[r.start] \in Event \cup {NoEvent}
  BY DEF Ring
<1>1. Depth(n, r.start, r.start) < Depth(n, r.start, r.end)
  BY <1>0 DEF Depth, Slots, Idle
<1> QED BY <1>0, <1>1 DEF WellFormed, Length, Idle
=============================================================================
