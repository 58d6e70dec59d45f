----------------------------- MODULE EventQueues -----------------------------
(***************************************************************************)
(* What an event chain execution thread promises of the events it is given:*)
(* external events are queued in the order they arrive, move to the queue  *)
(* of events to deliver, and leave it one by one, oldest first; none is    *)
(* duplicated, none overtakes another. Each queue has a capacity; the      *)
(* entry that comes when it is full jams it, and a jammed queue loses      *)
(* whatever arrives, but still hands out what it holds.                    *)
(***************************************************************************)
EXTENDS Integers, Sequences

CONSTANTS Event, Capacity, ExternalCapacity

VARIABLES events, external, jammed, externalJammed, cleared

vars == <<events, external, jammed, externalJammed, cleared>>

Init == /\ events = <<>> /\ external = <<>>
        /\ jammed = FALSE /\ externalJammed = FALSE /\ cleared = FALSE

(* add e to the queue q of capacity cap whose jam flag is jam *)
Enqueue(q, jam, cap, e) ==
  /\ q' = IF ~jam /\ Len(q) < cap THEN Append(q, e) ELSE q
  /\ jam' = (jam \/ Len(q) = cap)

(* a handler starts an event chain *)
Start(e) ==
  /\ Enqueue(external, externalJammed, ExternalCapacity, e)
  /\ UNCHANGED <<events, jammed, cleared>>

(* the oldest external event becomes an event to deliver *)
Transfer ==
  /\ external # <<>>
  /\ external' = Tail(external)
  /\ Enqueue(events, jammed, Capacity, Head(external))
  /\ UNCHANGED <<externalJammed, cleared>>

(* an executing function block sends an event *)
Send(e) ==
  /\ Enqueue(events, jammed, Capacity, e)
  /\ UNCHANGED <<external, externalJammed, cleared>>

(* the oldest event has been delivered *)
Deliver ==
  /\ events # <<>>
  /\ events' = Tail(events)
  /\ UNCHANGED <<external, jammed, externalJammed, cleared>>

(* a Kill clears both queues; nothing is promised of them after it *)
Clear ==
  /\ events' = <<>> /\ external' = <<>>
  /\ jammed' = FALSE /\ externalJammed' = FALSE /\ cleared' = TRUE

Next ==
  /\ ~cleared
  /\ \/ \E e \in Event : Start(e) \/ Send(e)
     \/ Transfer \/ Deliver \/ Clear

Spec == Init /\ [][Next]_vars
=============================================================================
