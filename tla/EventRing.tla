------------------------------ MODULE EventRing ------------------------------
(***************************************************************************)
(* The ring buffer CEventChainExecutionThread uses twice, for mEventList   *)
(* and for mExternalEventList: an array of entry pointers filled from its  *)
(* last slot downwards, with a pointer to the oldest entry (start) and a   *)
(* pointer to the slot the next entry goes to (end).                       *)
(* start = end is the code's test for "nothing to do"; a slot that is not  *)
(* 0 at end is its test for "full".                                        *)
(***************************************************************************)
EXTENDS Integers

CONSTANTS
  Event,     \* the event entries (destination FB and input) that may be queued
  NoEvent    \* the null pointer of an unused slot

ASSUME NoEventAssumption == NoEvent \notin Event

Slots(n) == 0 .. (n - 1)

(* every ring the type allows; n is the length of the array *)
Ring(n) == [slot : [Slots(n) -> Event \cup {NoEvent}],
            start : Slots(n), end : Slots(n)]

(* the slot after i, with the wrap from the first slot to the last *)
PrevWrapsToLength(n, i) == IF i = 0 THEN n ELSE i - 1   \* mutant: off by one
Prev(n, i) == IF i = 0 THEN n - 1 ELSE i - 1

EmptyRing(n) == [slot |-> [i \in Slots(n) |-> NoEvent],
                 start |-> n - 1, end |-> n - 1]

Idle(r) == r.start = r.end

Refuses(r) == r.slot[r.end] # NoEvent

Write(r, e) == [r EXCEPT !.slot[r.end] = e]

AdvanceAlways(n, r) == [r EXCEPT !.end = Prev(n, r.end)]   \* mutant: no test for room

(* mutant: gives up one slot too early *)
AdvanceOneShort(n, r) ==
  IF r.start \notin {Prev(n, r.end), Prev(n, Prev(n, r.end))}
  THEN [r EXCEPT !.end = Prev(n, r.end)] ELSE r

(* the end pointer stays where it is when moving it would reach start *)
Advance(n, r) ==
  IF Prev(n, r.end) # r.start THEN [r EXCEPT !.end = Prev(n, r.end)] ELSE r

Add(n, r, e) == IF Refuses(r) THEN r ELSE Advance(n, Write(r, e))

RemoveWithoutReset(n, r) == [r EXCEPT !.start = Prev(n, r.start)]   \* mutant

RemoveFirst(n, r) ==
  [r EXCEPT !.slot[r.start] = NoEvent, !.start = Prev(n, r.start)]

-----------------------------------------------------------------------------
(* Reading a ring as a queue: the definitions below describe it, the code  *)
(* has no counterpart of them.                                             *)

(* how many slots lie from slot s down to slot i, wrapping *)
Depth(n, s, i) == IF i <= s THEN s - i ELSE s - i + n

Length(n, r) == Depth(n, r.start, r.end)

(* the queued entries, oldest first *)
Contents(n, r) ==
  [k \in 1 .. Length(n, r) |->
     r.slot[CHOOSE i \in Slots(n) : Depth(n, r.start, i) = k - 1]]

(* the slots in use are exactly those from start down to end; nothing is   *)
(* said of the slot at end itself, which a full ring fills                 *)
WellFormed(n, r) ==
  \A i \in Slots(n) : i # r.end =>
     (r.slot[i] # NoEvent <=> Depth(n, r.start, i) < Length(n, r))
=============================================================================
