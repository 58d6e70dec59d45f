--------------------------- MODULE EventChainProofs ---------------------------
(* Theorems about the event chain execution thread, for rings of any       *)
(* length, any number of handlers and events and any fan-out. They rest on *)
(* the inductive invariant Inv of EventChain.                              *)
EXTENDS EventChain, EventRingProofs

LEMMA InitInv == Init => Inv
<1> SUFFICES ASSUME Init PROVE Inv
  OBVIOUS
<1> USE DEF Init
<1>1. /\ eventList \in Ring(EventListSize) /\ WellFormed(EventListSize, eventList)
      /\ externalList \in Ring(ExternalEventListSize)
      /\ WellFormed(ExternalEventListSize, externalList)
      /\ Idle(externalList)
  BY EmptyRingInOrder, SizeAssumption
<1>2. TypeOK
  <2>1. processing \in BOOLEAN /\ alive \in BOOLEAN /\ handle \in BOOLEAN /\ killed \in BOOLEAN
    BY Zenon
  <2>2. handler \in [Handler -> HandlerValues]
    BY DEF HandlerValues
  <2> QED
    BY <1>1, <2>1, <2>2, BoundAssumption DEF TypeOK, PcValues, ManagerValues, FBStates
<1>3. MutualExclusion
  BY ThreadAssumption DEF MutualExclusion
<1> QED
  BY <1>1, <1>2, <1>3 DEF Inv, ExternalListContiguous, EventListContiguous

(* Every outcome of a clear() that races with run() is still a ring.       *)
LEMMA RacedClearType ==
  ASSUME TypeOK PROVE RacedClear \subseteq Ring(EventListSize)
<1>1. EmptyRing(EventListSize) \in Ring(EventListSize)
  BY EmptyRingInOrder, SizeAssumption
<1>2. /\ Prev(EventListSize, eventList.start) \in Slots(EventListSize)
      /\ Prev(EventListSize, eventList.end) \in Slots(EventListSize)
      /\ eventList.end \in Slots(EventListSize)
  BY PrevType, SizeAssumption DEF TypeOK, Ring
<1>3. \A e \in Event : [EmptyRing(EventListSize).slot EXCEPT ![eventList.end] = e]
                          \in [Slots(EventListSize) -> Event \cup {NoEvent}]
  BY <1>1, <1>2 DEF Ring
<1> QED BY <1>1, <1>2, <1>3 DEF RacedClear, Ring

LEMMA HandlerStep ==
  ASSUME Inv, NEW h \in Handler,
         Chain(h) \/ \E e \in Event : StartEventChain(h, e)
  PROVE  Inv'
<1> USE SizeAssumption, BoundAssumption, ThreadAssumption
<1>0. TypeOK /\ MutualExclusion
  BY DEF Inv
<1>1. ASSUME NEW e \in Event, StartEventChain(h, e)
      PROVE  Inv'
  <2>1. CASE Refuses(externalList)
    <3>1. TypeOK'
      BY <1>0, <1>1, <2>1 DEF StartEventChain, threadVars, managerVars, TypeOK, HandlerValues
    <3>2. MutualExclusion'
      BY <1>0, <1>1, <2>1 DEF StartEventChain, threadVars, managerVars, TypeOK, MutualExclusion
    <3> QED
      BY <3>1, <3>2, <1>0, <1>1, <2>1 DEF StartEventChain, threadVars, managerVars, TypeOK,
         Inv, ExternalListContiguous, EventListContiguous, HandlerWillPost
  <2>2. CASE ~Refuses(externalList)
    <3>0. /\ externalList' = Write(externalList, e)
          /\ externalList' \in Ring(ExternalEventListSize)
          /\ Idle(externalList') <=> Idle(externalList)
          /\ Refuses(externalList')
          /\ WellFormed(ExternalEventListSize, externalList')
      BY <1>0, <1>1, <2>2, WriteInOrder
         DEF StartEventChain, Inv, ExternalListContiguous, TypeOK, Idle
    <3>1. TypeOK'
      BY <3>0, <1>0, <1>1, <2>2 DEF StartEventChain, threadVars, managerVars, TypeOK, HandlerValues
    <3>2. MutualExclusion'
      BY <1>0, <1>1, <2>2 DEF StartEventChain, threadVars, managerVars, TypeOK, MutualExclusion
    <3> QED
      BY <3>0, <3>1, <3>2, <1>0, <1>1, <2>2 DEF StartEventChain, threadVars, managerVars, TypeOK,
         Inv, ExternalListContiguous, EventListContiguous, HandlerWillPost
  <2> QED BY <2>1, <2>2
<1>2. ASSUME AdvanceExternalEnd(h)
      PROVE  Inv'
  <2>0. /\ externalList' \in Ring(ExternalEventListSize)
        /\ WellFormed(ExternalEventListSize, externalList')
    BY <1>0, <1>2, AdvanceInOrder DEF AdvanceExternalEnd, Inv, ExternalListContiguous, TypeOK
  <2>1. TypeOK'
    BY <2>0, <1>0, <1>2 DEF AdvanceExternalEnd, threadVars, managerVars, TypeOK, HandlerValues
  <2>2. MutualExclusion'
    BY <1>0, <1>2 DEF AdvanceExternalEnd, threadVars, managerVars, TypeOK, MutualExclusion
  <2>3. HandlerWillPost'
    BY <1>0, <1>2 DEF AdvanceExternalEnd, TypeOK, HandlerWillPost
  <2>4. \A g \in Handler : handler'[g] # "advance"
    BY <1>0, <1>2 DEF AdvanceExternalEnd, TypeOK, MutualExclusion
  <2> QED
    BY <2>0, <2>1, <2>2, <2>3, <2>4, <1>2 DEF AdvanceExternalEnd, threadVars, managerVars,
       Inv, ExternalListContiguous, EventListContiguous
<1>3. ASSUME SetProcessing(h)
      PROVE  Inv'
  BY <1>0, <1>3 DEF SetProcessing, threadVars, managerVars, Inv, TypeOK, HandlerValues,
     MutualExclusion, ExternalListContiguous, EventListContiguous, HandlerWillPost
<1>4. ASSUME ResumeSelfSuspend(h)
      PROVE  Inv'
  <2>1. semaphore' \in 0 .. SemBound /\ semaphore' > 0
    BY <1>0, <1>4 DEF ResumeSelfSuspend, Post, TypeOK
  <2> QED
    BY <2>1, <1>0, <1>4 DEF ResumeSelfSuspend, threadVars, managerVars, Inv, TypeOK,
       HandlerValues, MutualExclusion, ExternalListContiguous, EventListContiguous
<1> QED BY <1>1, <1>2, <1>3, <1>4 DEF Chain

LEMMA RunStep ==
  ASSUME Inv, Run PROVE Inv'
<1> USE SizeAssumption, BoundAssumption, ThreadAssumption
<1>0. TypeOK /\ MutualExclusion
  BY DEF Inv
(* the steps that change neither a ring nor the mutex *)
<1>1. ASSUME EnterRun \/ TestAlive \/ ExternalEventOccured \/ BecomeIdle \/ ReceiveInputEvent
             \/ ExecutionDone \/ SelfSuspend \/ Woken \/ LeaveRun
      PROVE  Inv'
  <2>0. /\ UNCHANGED <<eventList, externalList, sync, handler, manager, fbState, killed, handle>>
        /\ pc # "transfer" /\ pc' # "transfer"
    BY <1>1 DEF EnterRun, TestAlive, ExternalEventOccured, BecomeIdle, ReceiveInputEvent,
       ExecutionDone, SelfSuspend, Woken, LeaveRun, Goto, managerVars
  <2>1. TypeOK'
    <3>1. processing' \in BOOLEAN /\ alive' \in BOOLEAN
      <4>1. processing \in BOOLEAN /\ alive \in BOOLEAN
        BY <1>0, Zenon DEF TypeOK
      <4> QED
        BY <4>1, <1>1, Zenon DEF EnterRun, TestAlive, ExternalEventOccured, BecomeIdle,
           ReceiveInputEvent, ExecutionDone, SelfSuspend, Woken, LeaveRun, Goto
    <3>2. pc' \in PcValues /\ fanout' \in 0 .. MaxFanout /\ semaphore' \in 0 .. SemBound
      BY <1>0, <1>1 DEF EnterRun, TestAlive, ExternalEventOccured, BecomeIdle, ReceiveInputEvent,
         ExecutionDone, SelfSuspend, Woken, LeaveRun, Goto, TypeOK, PcValues
    <3> QED BY <3>1, <3>2, <2>0, <1>0 DEF TypeOK
  <2>2. MutualExclusion'
    BY <2>0, <1>0 DEF MutualExclusion
  <2>3. pc' \in {"test", "suspend"} /\ ~Idle(externalList) => semaphore' > 0 \/ HandlerWillPost
    BY <1>1 DEF Inv, EnterRun, TestAlive, ExternalEventOccured, BecomeIdle, ReceiveInputEvent,
       ExecutionDone, SelfSuspend, Woken, LeaveRun, Goto
  <2>4. pc' \in {"poll", "acquire", "transfer", "test", "suspend"} /\ ~alive'
          => semaphore' > 0 \/ manager = "post"
    BY <1>1 DEF Inv, EnterRun, TestAlive, ExternalEventOccured, BecomeIdle, ReceiveInputEvent,
       ExecutionDone, SelfSuspend, Woken, LeaveRun, Goto
  <2>5. pc' \in {"execute", "remove"} /\ ~killed => ~Idle(eventList)
    BY <1>1 DEF Inv, EnterRun, TestAlive, ExternalEventOccured, BecomeIdle, ReceiveInputEvent,
       ExecutionDone, SelfSuspend, Woken, LeaveRun, Goto
  <2>6. handle
    BY <1>1 DEF Inv, EnterRun, TestAlive, ExternalEventOccured, BecomeIdle, ReceiveInputEvent,
       ExecutionDone, SelfSuspend, Woken, LeaveRun
  <2> QED
    BY <2>0, <2>1, <2>2, <2>3, <2>4, <2>5, <2>6 DEF Inv, ExternalListContiguous, EventListContiguous,
       HandlerWillPost
<1>2. ASSUME AcquireSync
      PROVE  Inv'
  BY <1>0, <1>2 DEF AcquireSync, Goto, managerVars, Inv, TypeOK, PcValues, MutualExclusion,
     ExternalListContiguous, EventListContiguous, HandlerWillPost
<1>3. ASSUME TransferExternalEvent
      PROVE  Inv'
  <2>0. externalList.slot[externalList.start] \in Event
    BY <1>0, <1>3, FirstIsEntry DEF TransferExternalEvent, Inv, ExternalListContiguous, TypeOK
  <2>1. /\ eventList' \in Ring(EventListSize)
        /\ EventListContiguous'
    BY <2>0, <1>0, <1>3, AddInOrder
       DEF TransferExternalEvent, Inv, EventListContiguous, TypeOK, managerVars
  <2>2. /\ externalList' \in Ring(ExternalEventListSize)
        /\ ExternalListContiguous'
    BY <1>0, <1>3, RemoveFirstInOrder DEF TransferExternalEvent, Inv, ExternalListContiguous, TypeOK
  <2>3. TypeOK' /\ MutualExclusion'
    BY <2>1, <2>2, <1>0, <1>3 DEF TransferExternalEvent, threadVars, managerVars, TypeOK, MutualExclusion
  <2>4. \A h \in Handler : handler[h] # "advance"
    BY <1>0, <1>3 DEF TransferExternalEvent, MutualExclusion
  <2> QED
    BY <2>1, <2>2, <2>3, <2>4, <1>3 DEF TransferExternalEvent, threadVars, managerVars, Inv
<1>4. ASSUME TransferDone
      PROVE  Inv'
  BY <1>0, <1>4 DEF TransferDone, Goto, managerVars, Inv, TypeOK, PcValues, MutualExclusion,
     ExternalListContiguous, EventListContiguous, HandlerWillPost
<1>5. ASSUME RemoveDelivered
      PROVE  Inv'
  <2>1. eventList' \in Ring(EventListSize) /\ EventListContiguous'
    BY <1>0, <1>5, RemoveFirstInOrder
       DEF RemoveDelivered, Inv, EventListContiguous, TypeOK, managerVars
  <2> QED
    BY <2>1, <1>0, <1>5 DEF RemoveDelivered, Goto, managerVars, Inv, TypeOK, PcValues,
       MutualExclusion, ExternalListContiguous, HandlerWillPost
<1> QED BY <1>1, <1>2, <1>3, <1>4, <1>5 DEF Run

LEMMA AddEventEntryStep ==
  ASSUME Inv, NEW e \in Event, AddEventEntry(e) PROVE Inv'
<1> USE SizeAssumption, BoundAssumption
<1>1. TypeOK
  BY DEF Inv
<1>2. /\ eventList' \in Ring(EventListSize)
      /\ ~Idle(eventList) => ~Idle(eventList')
      /\ EventListContiguous'
  BY <1>1, AddInOrder DEF AddEventEntry, Inv, EventListContiguous, TypeOK, managerVars
<1>3. TypeOK'
  BY <1>1, <1>2 DEF AddEventEntry, managerVars, TypeOK
<1> QED
  BY <1>2, <1>3 DEF AddEventEntry, managerVars, Inv, MutualExclusion, ExternalListContiguous,
     HandlerWillPost

LEMMA ManagerStep ==
  ASSUME Inv, Command \/ Carry PROVE Inv'
<1> USE SizeAssumption, BoundAssumption, ThreadAssumption
<1>0. TypeOK
  BY DEF Inv
<1>1. ASSUME Command
      PROVE  Inv'
  <2>0. UNCHANGED <<eventList, externalList, sync, semaphore, processing, alive, fanout, handler, killed>>
    BY <1>1 DEF Command, CommandStart, CommandStop, CommandKill, CommandReset, threadVars
  <2>1. manager = "idle" /\ ((pc' = pc /\ handle' = handle) \/ (pc = "none" /\ pc' = "born" /\ handle'))
    BY <1>0, <1>1 DEF Inv, Command, CommandStart, CommandStop, CommandKill, CommandReset, threadVars, TypeOK
  <2>2. TypeOK'
    <3>1. manager' \in ManagerValues /\ fbState' \in FBStates
      <4>1. CASE CommandStart BY <4>1, <1>0 DEF CommandStart, TypeOK, FBStates
      <4>2. CASE CommandStop BY <4>2, <1>0 DEF CommandStop, TypeOK, ManagerValues, FBStates
      <4>3. CASE CommandKill BY <4>3, <1>0 DEF CommandKill, TypeOK, ManagerValues, FBStates
      <4>4. CASE CommandReset BY <4>4, <1>0 DEF CommandReset, TypeOK, FBStates
      <4> QED BY <1>1, <4>1, <4>2, <4>3, <4>4 DEF Command
    <3>2. pc' \in PcValues /\ handle' \in BOOLEAN
      BY <1>0, <2>1 DEF TypeOK, PcValues
    <3> QED BY <3>1, <3>2, <2>0, <1>0 DEF TypeOK
  <2>3. MutualExclusion'
    <3>1. CASE pc' = pc
      BY <3>1, <2>0 DEF Inv, MutualExclusion
    <3>2. CASE pc' # pc
      BY <3>2, <2>0, <2>1 DEF Inv, MutualExclusion
    <3> QED BY <3>1, <3>2
  <2>4. manager' # "clearExternal"
    BY <2>1, <1>1 DEF Command, CommandStart, CommandStop, CommandKill, CommandReset
  <2> QED
    BY <2>0, <2>1, <2>2, <2>3, <2>4 DEF Inv, ExternalListContiguous, EventListContiguous,
       HandlerWillPost
<1>2. ASSUME ClearEventList
      PROVE  Inv'
  <2>1. eventList' \in Ring(EventListSize)
    BY <1>0, <1>2, RacedClearType DEF ClearEventList
  <2> QED
    BY <2>1, <1>0, <1>2 DEF ClearEventList, threadVars, Inv, TypeOK, ManagerValues,
       MutualExclusion, ExternalListContiguous, EventListContiguous, HandlerWillPost
<1>3. ASSUME ClearExternalList
      PROVE  Inv'
  <2>1. /\ externalList' \in Ring(ExternalEventListSize)
        /\ ExternalListContiguous' /\ Idle(externalList')
    BY <1>3, EmptyRingInOrder DEF ClearExternalList, ExternalListContiguous
  <2> QED
    BY <2>1, <1>0, <1>3 DEF ClearExternalList, threadVars, Inv, TypeOK, ManagerValues,
       MutualExclusion, EventListContiguous
<1>4. ASSUME ClearAlive
      PROVE  Inv'
  BY <1>0, <1>4 DEF ClearAlive, Inv, TypeOK, ManagerValues,
     MutualExclusion, ExternalListContiguous, EventListContiguous, HandlerWillPost
<1>5. ASSUME WakeForStop
      PROVE  Inv'
  <2>1. semaphore' \in 0 .. SemBound /\ semaphore' > 0
    BY <1>0, <1>5 DEF WakeForStop, Post, TypeOK
  <2> QED
    BY <2>1, <1>0, <1>5 DEF WakeForStop, threadVars, Inv, TypeOK, ManagerValues,
       MutualExclusion, ExternalListContiguous, EventListContiguous
<1> QED BY <1>1, <1>2, <1>3, <1>4, <1>5 DEF Carry

LEMMA StutterStep ==
  ASSUME Inv, UNCHANGED vars PROVE Inv'
BY DEF vars, threadVars, managerVars, Inv, TypeOK, MutualExclusion,
   ExternalListContiguous, EventListContiguous, HandlerWillPost

(* The invariant holds in every state the thread, its handlers and the     *)
(* management commands can reach.                                          *)
THEOREM InvHolds == Spec => []Inv
<1>1. Init => Inv
  BY InitInv
<1>2. Inv /\ [Next]_vars => Inv'
  BY HandlerStep, RunStep, AddEventEntryStep, ManagerStep, StutterStep, EventAssumption DEF Next
<1> QED BY <1>1, <1>2, PTL DEF Spec

(* Both rings, the thread and the handlers stay in their types: no pointer *)
(* leaves its array.                                                       *)
THEOREM TypeCorrect == Spec => []TypeOK
<1>1. Inv => TypeOK
  BY DEF Inv
<1> QED BY <1>1, InvHolds, PTL

(* The mutex is held exactly by who is inside its critical region.         *)
THEOREM MutexHeldInside == Spec => []MutualExclusion
<1>1. Inv => MutualExclusion
  BY DEF Inv
<1> QED BY <1>1, InvHolds, PTL

(* The external ring never has a gap or a stray entry.                     *)
THEOREM ExternalListInOrder == Spec => []ExternalListContiguous
<1>1. Inv => ExternalListContiguous
  BY DEF Inv
<1> QED BY <1>1, InvHolds, PTL

(* The ring run() works on never has one until a Kill.                     *)
THEOREM EventListInOrder == Spec => []EventListContiguous
<1>1. Inv => EventListContiguous
  BY DEF Inv
<1> QED BY <1>1, InvHolds, PTL

(* transferExternalEvents() never loops on a null entry with the mutex held. *)
THEOREM TransferTerminates == Spec => []TransferNeverSpins
<1>1. Inv => TransferNeverSpins
  BY FirstIsEntry, NoEventAssumption, SizeAssumption
     DEF Inv, TypeOK, ExternalListContiguous, TransferNeverSpins
<1> QED BY <1>1, InvHolds, PTL

(* The thread never sleeps on a queued external event without a post due,  *)
(* although it compares the ring's pointers without the mutex.             *)
THEOREM WakeupsNotLost == Spec => []NoLostWakeup
<1>1. Inv => NoLostWakeup
  BY BoundAssumption DEF Inv, TypeOK, NoLostWakeup
<1> QED BY <1>1, InvHolds, PTL

(* The thread never sleeps on a stop that has taken effect.                *)
THEOREM StopsWakeTheThread == Spec => []StopWakes
<1>1. Inv => StopWakes
  BY BoundAssumption DEF Inv, TypeOK, StopWakes
<1> QED BY <1>1, InvHolds, PTL
=============================================================================
