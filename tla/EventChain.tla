----------------------------- MODULE EventChain -----------------------------
(***************************************************************************)
(* One CEventChainExecutionThread, the thread that executes the function   *)
(* blocks of a resource: the two rings of pending events, the semaphore it *)
(* sleeps on, the handler threads that start event chains in it, and the   *)
(* management commands that start, stop and kill it.                       *)
(***************************************************************************)
EXTENDS EventRing

CONSTANTS
  EventListSize,           \* cg_nEventChainEventListSize
  ExternalEventListSize,   \* cg_nEventChainExternalEventListSize
  Handler,                 \* threads that call startEventChain: timer, network, other resources
  Ecet, Nobody,            \* the holder of mExternalEventListSync besides a handler
  Started,                 \* the events they start chains with: external events of their FBs
  Sent,                    \* the events FBs send: the inputs event connections lead to
  MaxFanout,               \* bound: events one FB execution sends
  SemBound,                \* bound: this value of the semaphore stands for itself and all larger ones
  AfterKill                \* bound: whether handlers still start chains after a Kill

ASSUME SizeAssumption ==
  /\ EventListSize \in Nat /\ EventListSize > 1
  /\ ExternalEventListSize \in Nat /\ ExternalEventListSize > 1
ASSUME BoundAssumption ==
  MaxFanout \in Nat /\ SemBound \in Nat \ {0} /\ AfterKill \in BOOLEAN
ASSUME EventAssumption == Started \subseteq Event /\ Sent \subseteq Event
ASSUME ThreadAssumption ==
  Ecet \notin Handler /\ Nobody \notin Handler /\ Ecet # Nobody

VARIABLES
  eventList,         \* mEventList, mEventListStart, mEventListEnd
  externalList,      \* mExternalEventList and its two pointers
  sync,              \* holder of mExternalEventListSync
  semaphore,         \* mSuspendSemaphore
  processing,        \* mProcessingEvents
  alive,             \* mAlive
  handle,            \* mThreadHandle is not null
  pc,                \* where the thread is in runThread() and run()
  fanout,            \* events the executing FB may still send
  handler,           \* where each handler is in startEventChain()
  manager,           \* where the manager is in changeExecutionState()
  fbState,           \* m_enFBState of the resource
  killed             \* a Kill has cleared the rings

threadVars  == <<alive, handle, pc, fanout>>
managerVars == <<manager, fbState, killed>>
vars == <<eventList, externalList, sync, semaphore, processing, threadVars,
          handler, managerVars>>

PcValues == {"none", "born", "loop", "poll", "acquire", "transfer", "test",
             "execute", "remove", "suspend", "woken", "ending", "dead"}
HandlerValues == {"idle", "advance", "flag", "post"}
ManagerValues == {"idle", "clear", "clearExternal", "setAlive", "post"}
FBStates == {"IDLE", "RUNNING", "STOPPED", "KILLED"}

Init ==
  /\ eventList = EmptyRing(EventListSize)
  /\ externalList = EmptyRing(ExternalEventListSize)
  /\ sync = Nobody
  /\ semaphore = 0
  /\ processing = FALSE
  /\ alive = FALSE /\ handle = FALSE /\ pc = "none" /\ fanout = 0
  /\ handler = [h \in Handler |-> "idle"]
  /\ manager = "idle" /\ fbState = "IDLE" /\ killed = FALSE

-----------------------------------------------------------------------------
(* Handler threads: startEventChain(). The ring is changed in two writes   *)
(* under the mutex, because run() looks at its pointers without the mutex. *)

Post == semaphore' = IF semaphore < SemBound THEN semaphore + 1 ELSE semaphore

(* take the mutex, and store the entry unless the slot at end is in use *)
StartEventChain(h, e) ==
  /\ handler[h] = "idle" /\ (killed => AfterKill)
  /\ sync = Nobody
  /\ IF Refuses(externalList)
     THEN /\ handler' = [handler EXCEPT ![h] = "flag"]
          /\ UNCHANGED <<externalList, sync>>
     ELSE /\ externalList' = Write(externalList, e)
          /\ sync' = h
          /\ handler' = [handler EXCEPT ![h] = "advance"]
  /\ UNCHANGED <<eventList, semaphore, processing, threadVars, managerVars>>

(* move the end pointer and release the mutex *)
AdvanceExternalEnd(h) ==
  /\ handler[h] = "advance"
  /\ externalList' = Advance(ExternalEventListSize, externalList)
  /\ sync' = Nobody
  /\ handler' = [handler EXCEPT ![h] = "flag"]
  /\ UNCHANGED <<eventList, semaphore, processing, threadVars, managerVars>>

(* mutant: a thread that is processing already is not posted to *)
PostOnlyWhenIdle(h) ==
  /\ handler[h] = "flag"
  /\ processing' = TRUE
  /\ handler' = [handler EXCEPT ![h] = IF processing THEN "idle" ELSE "post"]
  /\ UNCHANGED <<eventList, externalList, sync, semaphore, threadVars, managerVars>>

SetProcessing(h) ==
  /\ handler[h] = "flag"
  /\ processing' = TRUE
  /\ handler' = [handler EXCEPT ![h] = "post"]
  /\ UNCHANGED <<eventList, externalList, sync, semaphore, threadVars, managerVars>>

(* mutant: the thread is not woken *)
StartWithoutPost(h) ==
  /\ handler[h] = "post"
  /\ handler' = [handler EXCEPT ![h] = "idle"]
  /\ UNCHANGED <<eventList, externalList, sync, semaphore, processing, threadVars, managerVars>>

ResumeSelfSuspend(h) ==
  /\ handler[h] = "post"
  /\ Post
  /\ handler' = [handler EXCEPT ![h] = "idle"]
  /\ UNCHANGED <<eventList, externalList, sync, processing, threadVars, managerVars>>

-----------------------------------------------------------------------------
(* The event chain execution thread. *)

Goto(next) == pc' = next /\ UNCHANGED <<alive, handle, fanout>>

(* runThread(): the new thread itself marks itself alive *)
EnterRun ==
  /\ pc = "born"
  /\ alive' = TRUE /\ pc' = "loop"
  /\ UNCHANGED <<eventList, externalList, sync, semaphore, processing, handle,
                 fanout, handler, managerVars>>

TestAlive ==
  /\ pc = "loop"
  /\ Goto(IF alive THEN "poll" ELSE "ending")
  /\ UNCHANGED <<eventList, externalList, sync, semaphore, processing, handler, managerVars>>

(* externalEventOccured(): the pointers are compared without the mutex *)
ExternalEventOccured ==
  /\ pc = "poll"
  /\ Goto(IF Idle(externalList) THEN "test" ELSE "acquire")
  /\ UNCHANGED <<eventList, externalList, sync, semaphore, processing, handler, managerVars>>

(* mutant: the transfer does not take the mutex *)
TransferUnlocked ==
  /\ pc = "acquire"
  /\ Goto("transfer")
  /\ UNCHANGED <<eventList, externalList, sync, semaphore, processing, handler, managerVars>>

AcquireSync ==
  /\ pc = "acquire"
  /\ sync = Nobody
  /\ sync' = Ecet
  /\ Goto("transfer")
  /\ UNCHANGED <<eventList, externalList, semaphore, processing, handler, managerVars>>

(* one round of the loop in transferExternalEvents(); a null entry between *)
(* start and end would make the code spin with the mutex held: no step     *)
TransferExternalEvent ==
  /\ pc = "transfer"
  /\ ~Idle(externalList)
  /\ externalList.slot[externalList.start] # NoEvent
  /\ eventList' = Add(EventListSize, eventList, externalList.slot[externalList.start])
  /\ externalList' = RemoveFirst(ExternalEventListSize, externalList)
  /\ UNCHANGED <<sync, semaphore, processing, threadVars, handler, managerVars>>

TransferDone ==
  /\ pc = "transfer"
  /\ Idle(externalList)
  /\ sync' = Nobody
  /\ Goto("test")
  /\ UNCHANGED <<eventList, externalList, semaphore, processing, handler, managerVars>>

(* nothing to deliver: clear the flag, then sleep *)
BecomeIdle ==
  /\ pc = "test"
  /\ Idle(eventList)
  /\ processing' = FALSE
  /\ Goto("suspend")
  /\ UNCHANGED <<eventList, externalList, sync, semaphore, handler, managerVars>>

(* hand the oldest event to its FB; a null entry is skipped *)
ReceiveInputEvent ==
  /\ pc = "test"
  /\ ~Idle(eventList)
  /\ IF eventList.slot[eventList.start] # NoEvent
     THEN pc' = "execute" /\ fanout' = MaxFanout
     ELSE pc' = "remove" /\ fanout' = 0
  /\ UNCHANGED <<eventList, externalList, sync, semaphore, processing, alive,
                 handle, handler, managerVars>>

(* the executing FB sends an output event: addEventEntry() *)
AddEventEntry(e) ==
  /\ pc = "execute"
  /\ fanout > 0
  /\ fanout' = fanout - 1
  /\ eventList' = Add(EventListSize, eventList, e)
  /\ UNCHANGED <<externalList, sync, semaphore, processing, alive, handle, pc,
                 handler, managerVars>>

ExecutionDone ==
  /\ pc = "execute"
  /\ pc' = "remove" /\ fanout' = 0
  /\ UNCHANGED <<eventList, externalList, sync, semaphore, processing, alive,
                 handle, handler, managerVars>>

(* mutant: the start pointer is not moved *)
RemoveWithoutMove ==
  /\ pc = "remove"
  /\ eventList' = [eventList EXCEPT !.slot[eventList.start] = NoEvent]
  /\ Goto("loop")
  /\ UNCHANGED <<externalList, sync, semaphore, processing, handler, managerVars>>

RemoveDelivered ==
  /\ pc = "remove"
  /\ eventList' = RemoveFirst(EventListSize, eventList)
  /\ Goto("loop")
  /\ UNCHANGED <<externalList, sync, semaphore, processing, handler, managerVars>>

SelfSuspend ==
  /\ pc = "suspend"
  /\ semaphore > 0
  /\ \/ semaphore' = semaphore - 1
     \/ semaphore = SemBound /\ UNCHANGED semaphore
  /\ Goto("woken")
  /\ UNCHANGED <<eventList, externalList, sync, processing, handler, managerVars>>

Woken ==
  /\ pc = "woken"
  /\ processing' = TRUE
  /\ Goto("loop")
  /\ UNCHANGED <<eventList, externalList, sync, semaphore, handler, managerVars>>

(* runThread() after run() has returned *)
LeaveRun ==
  /\ pc = "ending"
  /\ alive' = FALSE /\ pc' = "dead"
  /\ UNCHANGED <<eventList, externalList, sync, semaphore, processing, handle,
                 fanout, handler, managerVars>>

-----------------------------------------------------------------------------
(* Management commands: CResource::changeFBExecutionState() and what it    *)
(* calls in the thread, for a resource whose own FBs accept the command.   *)

(* changeExecutionState(Start): a thread is created only when there is no  *)
(* handle yet; nothing resets the handle while the object lives            *)
CommandStart ==
  /\ manager = "idle"
  /\ fbState \in {"IDLE", "STOPPED"}
  /\ fbState' = "RUNNING"
  /\ IF ~alive /\ ~handle THEN handle' = TRUE /\ pc' = "born"
                          ELSE UNCHANGED <<handle, pc>>
  /\ UNCHANGED <<eventList, externalList, sync, semaphore, processing, alive,
                 fanout, handler, manager, killed>>

CommandStop ==
  /\ manager = "idle"
  /\ fbState = "RUNNING"
  /\ fbState' = "STOPPED" /\ manager' = "setAlive"
  /\ UNCHANGED <<eventList, externalList, sync, semaphore, processing,
                 threadVars, handler, killed>>

CommandKill ==
  /\ manager = "idle"
  /\ fbState = "RUNNING"
  /\ fbState' = "KILLED" /\ manager' = "clear"
  /\ UNCHANGED <<eventList, externalList, sync, semaphore, processing,
                 threadVars, handler, killed>>

CommandReset ==
  /\ manager = "idle"
  /\ fbState \in {"STOPPED", "KILLED"}
  /\ fbState' = "IDLE"
  /\ UNCHANGED <<eventList, externalList, sync, semaphore, processing,
                 threadVars, handler, manager, killed>>

(* clear() writes mEventList without a lock while run() may be writing it: *)
(* a pointer, or the slot, that run() is about to write back may survive   *)
RacedClear ==
  LET n     == EventListSize
      blank == EmptyRing(n)
  IN  {blank} \cup
      (IF pc \in {"transfer", "execute", "remove"}
       THEN [slot  : {blank.slot} \cup
                     {[blank.slot EXCEPT ![eventList.end] = e] : e \in Event},
             start : {blank.start, Prev(n, eventList.start)},
             end   : {blank.end, Prev(n, eventList.end)}]
       ELSE {})

ClearEventList ==
  /\ manager = "clear"
  /\ eventList' \in RacedClear
  /\ killed' = TRUE /\ manager' = "clearExternal"
  /\ UNCHANGED <<externalList, sync, semaphore, processing, threadVars, handler, fbState>>

(* mutant: the external ring is cleared without its mutex *)
ClearExternalUnlocked ==
  /\ manager = "clearExternal"
  /\ externalList' = EmptyRing(ExternalEventListSize)
  /\ manager' = "setAlive"
  /\ UNCHANGED <<eventList, sync, semaphore, processing, threadVars, handler, fbState, killed>>

ClearExternalList ==
  /\ manager = "clearExternal"
  /\ sync = Nobody
  /\ externalList' = EmptyRing(ExternalEventListSize)
  /\ manager' = "setAlive"
  /\ UNCHANGED <<eventList, sync, semaphore, processing, threadVars, handler, fbState, killed>>

ClearAlive ==
  /\ manager = "setAlive"
  /\ alive' = FALSE /\ manager' = "post"
  /\ UNCHANGED <<eventList, externalList, sync, semaphore, processing, handle,
                 pc, fanout, handler, fbState, killed>>

(* mutant: a stop does not wake the thread *)
StopWithoutWake ==
  /\ manager = "post"
  /\ manager' = "idle"
  /\ UNCHANGED <<eventList, externalList, sync, semaphore, processing, threadVars, handler, fbState, killed>>

WakeForStop ==
  /\ manager = "post"
  /\ Post /\ manager' = "idle"
  /\ UNCHANGED <<eventList, externalList, sync, processing, threadVars, handler, fbState, killed>>

-----------------------------------------------------------------------------
Chain(h) == AdvanceExternalEnd(h) \/ SetProcessing(h) \/ ResumeSelfSuspend(h)

Run == \/ EnterRun \/ TestAlive \/ ExternalEventOccured \/ AcquireSync
       \/ TransferExternalEvent \/ TransferDone
       \/ BecomeIdle \/ ReceiveInputEvent \/ ExecutionDone \/ RemoveDelivered
       \/ SelfSuspend \/ Woken \/ LeaveRun

Command == CommandStart \/ CommandStop \/ CommandKill \/ CommandReset

Carry == ClearEventList \/ ClearExternalList \/ ClearAlive \/ WakeForStop

Next ==
  \/ \E h \in Handler : Chain(h) \/ \E e \in Started : StartEventChain(h, e)
  \/ Run
  \/ \E e \in Sent : AddEventEntry(e)
  \/ Command
  \/ Carry

Spec == Init /\ [][Next]_vars

(* A thread that is ready to run is eventually scheduled, and a thread     *)
(* that waits for a mutex which is released again and again obtains it.    *)
(* Nothing makes a handler start a chain, an FB send an event, or a        *)
(* management command arrive.                                              *)
Fairness ==
  /\ WF_vars(Run) /\ SF_vars(AcquireSync)
  /\ \A h \in Handler : WF_vars(Chain(h))
  /\ WF_vars(Carry) /\ SF_vars(ClearExternalList)

FairSpec == Spec /\ Fairness
-----------------------------------------------------------------------------
TypeOK ==
  /\ eventList \in Ring(EventListSize)
  /\ externalList \in Ring(ExternalEventListSize)
  /\ sync \in Handler \cup {Ecet, Nobody}
  /\ semaphore \in 0 .. SemBound
  /\ processing \in BOOLEAN /\ alive \in BOOLEAN /\ handle \in BOOLEAN
  /\ pc \in PcValues
  /\ fanout \in 0 .. MaxFanout
  /\ handler \in [Handler -> HandlerValues]
  /\ manager \in ManagerValues
  /\ fbState \in FBStates
  /\ killed \in BOOLEAN

(* The handlers' two writes and the transfer exclude each other: the mutex *)
(* is held exactly by who is inside, so no entry is overwritten or read    *)
(* half written.                                                           *)
MutualExclusion ==
  /\ \A h \in Handler : handler[h] = "advance" <=> sync = h
  /\ pc = "transfer" <=> sync = Ecet

(* Whatever handlers, the transfer and a Kill do in between, the external  *)
(* ring holds exactly the entries from its start to its end: there is no   *)
(* gap and no stray entry.                                                 *)
ExternalListContiguous == WellFormed(ExternalEventListSize, externalList)

(* The same of the ring run() works on, until a Kill has cleared it behind *)
(* the back of the running thread.                                         *)
EventListContiguous == killed \/ WellFormed(EventListSize, eventList)

(* transferExternalEvents() never meets a null entry: there it would loop  *)
(* for ever with the mutex held, and every handler would wait for it.      *)
TransferNeverSpins ==
  pc = "transfer" /\ ~Idle(externalList) =>
    externalList.slot[externalList.start] # NoEvent

HandlerWillPost == \E h \in Handler : handler[h] \in {"flag", "post"}

(* The thread does not sleep on a pending external event: when it sleeps   *)
(* and nothing has been posted, the handler that queued the event is about *)
(* to post. This is what the unprotected pointer comparison and the order  *)
(* of queueing and posting must guarantee together.                        *)
NoLostWakeup ==
  pc = "suspend" /\ semaphore = 0 /\ ~Idle(externalList) => HandlerWillPost

(* A thread that has been told to stop does not sleep through it.          *)
StopWakes ==
  pc = "suspend" /\ semaphore = 0 /\ ~alive => manager = "post"

(* The inductive invariant behind them. The last six conjuncts say why:    *)
(* between finding the external ring empty and sleeping the thread may     *)
(* miss an entry, but then a post is due; the same for a missed stop; an   *)
(* entry is there while it is delivered, and while its handler is about to *)
(* move the end pointer; without a handle there is no thread; a Kill       *)
(* clears the external ring second.                                        *)
Inv ==
  /\ TypeOK
  /\ MutualExclusion
  /\ ExternalListContiguous
  /\ EventListContiguous
  /\ pc \in {"test", "suspend"} /\ ~Idle(externalList)
       => semaphore > 0 \/ HandlerWillPost
  /\ pc \in {"poll", "acquire", "transfer", "test", "suspend"} /\ ~alive
       => semaphore > 0 \/ manager = "post"
  /\ pc \in {"execute", "remove"} /\ ~killed => ~Idle(eventList)
  /\ \A h \in Handler : handler[h] = "advance" => Refuses(externalList)
  /\ ~handle => pc = "none"
  /\ manager = "clearExternal" => killed

-----------------------------------------------------------------------------
(* What the two rings promise together is the specification EventQueues:   *)
(* two FIFO queues of one entry less than the arrays have, that lose       *)
(* nothing until they first overflow and everything after that.            *)
Queues == INSTANCE EventQueues WITH
  Capacity         <- EventListSize - 1,
  ExternalCapacity <- ExternalEventListSize - 1,
  events           <- IF killed THEN <<>> ELSE Contents(EventListSize, eventList),
  external         <- IF killed THEN <<>>
                      ELSE Contents(ExternalEventListSize, externalList),
  jammed           <- ~killed /\ Refuses(eventList),
  externalJammed   <- ~killed /\ Refuses(externalList) /\ sync \notin Handler,
  cleared          <- killed

ImplementsEventQueues == Queues!Spec

-----------------------------------------------------------------------------
(* Liveness, under FairSpec. *)

(* Events that handlers have queued are taken over by the running thread,  *)
(* even when the function blocks keep it busy for ever.                    *)
ExternalEventsTransferred ==
  (~Idle(externalList) /\ alive) ~> (Idle(externalList) \/ ~alive)

(* As long as events are queued and the thread is alive, the oldest one is *)
(* delivered and the next one comes up: run() never stays with an entry,   *)
(* whatever the FBs it executes add behind it and however full the ring.   *)
HeadDelivered ==
  \/ []<>(Idle(eventList) \/ ~alive \/ killed)
  \/ []<><<eventList'.start # eventList.start>>_eventList

(* A Stop or Kill that finds the thread past its own setAlive(true) ends   *)
(* it, whatever it was doing and however many events are still queued.     *)
StopEndsRunningThread ==
  (manager = "post" /\ ~alive /\ pc \notin {"none", "born"}) ~> pc = "dead"

-----------------------------------------------------------------------------
(* Statements of the repository that the code does not meet. *)

(* The log messages of ecet.cpp:108 and 135, "queue is full", and the test *)
(* of ecet.cpp:33 for an empty one, start = end: a ring that drops events  *)
(* because it is full is not at the same time empty.                       *)
FullIsNotEmpty ==
  /\ Refuses(externalList) /\ sync \notin Handler => ~Idle(externalList)
  /\ Refuses(eventList) /\ ~killed => ~Idle(eventList)

(* ecet.h:42: changeExecutionState() is to "allow to start, stop, and kill *)
(* the execution of the event chain execution thread": a resource that is  *)
(* started again, which its state machine allows, executes events again.   *)
StartedResourceExecutes ==
  (fbState = "RUNNING" /\ manager = "idle")
    ~> (fbState # "RUNNING" \/ (alive /\ pc \notin {"none", "dead"}))

=============================================================================
