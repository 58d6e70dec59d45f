# A TLA+ model of 4diac FORTE

FORTE is a run-time environment for IEC 61499 control applications. An
application is a net of *function blocks* (FBs) joined by event, data and
adapter connections. A *device* holds *resources*; each resource executes its
FBs in a thread of its own, the *event chain execution thread* (ECET).
Everything from outside comes through *external event handlers*, threads of
their own (timer, network, drivers), which start event chains in the ECET.
Management commands, received by a communication FB of the device or read from a
boot file, create, connect, start, stop and delete FBs while all of this runs.

This directory holds TLA+ modules that follow that code, TLC configurations that
check them on small instances, and proofs that TLAPS checks. Source paths below
are relative to `src/src/`.

## The system

| component | state | operations | talks to |
|---|---|---|---|
| ECET, `core/ecet.*` | two rings of event entries, a mutex, a semaphore, `mProcessingEvents`, `mAlive` | `startEventChain`, `addEventEntry`, `run`, `changeExecutionState`, `clear` | called by every handler thread, by FBs it executes, by resources |
| timer, `arch/timerha.*`, ports in `arch/posix` etc. | linked list of registered FBs, `m_stForteTime` | `registerTimedFB`, `unregisterTimedFB`, `nextTick` | called by timed FBs (ECET, management thread); starts event chains |
| timed FBs, `stdfblib/timedfb.*`, `stdfblib/events/E_*` | `m_bActive`, list entry | START, STOP, external event, management stop | the timer |
| FB base, `core/funcbloc.*` | `m_enFBState`, connections, event monitors | `receiveInputEvent`, `sendOutputEvent`, `changeFBExecutionState` | connections, ECET |
| containers, resource, device, `core/fbcontainer.*`, `core/resource.*`, `core/device.*` | FB lists, sub-containers, own FB state | create, delete, propagate commands | all FBs, the ECET |
| connections, `core/conn.cpp`, `eventconn`, `dataconn`, `adapterconn`, `adapter` | destination lists, data value, peers | connect, disconnect, `triggerEvent`, `readData`, `writeData` | FBs, ECET |
| communication FBs, `core/cominfra/commfb.*`, `basecommfb.*` | layer stack, interrupt queue of layers | INIT, REQ/RSP, external event, `interruptCommFB` | layers, handlers |
| IP layer and socket handler, `core/cominfra/ipcomlayer.*`, `arch/fdselecthand.*` | sockets, receive buffer, `m_eInterruptResp`; list of callbacks | open, close, send, `recvData`, `processInterrupt` | network thread and ECET |
| local layer, `core/cominfra/localcomlayer.*` | groups with publishers and subscribers | open, close, `sendData` | ECETs of several resources |
| asynchronous layer, `core/cominfra/comlayer_async.*` | call list, result list, own thread | `callAsync`, `processInterrupt` | ECET and own thread |
| monitoring, `core/monitoring.*` | watches, `mTriggerEvent`, breakpoints | add/remove watch, trigger event, read | management thread, ECET |
| management, `stdfblib/ita/*`, `core/resource.cpp` | request buffer | parse and execute commands | resources, devices |
| string dictionary, type library, data types, IO, Lua, modules, other ports | tables, values, drivers | look up, convert, read and write | everything |

What is hard here: four kinds of thread (ECETs, timer, network, management) share
small structures under fine-grained or no locks; queues are bounded and drop;
events that are queued outlive the state they were sent for; commands change FB
states while events are executed; several operations have failure paths that
undo only part of what was done. `PROJECT.json` lists each hazard at its line
with the properties that watch it.

What makes each component correct: the ECET loses no event before its lists
overflow, keeps their order, never sleeps on a pending event and stops when it is
told to; the timer's list is sorted and complete, and each started delay ends
once, at its time; a command leaves a container and its FBs in one state;
connections are symmetric; a communication layer hands every received message to
its FB once; local publishers cannot wait for each other; monitoring does not
disturb execution.

## The modules

### The event chain: `EventRing`, `EventChain`, `EventQueues`

`EventRing` holds the operators of one ring, written from `addEventEntry`,
`startEventChain`, `transferExternalEvents` and `run`: an array with a start and
an end pointer that move downwards. `Idle` is the code's test for an empty ring
(`start == end`), `Refuses` its test for a full one (the slot at `end` is not 0).
`Contents`, `Length` and `WellFormed` describe a ring and have no counterpart in
the code.

`EventChain` is one ECET with the threads around it:

* a handler in `startEventChain` takes the mutex and stores the entry
  (`StartEventChain`), moves `end` and releases the mutex (`AdvanceExternalEnd`),
  sets `mProcessingEvents` (`SetProcessing`) and posts the semaphore
  (`ResumeSelfSuspend`): four steps, since `run` reads the pointers without the
  mutex and the flag without anything;
* the thread has a step for each statement of `runThread` and `run` at which
  others can be seen: the test of `mAlive`, the unprotected comparison, the
  transfer, one round per event, the delivery, each output event of the FB
  (`AddEventEntry`, at most `MaxFanout`), the removal, the two writes of the flag
  around the semaphore;
* a management thread starts, stops, kills and resets the resource. `clear()` of
  a Kill writes the event list while the thread may be in the middle of a
  write of its own; `RacedClear` lets the thread's half-done write of a pointer or
  of a slot survive or not.

Handlers start event chains with the events in `Started`, the external events of event
source FBs; FBs send on those in `Sent`, the events of inputs that connections lead to. The
two differ in the code, so that an entry tells where it came from.
`AfterKill` bounds what is checked: whether handlers start event chains after a Kill too, which
may have left the rings in any state (`killed`).

Its inductive invariant is `Inv`. `EventQueues` is what the two rings promise
together, two FIFO queues of one entry less than the arrays have, which lose
nothing until they first overflow and everything after that; `EventChain`
implements it (`ImplementsEventQueues`).

### Timers: `TimedFBs`

The timer's list is modelled with its pointers (`next`), as the code walks them:
`Insert` is `addTimedFBEntry`, `UnregisterTimedFB` and `Fire` the others. A walk
over a list that has become a circle has no step, as the code's would not end. Time
is relative to `m_stForteTime`; a timeout that has passed is 0. START and STOP of
a block take two steps, the change of the list and the write of `m_bActive`,
because a management Stop runs in another thread; so does that Stop. The event
lists are two queues with limits, of which an overflow drops the event and puts
its block into the history `lost`; what an overflow does to the rings is the
subject of `EventChain`. `Applications` gives the nets of blocks to check, from
which `Init` chooses (`type`): `E_CYCLE` is periodic, `E_DELAY` and `E_RDELAY` fire
once, `E_RDELAY` may be restarted. `E_TimeOut` and `E_RTimeOut` have the same
statements in other order around an adapter and are not instantiated
separately. Management commands come to the blocks in `Managed`, of any type. `due` is
a history variable, kept for delays; `period` (`m_nInterval`) is kept for cycles, which alone
read it again.

A block may be deleted while it is in the timer's list, in an event list or being
executed, since `deleteFB` asks for its state only. It is freed memory then, and
behaviours end there (`Defined`).

Neither STOP nor a restart nor a Stop command takes a timer event back that is in an event
list already (`stdfblib/timedfb.cpp:51`). The history `overtaken` collects the delays to which
that has happened, and the `E_RDELAY`s to which a Stop command came between the two
halves of a restart: it looks for the block before the restart has put it in again, and may
clear the flag afterwards, so that the next START registers it twice. What the code promises holds
until then, and `ListSorted`, `ActiveIsPending`, `CycleRegistered` and `DelayEnds` say so for
all types of blocks at once. Behaviours go on after it for the types in `GoOnAfter`, which show
what an `E_RDELAY` still keeps (`RestartedHasTimer`) and what it breaks (`timed_lost`); for the
other types the application and the management do nothing more.

The history `crossed` collects the blocks that were executing START when a Stop command came.
The command may find `m_bActive` false between `registerTimedFB` and its assignment
(`stdfblib/timedfb.cpp:58` and `71`) and unregister nothing: the block is stopped, registered and
active. A cycle only goes on then (`CycleRegistered` does not excuse it). A delay ignores its
timer event while it is stopped, and stays active without a timer for good, so that
`ActiveIsPending`, `RestartedHasTimer` and `DelayEnds` excuse the blocks in `crossed`, and TLC
finds each violated without that excuse.

The model's time is a difference of ticks; the code compares two words each of
`m_stTimeOut` and `m_stForteTime`. `ForteTime` has that arithmetic, for words of any
number of values, and `TimesCompare` of `TimedFBs` relates the two: wherever the clock
stands, the code's comparisons order the timeouts as the model does.

### Communication over IP: `IPComm`

One server or client block with one IP layer, and the three threads that share
it without a lock:

* the network thread: `Select` is the handler's loop up to the call of a layer
  it has looked up; the steps of `recvData()` follow, split where the event
  chain thread can see or change something: the assignment of
  `m_eInterruptResp` (`EnterRecvData`), `accept()` (`AcceptConnection`,
  `HandleConnectionAttemptInConnected`), the wait for room (`HasRoom`) and the test
  of the socket (`TestSocket`), the read into the buffer (`ReceiveData`) and the addition to `m_unBufFillSize`
  (`AddReceived`), the ends of a connection (`ConnectionClosedByPeer`,
  `ReceiveFails`, also when the event chain thread has closed the socket between the
  test and the read), the two statements of `interruptCommFB()` (`InterruptCommFB`,
  `AddInterrupt`) and the start of the event chain (`StartNewEventChain`);
* the event chain thread: INIT, sends that fail, and for an external event the
  loop of `receiveData()` over the interrupt queue (`ProcessInterrupt`, then
  `ResetBuffer` after the upper layer has taken the data), the decrement of the
  count as a load and a store, the shift of the queue and the answer
  (`Respond`);
* the management thread: Stop, Kill, which closes the connection, Reset, Start.

Peers connect, send units of data, close and reset; they are external, as is
what `accept()`, `select()` and `recv()` do with them. `received` and `handed` are
histories of the layer: the number of units read and the units given to the upper
layer. `faults` is one too, and names what a property excuses: `"lost"`, an
interrupt or its event was dropped by a full list or came to a stopped block;
`"raced"`, both threads were inside the same few statements, where the code has a
data race; `"undefined"`, a layer was used after its deletion. Such a use has no
meaning, so that behaviours end there.

### Local communication: `LocalComm`

Publishers and subscribers, with one thread per resource and the lock
`m_oResDataConSync` of each resource (`holder`). `Publish` is the output of a
publisher's data up to the first subscriber: its thread takes its own resource's
lock and then walks `m_lSublList` of its group. Each entry is a round of steps:
`LockTarget` takes the lock of the subscriber's resource, unless that is the
publisher's own; `SetFirst` and `SetSecond` write the two outputs;
`InterruptCommFB` and `AddInterrupt` are the statements of `interruptCommFB()` as
in `IPComm`; `StartNewEventChain` queues the external event, releases the lock and goes to
the next entry, `SendDone` leaves the walk. A subscriber's resource executes the external
event in steps of its own: `BeginExternalEvent` takes it from the list,
`LoadCount` and `StoreCount` are the decrement of the interrupt count, `Indicate`
is IND, which copies the outputs to the connections (`seen`) under the
resource's lock.

INIT opens and closes blocks in their resource's thread, and management commands
come to the blocks in `Managed`. Nothing in the code keeps a block registered
while another resource's thread is at its entry: a walk whose entry, or whose own
block, is closed gets `Gone` as its position, and goes on nowhere
(`WalkUsesDeleted`). The lists' own mutex, `m_oSync`, is released before another is taken,
so that registering is one step, and groups without members, which the code
removes, are there with an empty list. `missing` is a history: the subscribers
registered since the walk began that it has not served; `faults` is as in `IPComm`.

### The life cycle: `FBLifecycle`

A resource with its tree of containers (`subs`, `fbs`: the names in each, in the
order of the lists), the states of all blocks (`fbState`), one management thread and
the event chain thread. Blocks and containers are named by their path; the
operators `Blocked`, `MakeContainers` and `Found` are the three ways in which the
code resolves one. They differ: creating *and deleting* make the containers that are
missing, while a command falls back to the block that has a missing container's
name (`core/fbcontainer.cpp:146`, whose header promises 0), so that a
command for `a.b` may act on a block `a`.

A command is a walk: `command.todo` is what the nested calls of
`changeFBExecutionState()` and `changeContainedFBsExecutionState()` have still to go
to, FBs and containers, the next one first. One step changes an FB (`ChangeState`), since the
event chain thread runs meanwhile, and puts what that FB passes the command on to in
front (`PassedTo`: the containers and FBs of a resource, the internal FB of a
composite); another enters a container (`EnterContainer`), whose sub-containers come
before its FBs (`Inside`). The first refusal ends the walk, and after the last FB the
resource's thread is told (`EndCommand`). At an
`E_RESTART` the walk goes on in steps: `StoreEvent`, `KeepRunning`,
`StartNewEventChain` and, for a Stop, `WaitForStop`. In the event chain thread,
`executeEvent()` of `E_RESTART` is `TakeEvent`, `SendEvent`, `TestStop` and
`PostStopped`. The thread runs from the resource's first Start to its next Stop or
Kill and is not started again, as `EventChain` has it in detail. Stop and Kill only mark it
(`EndCommand`): it finishes what it executes, and one that has just tested `isAlive()`
(`ecet = "ending"`) may still take one event before it ends (`ThreadEnds`). Deleting an
`E_RESTART` deletes its semaphore with the posts in it. An event of a deleted block is one of `Gone`, whose execution ends
the behaviour (`UsesDeletedFB`). `last` and `sent` are histories; `faults` holds
`"lost"`, the event list was full, and `"raced"`, `executeEvent()` and
`changeFBExecutionState()` of one `E_RESTART` overlapped so that the event in
between was another than the one sent, or the one of the last Stop.

### Connections: `Connections`

The connection objects of a resource (`destinations`, with `valueType` and
`special` of the data connections), the inputs' pointers back (`source`, `inputType`)
and the three pointers between plug, socket and adapter connection (`peer`, `conn`,
`socketOf`). All commands come from the one management thread, so that each is one step;
its early returns are actions of their own: `RefuseUncastable`, `RefuseListed`
and `RefuseOccupied` of a data connection, `RefuseAdapter` of an adapter
connection, all of which change something before they refuse. A refusal that changes nothing
(an event input connected already, a type that does not fit) is no step. An
output of type ANY takes its type from the first input that has one and hands it on
to the inputs connected before (`HandedOn`), whose own types then follow (`ConnectDI`).
`DeleteFB` destroys a block's connections with it: plugs disconnect their socket,
sockets tell their connection, and nobody else is told. That is as the code has it: the
tool removes the connections of a block before it deletes it, and
`PointersAreGranted` shows that then nothing points to the block. Where it does
not, a later command can use the deleted block (`ConfiguresDeletedBlock`,
`DisconnectsDeletedSocket`), and the behaviour ends there.

`granted` is what the tool knows: the connections that were answered ready and
not removed since. `faults` names what a refused command has spoilt: `"rolledBack"`,
it removed another destination than its own; `"uncast"`, it reset the flag of a
special cast; `"cut"`, it disconnected the socket of another connection.
`PortType`, `Owner` and `Plans` give the blocks' ports and the pairs a tool may name.

## The runs

| run | instance | shows |
|---|---|---|
| `event_chain` | an event list of 3 slots, an external list of 2, two handlers with one event, another that FBs send, one output event per execution, no new event chains after a Kill | order of both rings, mutual exclusion, `TransferNeverSpins`, `NoLostWakeup`, `StopWakes`, that the rings implement the queues of `EventQueues`, and, under fairness, transfer, delivery and stop |
| `event_chain_full` | rings of 2 slots, event chains also after a Kill | violation, see below |
| `event_chain_restart` | the same, with fairness | violation, see below |
| `timed_fbs` | an `E_DELAY` and a block under STOP and management commands, which is an `E_DELAY`, an `E_CYCLE` or an `E_RDELAY`; intervals 0 and 2, lists that overflow, words of 3 values | `TimesCompare`, `ListSorted`, `ActiveIsPending`, `RestartedHasTimer`, `CycleRegistered`, `NeverEarly`, `DelayEnds` |
| `timed_lost` | an `E_RDELAY` and a delay | violation, see below |
| `ip_comm` | a server with two connections, a client; buffer of 2 units, interrupt queue of 2, one waiting external event, INIT- and all commands | `ReceivedIsHandedOrBuffered`, `ReportedDataHasEvent`, `OneClient`, `ClosedByPeerEnds` |
| `local_comm` | two resources, three applications: a publisher with two subscribers in the other resource; a publisher in each resource with one subscriber, which is at home with one of them; resources that publish to each other. Two publications, queues of one interrupt and two events, commands to one subscriber | `OnePublication`, `LatestSeen`, `AllServed`, `SendEnds` |
| `fb_lifecycle` | a resource with `START`, a name that may be a block or the container of a composite, blocks created and deleted in any order; all commands to the resource, some to `START` and to the composite alone; an event list of 2 | `NamesUnique`, `Agreement`, `PostsAreAwaited`, `WarmFollowsStop`, `StopEnds` |
| `connections` | three applications, in which any command comes at any time: an event output and two inputs; a REAL and an ANY output with an INT, an ANY and a STRING input; two plugs and two sockets, one for any adapter. Every block may be deleted | `PointersAreGranted`, `GrantedIsConnected`, `ReadsConverted` |
| `restart_stop_sent` | the same | violation, see below |
| `ip_unhandled` | a server with two connections, no commands | violation, see below |
| `ip_reopen` | a server opened twice, with commands | violation, see below |

Each passing run also checks its module's type invariant, whose bounds on rings,
buffer and interrupt queue are what keeps the code inside its arrays.

The bounds. The event list of `event_chain` has three slots and so room for two entries:
the one that is delivered and one that its FB adds meanwhile, or one the transfer brings.
An FB that sends itself an event for each that it gets keeps the list busy for ever
while handlers queue others, and for `HeadDelivered` and `ExternalEventsTransferred` each
has to come up nevertheless; a list that is full is jammed, and said to be. The external list of two
slots fills and wraps with every event; the code has 256 and 10 slots. Longer rings are not left
to analogy: the safety properties and the refinement are proved for every length above 1 and any
number of events, and what the run adds to the proofs are the liveness properties. After a
Kill the properties promise little, so that the run lets no handler begin a new event chain
there (`AfterKill`); chains that have begun go on. Two handlers are enough for one to be
between its two writes while another waits for the mutex. The semaphore counts to
`SemBound`, and its highest value stands for all larger ones (a wait there may
leave it). `MaxFanout` bounds the output events of one execution, `InputLimit`
the events the application has waiting, `ExternalLimit` and `ListLimit` are the
sizes of the event lists. An interval of 0 fires in the next tick, one of 2 lies
before or behind it, and both may fire in the same tick. STOP (`Stoppable`) and the commands
(`Managed`) reach the second of the two blocks only, which is of each type in turn: what
they do to the first is what they do to an `E_DELAY` that comes second, and two blocks that are both
stopped meet in the list, not in their flags. The theorems have commands and STOP for every
block. `WordSize` of 3
lets both intervals cross the wrap of the lower word; the theorems about `ForteTime` hold
for every width. `MaxUnits` units fill the
buffer of `Size`; a data interrupt, one for the close and one for a failure overflow
the interrupt queue of `QueueSize`; a second connection is what a server refuses or
accepts next. `MaxOpened` bounds the stacks opened; reopening matters only where
pointers to an earlier stack are left, in `ip_reopen`. `Environment` bounds
`IPComm`: after a data race, which excuses all but the type invariant, peers,
application and management do nothing more. In `LocalComm` two publications are
what can be mixed, an interrupt queue of one is full when the second comes, and
of two subscribers one can leave while the other, or itself, is served;
`MaxPublished` bounds the publications, `Managed` the blocks that get commands.
In `FBLifecycle`, a name in another is the shortest way in which names can conflict, the
composite has one internal block, and of two blocks in a row one can refuse after the
other has changed (the proofs are for trees of any depth and any number of blocks); an event
list of 2 holds a stale event beside the awaited one, and overflows with a third; `PostLimit` bounds the posts of a semaphore. In
`Connections` two sources and two or three sinks are what two connections need to
meet at one of them, and one of each kind of type (numbers with and without
special cast, a text, ANY) tells the cases of the conversion apart; the applications do
not share ports, since no command touches two kinds of connections, except the deletion
of a block.

Deadlock is checked except where the configuration says otherwise: in `timed_fbs`, where
a behaviour ends once a deleted block is still in use, in `IPComm`,
where both threads wait for good once the peers have sent their units and closed,
in `LocalComm`, where a resource may be stopped for good, and where threads
that publish to each other may wait for each other (see below), in
`FBLifecycle`, where a Stop waits for ever if nobody delivers its event, and in
`Connections`, where all blocks may have been deleted.

### Fairness

`EventChain!Fairness`: threads that can run are scheduled (weak fairness); a
mutex that is released again and again is obtained (strong fairness of
`AcquireSync` and `ClearExternalList`). No handler need start an event chain, no FB
need send an event, no command need arrive. `TimedFBs!Fairness`: the timer thread
ticks, since its loop does nothing else until it is stopped, the ECET executes its
events, a Stop command that has come is executed to its end, and the last two obtain `m_oSync`,
which the timer thread releases after every tick, in the end (strong fairness of `Execute` and
`Stop`). `IPComm!Fairness`: network and event chain
thread are scheduled; no peer, INIT or command is assumed. `LocalComm!Fairness`:
each resource's thread is scheduled. `FBLifecycle!FairSpec`: both threads are
scheduled, no command has to come. In `LocalComm`, weak fairness is enough for its locks: as
publications are bounded, a lock that is released is free in the end. These are the
guarantees of a pthread scheduler with default priorities; nothing in the code
gives more.

### Where the code does not do what it says

Each of these runs checks a statement of a comment or a message of the
repository and finds it violated; `PROJECT.json` quotes the line.

* `event_chain_full`: a ring that has been full and is drained is empty and full at
  once, and drops every event from then on.
* `event_chain_restart`: a stopped resource that is started again has no thread.
* `timed_lost`: an `E_RDELAY` can be in the timer's list twice and then cuts off the
  blocks behind it. Beside an `E_CYCLE`, which goes back into the list whenever it
  fires, the same double registration turns the list into a circle.
* `ip_unhandled`: data is received and its external event queued; before that is
  executed another client tries to connect, and `recvData()` resets the response
  that says there is data. The message stays in the buffer. If it has filled the
  buffer, the network thread then waits for room that nobody makes.
* `restart_stop_sent`: a Stop that comes while `E_RESTART` is sending COLD ends its
  wait, and stops the block, before STOP was sent. Its event is left in the list,
  stale: it may be executed after the next Start of the block, even before that has
  stored what to send, so that STOP is sent once more.
* `ip_reopen`: after Kill, Reset, Start and INIT the interrupt queue still holds a
  pointer to the deleted layer.

`SendEnds` of `local_comm` excuses two behaviours of the code, which TLC shows if
an excuse is left out. Two resources that publish to each other can wait for each other
for ever: each holds its own lock while it waits for the other's
(`core/cominfra/localcomlayer.cpp:47`). And a walk need not end while subscribers
close and open again and again behind it, for they come back at the list's end.

`StopEnds` of `fb_lifecycle` is limited to a thread that runs: together with
`event_chain_restart` it means that a resource which is stopped, started and
stopped again never answers the second Stop, nor does an `E_RESTART` that is started
and stopped by itself in a resource that has not been started.

The properties of `connections` excuse three things a refused command does:
* a data connection to an input that reads another one is given up by removing the
  *first* destination of the list, not the one just added (`core/dataconn.cpp:148`):
  another input of that output goes on reading, but can no longer be disconnected;
* a data connection whose types do not fit resets the flag by which the other
  destinations of the output are cast (`core/dataconn.cpp:118`), so that a REAL
  is copied bit by bit to an INT input from then on;
* an adapter connection refused by one side disconnects both without asking to whom
  they belong (`core/adapterconn.cpp:46`), so that the socket of another connection
  is cut off while its plug and the tool believe it connected.

The message of `core/funcbloc.cpp:159`, that the latest connection attempt is used, is not
what happens: the older connection is kept.

Others have no run of their own; most are hazards of `PROJECT.json`, with their lines:
a stop that comes before
the new thread has marked itself alive is overwritten; a stopped delay sends EO
if its timer had fired already, which `tests/stdfblib/events/E_DELAY_tester.cpp:57`
expects not to happen; the difference of two `SForteTime`s is one tick short
when it borrows from the upper word (`arch/timerha.h:66`); a block can be deleted while the timer or an event
list points to it; a dropped timer event leaves a delay active for ever; what a
client sent just before it closed may reach the block together with the next
client's data.

## The proofs

For each component the argument is the same: an invariant that is inductive, true
initially and kept by every action, of which the properties the runs check are
consequences. TLC checked each invariant on the run's instance before it was proved. A
theorem holds for every value of the constants that meets the module's `ASSUME`, which
TLC evaluates in the runs; a further hypothesis is in its statement, and named here.

`EventRingProofs` has the lemmas about rings, for every length above 1: `Write`,
`Advance`, `Add` and `RemoveFirst` keep the type and keep a ring `WellFormed`.
`EventChainProofs` proves `Spec => []Inv` for every set of handlers and events, every
length of the rings and every bound, and from it the type invariant and the
six safety properties the runs check. The safety properties are not inductive by
themselves: that no wake-up is lost while the thread sleeps needs the same already at the
moment the thread has found the external ring empty and not yet suspended itself
(`pc = "test"`), when a handler can queue its event unseen; that `RemoveDelivered`
keeps the event list in order needs that the delivered entry is still there while
the FB adds others; that a handler's second write keeps the external ring in order
needs that the slot it wrote is the one at `end`. `Inv` adds exactly these.
Assumptions: `SizeAssumption`, `BoundAssumption`, `ThreadAssumption` of
`EventChain` and `NoEventAssumption` of `EventRing`; all are evaluated by TLC in the
runs.

`LocalCommProofs` proves the type invariant, `OnePublication`, `LatestSeen`, `AllServed`
and that all writes are made under the locks (`LocksTheorem`), for any number of
resources, blocks and groups and every application, from `LocalAssumption`. `OnePublication` speaks of what was
copied to the connections; the invariant `Inv` adds what makes the copy whole. A walk holds its own
resource's lock (`OwnLock`) and, from `LockTarget` to `StartNewEventChain`, that
of the subscriber (`TargetLock`), so that no two walks are at the same subscriber
(`WriteAlone`); between the two writes the first output is the walk's number
(`HalfWritten`); and outputs that differ are those of a walk that is between its
writes, or was cut off there by a block's deletion, and still holds the lock
(`MixedIsLocked`). IND needs the lock free, so that it copies outputs that agree.
That events are executed in the resource of their block (`EventsAtHome`,
`ReceivesAtHome`) is what makes the lock IND takes the one the writers use.
The other two are about what comes later, so that `QueueInv` follows a publication on its
way. A block is in its group's list at most once (`Members`), and whom a walk has missed so
far is at its place in the list or behind (`Ahead`): registering appends, and unregistering
moves a walk that stood at the block on to the next one, which makes `AllServed` inductive.
For `LatestSeen`, the interrupt queue's count never exceeds its size although
two threads change it (`Counts`), an event that is about to be queued finds an interrupt
(`Counted`), and whatever a subscriber's outputs have that its connections do not is
announced by a walk, an event with an interrupt, or an execution (`Informed`).

`EventChainRefinement` proves `Spec => ImplementsEventQueues` from the same
invariant. The abstract queues are the contents of the rings, read from `start` to `end`;
they are jammed when the ring is full. Lemmas say what a write, an advance and a
removal make of the contents (`AdvanceContents`, for example), and each action maps to an
abstract step or to none: `AdvanceExternalEnd` is where an event enters the external
queue (the write before it is seen by nobody), a round of the transfer moves one over,
`RemoveDelivered` takes the oldest. The invariant needed one more conjunct for this, that a
management thread in the middle of `clear()` has
been sent by a Kill (`manager = "clearExternal" => killed`): the queues promise
nothing after one.

`ConnectionsProofs` proves the type invariant, `PointersAreGranted`,
`GrantedIsConnected` and `ReadsConverted` for any blocks, ports, types and plans that
meet `PortAssumption`. Taken together the four are nearly inductive; `Inv` adds three
facts. `SocketsAgree`: a socket's peer and its connection agree, and that connection
names the socket, without which `Released` could leave half of a connection behind.
`OneSocket`: a plug's connection has one destination at most, and its socket is that
one. `InputsUntyped`: an input that reads a connection is one of a block that exists, and
has no type while the connection has none, which is why handing a type on reaches it.

`TimedFBsProofs` begins with the two words of a time, for every width: adding an
interval moves a time by as many ticks (`PlusAdds`) as long as the upper word does not
wrap, the comparison is that of the ticks (`LaterIsGreater`), an increment takes one
(`IncrementTakesOne`), and the difference of two times is one short exactly when the
lower words borrow (`MinusIsOneShort`). With them it proves the type
invariant of `TimedFBs` and `TimesAlwaysCompare`, for any set of blocks and
applications; its invariant adds that timeouts and intervals fit a word (`WordsOK`), and
that a Stop under way has a block (`StopHasBlock`), or the entry it unregisters
would be none. The rest is about the list, whose pointers need an argument of
their own. `Walk(h, nx)[n]` is where n steps from the head lead, and `Reach` what they come
to; that a walk ends is said without counting (`Ends`: in each set of reached entries
there is one whose `next` is outside of it), which insertion, removal and the timer's
cut at the front can be shown to keep, and which gives that the walk ends within as many
steps as there are blocks. `TimerShape` is the invariant: the list ends and is sorted until
a delay is overtaken (`ListShape`); a START between its two halves found the
flag FALSE (`Flagged`); a delay has at most one timer, in the list or among the events
(`DelaysAtMost`), and at least one while it is active and its events are not dropped
(`DelaysAtLeast`); a cycle is in the list from its registration until it is taken
out (`Cycled`). No theorem restricts the blocks that
commands come to: a command that is between its halves is at one place of the
invariant like a START or STOP that is, and the two ways in which it can cross a START are
told apart by the histories. A block in `crossed` is free from `DelaysAtLeast`, and from
what a stopped block's flag promises (`Stopped`); that it is in the list at most once, and the
list sorted, is kept. An `E_RDELAY` that is caught in its restart is in `overtaken`, and
there the promise about the list ends.

`IPCommProofs` proves the type invariant, `OneClient`,
`ReceivedIsHandedOrBuffered` and `ReportedDataHasEvent` from `IPAssumption`, for
buffers and queues of every size, any number of clients, units and openings, and
whether commands come or not. None is inductive. For the types, `ReadFits` says
that what the network thread has read fits behind what was in the buffer when it
looked, which the event chain thread only ever makes less, and `CountsAgree` that
a count one thread holds errs on its own side: the network thread's is never below the
queue's, the event chain thread's never above. So the queue keeps its bounds even
where `+=` and `-=` of the two threads overlap. `OneConnection` adds that a layer which
listens, or whose network thread is about to accept, has no socket. `InOrder` says
what the two parts of the data hold, unit by unit, and that the fill the
network thread has loaded is still right. `Reported` follows reported data through
all steps of both threads: inside the layer nothing is reported (`NothingReported`);
later an interrupt is in the queue or among those being processed (`Queued`), and
an event comes or is being executed (`Announced`).

`FBLifecycleProofs` proves the type invariant, `NamesUnique`, `Agreement`,
`PostsAreAwaited` and `WarmFollowsStop`, for every tree of names, every set of
creations and commands and every limit, from `LifecycleAssumption`. `Inv` has three parts.
The first is about names (`Names`, `StatesOfFBs`): within a container they differ,
only a container that exists, with all those above it, has something in it (`Rooted`), and
an FB has a state exactly while its container has its name. `MadeContainers`,
`CreateNames` and `DeleteNames` say what `findOrCreateContainer()`, `createFB()` and
`deleteFB()` do to that, wherever the path breaks off. The second (`Restarts`) is the protocol
of `E_RESTART` with its own event, for as long as its two threads have not raced: a post
belongs to the Stop that waits (`PostOnce`), `executeEvent()` finds STOP only while that Stop
waits (`ThreadStops`), and a stored STOP or WARM was preceded by what the
history says (`StopIsSent`, `WarmIsSent`). Outside of `E_RESTART`'s part of a command all of it
shrinks to `Quiet`. The third (`Covered`) makes `Agreement` inductive: while a command
to the resource is under way, each FB has been changed, or something in
`command.todo` is it or leads to it (`LeadsTo`). Entering a container on the way to
an FB finds that FB or the next container on the way (`InsideLeads`), which needs
`Rooted`; that `executeEvent()` does not undo what the walk has done needs `ThreadStops`.

Induction is available for numbers only, as the least counterexample: `LeastNumber`, from the
library's `NatLessThanWellFounded` and `WFMin`, is what the walks along the timer's list and
the elements behind one that `RemoveFirst` takes out are proved with.

Only model-checked: all liveness (`DelayEnds`, `ClosedByPeerEnds`, `SendEnds`, `StopEnds`
and the three of `event_chain`), which TLAPS does not reach. Every safety property of a passing run is stated
by a theorem.

## Not modelled, and why

The core is modelled: the threads, what they share, and the commands that change it.
What is left out is listed here, as `not_modelled` or in the note of a partly modelled
component in `PROJECT.json`.

* The asynchronous communication layer (`core/cominfra/comlayer_async.cpp`) and
  monitoring (`core/monitoring.cpp`) share a list and an event entry between two threads with
  no lock at all. A model would have to choose among outcomes the language leaves
  undefined at each access, and no property survives that does not exclude the
  overlap first. Of the layer only the OPC UA module makes use. Their hazards are listed.
* The string dictionary is used by the management thread and, for monitoring and
  new types, by others; what the hazard at `core/stringdict.cpp:197` needs is a reader that holds an
  address while the buffer grows, and the code has nothing that would prevent it.
* Standard event FBs and basic FBs are functions of an event and their own
  variables, executed by one thread; the repository's tests go through their transitions.
* The type library is filled by static constructors before a thread exists.
* Encoding and parsing (ASN.1, management requests, boot files, IDs, IEC 61131-3
  literals) and the data types are sequential work on bytes. The values that
  flow through connections influence none of the properties and are left out.
* Drivers, IO controllers, Lua and the protocol modules depend on libraries and devices that are
  not in the repository; the ports besides POSIX repeat the same handlers.
* Of modelled components: destructors at process exit; publishers and subscribers over UDP
  and stacks of several IP layers; the drift correction of the timer thread and the
  wrap of the upper word of the time, after 2^64 ticks; connections to the interface of a composite block
  and the events of adapters.
