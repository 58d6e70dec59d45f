------------------------------ MODULE LocalComm ------------------------------
(***************************************************************************)
(* Publishers and subscribers over the local layer. Each resource executes *)
(* its blocks in one thread and has a lock, m_oResDataConSync, for their   *)
(* data; a management thread stops, kills, resets and starts blocks. A     *)
(* publisher's thread holds its own resource's lock while it walks the     *)
(* list of its group's subscribers and writes their data, each under the   *)
(* lock of the subscriber's resource.                                      *)
(*                                                                         *)
(* Data is the number of its publication, in two outputs, so that a        *)
(* mixture of two shows. The lists have a lock of their own, m_oSync, that *)
(* is never held together with another: registering is one step. A group   *)
(* without members is removed and made again unseen. All pointers of a     *)
(* block's interrupt queue are to its one layer: their number is enough.   *)
(***************************************************************************)
EXTENDS Integers, Sequences, SequencesExt

CONSTANTS
  Block, Resource, Group,
  Applications,    \* the applications to check
  Managed,         \* the blocks to which management commands come
  QueueSize,       \* cg_unCommunicationInterruptQueueSize
  ExternalLimit,   \* events the event chain's list takes
  MaxPublished,    \* bound: publications in all
  Nobody, Nothing, Gone

ASSUME LocalAssumption ==
  /\ Applications \subseteq [home : [Block -> Resource], group : [Block -> Group],
                             publishers : SUBSET Block, subscribers : SUBSET Block]
  /\ \A a \in Applications : a.publishers \cap a.subscribers = {}
  /\ {QueueSize, ExternalLimit} \subseteq Nat \ {0} /\ MaxPublished \in Nat
  /\ Managed \subseteq Block
  /\ Nobody \notin Resource /\ {Nothing, Gone} \cap Block = {} /\ Nothing # Gone

VARIABLES
  app,         \* the application, which no step changes
  holder,      \* whose thread holds the resource's m_oResDataConSync
  subs,        \* m_lSublList of each group
  open,        \* blocks with m_poTopOfComStack, thus members of their group
  fbState,     \* m_enFBState
  rd, seen,    \* a subscriber's two outputs, and the connections behind them
  count, dead, \* m_unComInterruptQueueCount; blocks whose queued layer was deleted
  ext,         \* external events that wait in each resource
  thread,      \* each resource's thread: where it is and its locals
  published,   \* publications so far
  faults       \* history: "lost", "raced" and "undefined", as in IPComm

vars == <<app, holder, subs, open, fbState, rd, seen, count, dead, ext, thread, published, faults>>

Home(b) == app.home[b]
SubList(p) == subs[app.group[p]]
Zero == [i \in 1 .. 2 |-> 0]

(* missing is a history: subscribers registered since the walk began that  *)
(* it has not served                                                       *)
Idle == [at |-> "idle", block |-> Nothing, dest |-> Nothing, number |-> 0, copy |-> 0,
         missing |-> {}]

Init ==
  /\ app \in Applications
  /\ holder = [r \in Resource |-> Nobody]
  /\ subs = [g \in Group |-> <<>>] /\ open = {}
  /\ fbState = [b \in Block |-> "RUNNING"]
  /\ rd = [b \in Block |-> Zero] /\ seen = rd
  /\ count = [b \in Block |-> 0] /\ dead = {}
  /\ ext = [r \in Resource |-> <<>>]
  /\ thread = [r \in Resource |-> Idle]
  /\ published = 0 /\ faults = {}

Defined == "undefined" \notin faults
RaceIf(overlap) == faults' = faults \cup {f \in {"raced"} : overlap}

Undefined ==
  /\ faults' = faults \cup {"undefined"}
  /\ UNCHANGED <<app, holder, subs, open, fbState, rd, seen, count, dead, ext, thread, published>>

-----------------------------------------------------------------------------
(* INIT and management commands.                                           *)

Executes(b) ==
  /\ Defined /\ thread[Home(b)].at = "idle" /\ fbState[b] = "RUNNING"
  /\ UNCHANGED <<app, holder, fbState, rd, seen, count, ext, published, faults>>

(* a subscriber becomes the last entry of its group's list                 *)
Register(b) ==
  subs' = [g \in Group |-> IF b \in app.subscribers /\ g = app.group[b]
                           THEN Append(subs[g], b) ELSE subs[g]]

OpenConnection(b) ==
  /\ b \in app.publishers \cup app.subscribers
  /\ Executes(b) /\ b \notin open
  /\ open' = open \cup {b}
  /\ Register(b)
  /\ UNCHANGED <<dead, thread>>

(* The layer unregisters and is deleted. A walk that is at its entry, or   *)
(* is the block's own, has lost its place.                                 *)
Walking(t) == t.at \in {"send", "write", "half", "interrupt", "count", "event"}

(* mutant: the first entry is removed, whichever it is *)
PopFront(b) ==
  subs' = [g \in Group |-> IF b \in Range(subs[g]) THEN Tail(subs[g]) ELSE subs[g]]

(* removeListEntry(): the first entry that is the block's layer             *)
Unregister(b) == subs' = [g \in Group |-> RemoveFirst(subs[g], b)]

CloseConnection(b) ==
  /\ open' = open \ {b}
  /\ Unregister(b)
  /\ dead' = IF b \in open /\ count[b] > 0 THEN dead \cup {b} ELSE dead
  /\ thread' = [r \in Resource |->
       [thread[r] EXCEPT !.missing = @ \ {b},
                         !.dest = IF Walking(thread[r]) /\ b \in open /\ b \in {@, thread[r].block}
                                  THEN Gone ELSE @]]

InitCloses(b) == Executes(b) /\ b \in open /\ CloseConnection(b)

Command(b, from, to) ==
  /\ Defined /\ b \in Managed /\ fbState[b] \in from
  /\ fbState' = [fbState EXCEPT ![b] = to]
  /\ UNCHANGED <<app, holder, rd, seen, count, ext, published, faults>>

StaysOpen == UNCHANGED <<open, subs, dead, thread>>

CommandStop(b) == Command(b, {"RUNNING"}, "STOPPED") /\ StaysOpen
CommandKill(b) == Command(b, {"RUNNING"}, "KILLED") /\ CloseConnection(b)
CommandReset(b) == Command(b, {"STOPPED", "KILLED"}, "IDLE") /\ StaysOpen
CommandStart(b) == Command(b, {"IDLE", "STOPPED"}, "RUNNING") /\ StaysOpen

-----------------------------------------------------------------------------
(* sendData(): for each subscriber setRDs(), which writes its data,        *)
(* interrupts its block and starts an event chain.                         *)

Walk == Defined /\ UNCHANGED <<app, subs, open, fbState, seen, dead, published>>

Publish(p) ==
  LET r == Home(p) IN
  /\ Defined /\ p \in app.publishers \cap open
  /\ thread[r].at = "idle" /\ fbState[p] = "RUNNING" /\ published < MaxPublished
  /\ holder[r] = Nobody
  /\ holder' = [holder EXCEPT ![r] = r]
  /\ published' = published + 1
  /\ thread' = [thread EXCEPT ![r] =
       [at |-> "send", block |-> p, number |-> published + 1, copy |-> 0,
        dest |-> IF SubList(p) = <<>> THEN Nothing ELSE Head(SubList(p)),
        missing |-> Range(SubList(p))]]
  /\ UNCHANGED <<app, subs, open, fbState, rd, seen, count, dead, ext, faults>>

At(r, place) == thread[r].at = place /\ thread[r].dest \in Block
Goes(r, place) == thread' = [thread EXCEPT ![r].at = place]
Target(r) == Home(thread[r].dest)

(* mutant: the subscriber's data is written without its resource's lock *)
WriteUnlocked(r) ==
  /\ Walk /\ At(r, "send")
  /\ Goes(r, "write")
  /\ UNCHANGED <<holder, rd, count, ext, faults>>

LockTarget(r) ==
  /\ Walk /\ At(r, "send")
  /\ Target(r) # r => holder[Target(r)] = Nobody
  /\ holder' = [holder EXCEPT ![Target(r)] = r]
  /\ Goes(r, "write")
  /\ UNCHANGED <<rd, count, ext, faults>>

WriteData(r, from, i, to) ==
  /\ Walk /\ At(r, from)
  /\ rd' = [rd EXCEPT ![thread[r].dest][i] = thread[r].number]
  /\ Goes(r, to)
  /\ UNCHANGED <<holder, count, ext, faults>>

SetFirst(r) == WriteData(r, "write", 1, "half")
SetSecond(r) == WriteData(r, "half", 2, "interrupt")

Receives(s, place) == thread[Home(s)].at = place /\ thread[Home(s)].block = s

(* mutant: one interrupt too many is taken *)
InterruptFullQueue(r) ==
  LET s == thread[r].dest IN
  /\ Walk /\ At(r, "interrupt") /\ count[s] <= QueueSize
  /\ thread' = [thread EXCEPT ![r].at = "count", ![r].copy = count[s]]
  /\ RaceIf(Receives(s, "store"))
  /\ UNCHANGED <<holder, rd, count, ext>>

(* interruptCommFB(); a full queue takes no more                           *)
InterruptCommFB(r) ==
  LET s == thread[r].dest IN
  /\ Walk /\ At(r, "interrupt")
  /\ IF count[s] < QueueSize
     THEN thread' = [thread EXCEPT ![r].at = "count", ![r].copy = count[s]]
     ELSE Goes(r, "event")
  /\ RaceIf(Receives(s, "store"))
  /\ UNCHANGED <<holder, rd, count, ext>>

(* mutant: the interrupt is not counted *)
StoreOnly(r) ==
  /\ Walk /\ At(r, "count")
  /\ Goes(r, "event")
  /\ UNCHANGED <<holder, rd, count, ext, faults>>

AddInterrupt(r) ==
  LET s == thread[r].dest IN
  /\ Walk /\ At(r, "count")
  /\ \E old \in {thread[r].copy, count[s]} : count' = [count EXCEPT ![s] = old + 1]
  /\ RaceIf(Receives(s, "store"))
  /\ Goes(r, "event")
  /\ UNCHANGED <<holder, rd, ext>>

NextSub(p, s) ==
  LET list == SubList(p)
      after == {j \in DOMAIN list : j > 1 /\ list[j - 1] = s}
  IN  IF after = {} THEN Nothing ELSE list[CHOOSE j \in after : TRUE]

ToNextSub(r) ==
  LET t == thread[r] IN
  thread' = [thread EXCEPT ![r] =
    [at |-> "send", block |-> t.block, number |-> t.number, copy |-> 0,
     dest |-> NextSub(t.block, t.dest), missing |-> t.missing \ {t.dest}]]

(* mutant: the subscriber's resource stays locked *)
StaysLocked(r) ==
  LET s == thread[r].dest q == Target(r) IN
  /\ Walk /\ At(r, "event")
  /\ IF Len(ext[q]) < ExternalLimit
     THEN ext' = [ext EXCEPT ![q] = Append(@, s)] /\ UNCHANGED faults
     ELSE faults' = faults \cup {"lost"} /\ UNCHANGED ext
  /\ ToNextSub(r)
  /\ UNCHANGED <<holder, rd, count>>

(* The event chain starts, the subscriber's resource is unlocked and the   *)
(* walk goes on.                                                           *)
StartNewEventChain(r) ==
  LET s == thread[r].dest q == Target(r) IN
  /\ Walk /\ At(r, "event")
  /\ IF Len(ext[q]) < ExternalLimit
     THEN ext' = [ext EXCEPT ![q] = Append(@, s)] /\ UNCHANGED faults
     ELSE faults' = faults \cup {"lost"} /\ UNCHANGED ext
  /\ holder' = [holder EXCEPT ![q] = IF q = r THEN @ ELSE Nobody]
  /\ ToNextSub(r)
  /\ UNCHANGED <<rd, count>>

SendDone(r) ==
  /\ Walk /\ thread[r].at = "send" /\ thread[r].dest = Nothing
  /\ holder' = [holder EXCEPT ![r] = Nobody]
  /\ thread' = [thread EXCEPT ![r] = Idle]
  /\ UNCHANGED <<rd, count, ext, faults>>

(* An entry, a layer or a group pointer of the walk has been deleted.      *)
WalkUsesDeleted(r) == Defined /\ Walking(thread[r]) /\ thread[r].dest = Gone /\ Undefined

-----------------------------------------------------------------------------
(* The external event: receiveData(), then IND, which copies the outputs   *)
(* to the connections under the resource's lock.                           *)

Receive == Defined /\ UNCHANGED <<app, holder, subs, open, fbState, rd, dead, published>>

BeginExternalEvent(r) ==
  LET s == Head(ext[r]) IN
  /\ Receive /\ thread[r].at = "idle" /\ ext[r] # <<>>
  /\ s \in dead => fbState[s] # "RUNNING" \/ count[s] = 0
  /\ ext' = [ext EXCEPT ![r] = Tail(@)]
  /\ IF fbState[s] # "RUNNING"
     THEN faults' = faults \cup {"lost"} /\ UNCHANGED thread
     ELSE /\ UNCHANGED faults
          /\ thread' = IF count[s] = 0 THEN thread
                       ELSE [thread EXCEPT ![r] =
                              [at |-> "receive", block |-> s, dest |-> Nothing, number |-> 0,
                               copy |-> count[s], missing |-> {}]]
  /\ UNCHANGED <<seen, count>>

UsesDeletedLayer(r) ==
  /\ Defined /\ thread[r].at = "idle" /\ ext[r] # <<>>
  /\ LET s == Head(ext[r]) IN s \in dead /\ fbState[s] = "RUNNING" /\ count[s] > 0
  /\ Undefined

(* m_unComInterruptQueueCount -= ComInterruptQueueCountCopy                *)
LoadCount(r) ==
  /\ Receive /\ thread[r].at = "receive"
  /\ thread' = [thread EXCEPT ![r].at = "store", ![r].number = count[thread[r].block]]
  /\ UNCHANGED <<seen, count, ext, faults>>

StoreCount(r) ==
  LET s == thread[r].block IN
  /\ Receive /\ thread[r].at = "store"
  /\ count' = [count EXCEPT ![s] = thread[r].number - thread[r].copy]
  /\ RaceIf(\E q \in Resource : At(q, "count") /\ thread[q].dest = s)
  /\ Goes(r, "indicate")
  /\ UNCHANGED <<seen, ext>>

Indicate(r) ==
  LET s == thread[r].block IN
  /\ Receive /\ thread[r].at = "indicate" /\ holder[r] = Nobody
  /\ seen' = [seen EXCEPT ![s] = rd[s]]
  /\ thread' = [thread EXCEPT ![r] = Idle]
  /\ UNCHANGED <<count, ext, faults>>

-----------------------------------------------------------------------------

EventChain(r) ==
  \/ LockTarget(r) \/ SetFirst(r) \/ SetSecond(r) \/ InterruptCommFB(r) \/ AddInterrupt(r)
  \/ StartNewEventChain(r) \/ SendDone(r) \/ WalkUsesDeleted(r)
  \/ BeginExternalEvent(r) \/ LoadCount(r) \/ StoreCount(r) \/ Indicate(r) \/ UsesDeletedLayer(r)

Application(b) == OpenConnection(b) \/ InitCloses(b) \/ Publish(b)
Management(b) == CommandStop(b) \/ CommandKill(b) \/ CommandReset(b) \/ CommandStart(b)

Next ==
  \/ \E r \in Resource : EventChain(r)
  \/ \E b \in Block : Application(b) \/ Management(b)

Spec == Init /\ [][Next]_vars

(* Each resource's thread is scheduled. As publications are bounded, a lock *)
(* that is released is free in the end. Nobody has to publish, open or     *)
(* command.                                                                *)
Fairness == \A r \in Resource : WF_vars(EventChain(r))

FairSpec == Spec /\ Fairness

-----------------------------------------------------------------------------
(* Properties.                                                             *)

(* The variables have their types; a block is in its group's list at most  *)
(* once, and the interrupt queue and the event list keep to their limits,  *)
(* also when publisher and subscriber count interrupts at once.            *)
TypeOK ==
  /\ app \in Applications
  /\ holder \in [Resource -> Resource \cup {Nobody}]
  /\ \A g \in Group : /\ Range(subs[g]) \subseteq app.subscribers \cap open
                      /\ IsInjective(subs[g])
  /\ open \subseteq app.publishers \cup app.subscribers
  /\ fbState \in [Block -> {"RUNNING", "STOPPED", "KILLED", "IDLE"}]
  /\ {rd, seen} \subseteq [Block -> [1 .. 2 -> 0 .. MaxPublished]]
  /\ count \in [Block -> 0 .. QueueSize] /\ dead \subseteq Block
  /\ \A r \in Resource : /\ Len(ext[r]) <= ExternalLimit
                         /\ \A s \in Range(ext[r]) : Home(s) = r
  /\ \A r \in Resource : thread[r].dest \in Block \cup {Nothing, Gone}
  /\ published \in 0 .. MaxPublished /\ faults \subseteq {"lost", "raced", "undefined"}

(* What a subscriber's connections have received is of one publication,    *)
(* however many resources publish to it: setRDs() writes and IND reads the *)
(* data under the lock of the subscriber's resource.                       *)
OnePublication == \A s \in Block : seen[s][1] = seen[s][2]

(* Once a subscriber has nothing waiting, its connections have what was    *)
(* written last, also when its interrupt queue was full. Excused are       *)
(* events that were dropped and a data race on the queue's count.          *)
LatestSeen ==
  \A s \in app.subscribers :
    \/ faults # {} \/ s \in Range(ext[Home(s)]) \/ thread[Home(s)].block = s
    \/ \E r \in Resource : \/ thread[r].dest = s /\ thread[r].at # "send"
                           \/ thread[r].dest = Gone
    \/ seen[s] = rd[s]

(* A publication reaches each subscriber that stays registered while       *)
(* sendData() walks the list, whoever else comes and goes.                 *)
AllServed ==
  \A r \in Resource :
    thread[r].at = "send" /\ thread[r].dest = Nothing => thread[r].missing = {}

(* Resources that publish to each other wait for each other's locks for    *)
(* ever, and a walk does not end while subscribers close and open without  *)
(* end, always behind it. But for that each sendData() ends, unless the    *)
(* walk meets a deleted entry.                                             *)
PublishesTo(r, q) ==
  \E p \in app.publishers, s \in app.subscribers :
    Home(p) = r /\ Home(s) = q /\ app.group[p] = app.group[s]

OneWay == \A r, q \in Resource : r # q => ~(PublishesTo(r, q) /\ PublishesTo(q, r))

SendEnds ==
  \/ []<><<\E b \in Block : OpenConnection(b)>>_vars
  \/ \A r \in Resource :
       Walking(thread[r]) ~> thread[r].at = "idle" \/ ~OneWay \/ ~Defined
=============================================================================
