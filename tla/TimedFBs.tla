------------------------------ MODULE TimedFBs ------------------------------
(***************************************************************************)
(* The timer handler and the timed function blocks of one resource: the    *)
(* handler's linked list of registered blocks, which its tick works        *)
(* through, the blocks E_DELAY, E_RDELAY and E_CYCLE with their m_bActive  *)
(* flags, the event lists of the thread that executes them, and the        *)
(* management commands that stop, start and delete a block.                *)
(*                                                                         *)
(* Time is relative to m_stForteTime: a timeout is the number of ticks     *)
(* until it, 0 when it has passed, which is all the comparisons see:       *)
(* TimesCompare says so of the two words the code compares.                *)
(***************************************************************************)
EXTENDS Integers, Sequences, FiniteSets, ForteTime

CONSTANTS
  FB,                     \* the timed function blocks
  Applications,           \* the types they may have: functions from FB to TypeName
  Stoppable,              \* the blocks whose STOP is connected
  Managed,                \* the blocks that commands stop, start and delete
  Interval,               \* the values of DT, in ticks
  ZeroInterval,           \* the ticks an interval of 0 is corrected to
  WordSize,               \* the values of a TForteUInt32
  Null,                   \* the null pointer
  InputLimit,             \* bound: waiting events up to which the application sends another
  ExternalLimit,          \* entries the external event list takes before it drops
  ListLimit,              \* the same for the thread's own event list
  GoOnAfter               \* bound: the types of overtaken blocks with which events
                          \* and commands still come

TypeName == {"E_DELAY", "E_RDELAY", "E_CYCLE"}

ASSUME BlockAssumption ==
  /\ IsFiniteSet(FB) /\ Null \notin FB
  /\ Applications \subseteq [FB -> TypeName]
  /\ Stoppable \subseteq FB /\ Managed \subseteq FB
  /\ GoOnAfter \subseteq TypeName
ASSUME NumberAssumption ==
  /\ WordSize \in Nat \ {0}
  /\ Interval \subseteq Word(WordSize) /\ ZeroInterval \in Word(WordSize) \ {0}
  /\ InputLimit \in Nat /\ ExternalLimit \in Nat /\ ListLimit \in Nat
  /\ InputLimit <= ListLimit

VARIABLES
  head,      \* m_pstTimedFBList
  next,      \* m_pstNext of each block's list entry
  timeout,   \* m_stTimeOut
  period,    \* m_nInterval, of the periodic entries, which alone use it again
  tick,      \* where the timer thread is in nextTick(); in "fire" it holds m_oSync
  type,      \* the type of each block, which no step changes
  active,    \* m_bActive
  fbState,   \* m_enFBState, or "DELETED"
  external,  \* the external event list of the event chain thread
  queue,     \* its own event list
  current,   \* the event being executed, or <<>>
  step,      \* how far START or STOP is: "begin", "register" again, "flag": m_bActive is next
  manager,   \* where a Stop command is: "idle", "test", "flag"
  stopping,  \* the block it stops
  due,       \* history: ticks until the delay of the last START is over; Never after a STOP
             \* and after a Stop command that found the block active
  lost,      \* history: the blocks of which a full list has dropped a timer event
  crossed,   \* history: the blocks to which a Stop command came during their START
  overtaken  \* history: the delays that were taken out of the timer's list while
             \* their timer event was in an event list already, and the E_RDELAYs
             \* to which a Stop command came during their restart

timerVars == <<head, next, timeout, period>>
ecetVars == <<queue, current, step>>
managerVars == <<manager, stopping, fbState, crossed>>
vars == <<timerVars, tick, type, active, external, ecetVars, managerVars, due, lost, overtaken>>

Never == -1
Event == FB \X {"START", "STOP", "EXT"}
Ext(f) == <<f, "EXT">>

Init ==
  /\ head = Null
  /\ next = [f \in FB |-> Null]
  /\ timeout = [f \in FB |-> 0]
  /\ period = [f \in FB |-> 0]
  /\ tick = "sleep"
  /\ type \in Applications
  /\ active = [f \in FB |-> FALSE]
  /\ external = <<>> /\ queue = <<>> /\ current = <<>> /\ step = "begin"
  /\ manager = "idle" /\ stopping = Null /\ fbState = [f \in FB |-> "RUNNING"]
  /\ due = [f \in FB |-> Never] /\ lost = {} /\ crossed = {} /\ overtaken = {}

-----------------------------------------------------------------------------
(* The list. It is walked from a head through m_pstNext, and a walk need   *)
(* not end: an entry put in twice can point to itself.                     *)

Walk(h, nx) ==
  LET node[k \in 0 .. Cardinality(FB)] ==
        IF k = 0 THEN h
        ELSE IF node[k - 1] = Null THEN Null ELSE nx[node[k - 1]]
  IN  node

Listed == {Walk(head, next)[k] : k \in 0 .. Cardinality(FB)} \ {Null}

(* the first node whose successor is in S; no node when the walk goes on   *)
(* for ever without meeting one                                            *)
FirstBefore(h, nx, S) ==
  {p \in FB : \E k \in 0 .. Cardinality(FB) :
     /\ Walk(h, nx)[k] = p /\ nx[p] \in S
     /\ \A j \in 0 .. (k - 1) : nx[Walk(h, nx)[j]] \notin S}

Elements(q) == {q[k] : k \in DOMAIN q}

(* A block that has been deleted is freed memory: what happens once it is  *)
(* still in the list, in an event list or being executed is undefined, and *)
(* the behaviour ends there.                                               *)
Defined ==
  \A f \in FB : fbState[f] = "DELETED" =>
    f \notin Listed /\ \A e \in Elements(external \o queue) \cup {current} : e # <<>> => e[1] # f

Distance(i) == IF i = 0 THEN ZeroInterval ELSE i

(* mutant: every entry goes to the end of the list *)
InsertLast(h, nx, at, f, t) ==
  LET cut == [nx EXCEPT ![f] = Null]
  IN  IF h = Null THEN {<<f, cut>>}
      ELSE {<<h, [cut EXCEPT ![p] = f]>> : p \in FirstBefore(h, cut, {Null})}

(* mutant: an entry put in front loses the rest of the list *)
InsertAlone(h, nx, at, f, t) ==
  LET times == [at EXCEPT ![f] = t]
      cut   == [nx EXCEPT ![f] = Null]
      Later == {Null} \cup {p \in FB : times[p] > t}
  IN  IF h \in Later THEN {<<f, cut>>}
      ELSE {<<h, [cut EXCEPT ![f] = cut[p], ![p] = f]>> :
              p \in FirstBefore(h, cut, Later)}

(* addTimedFBEntry(): f goes before the first entry with a later timeout   *)
(* than t; the entry's m_pstNext is reset first, wherever it is            *)
Insert(h, nx, at, f, t) ==
  LET times == [at EXCEPT ![f] = t]
      cut   == [nx EXCEPT ![f] = Null]
      Later == {Null} \cup {p \in FB : times[p] > t}
  IN  IF h \in Later THEN {<<f, [cut EXCEPT ![f] = h]>>}
      ELSE {<<h, [cut EXCEPT ![f] = cut[p], ![p] = f]>> :
              p \in FirstBefore(h, cut, Later)}

RegisterTimedFB(f, i) ==
  /\ \E list \in Insert(head, next, timeout, f, Distance(i)) :
       head' = list[1] /\ next' = list[2]
  /\ timeout' = [timeout EXCEPT ![f] = Distance(i)]
  /\ period' = [period EXCEPT ![f] = IF type[f] = "E_CYCLE" THEN i ELSE @]

(* unregisterTimedFB(); a block that is not found is left alone *)
UnregisterTimedFB(f) ==
  /\ UNCHANGED period
  /\ \/ /\ head = f
        /\ head' = next[f]
        /\ next' = [next EXCEPT ![f] = Null]
        /\ timeout' = [timeout EXCEPT ![f] = 0]
     \/ /\ head \notin {f, Null}
        /\ \E p \in FirstBefore(head, next, {f, Null}) :
             IF next[p] = f
             THEN /\ next' = [next EXCEPT ![p] = next[f], ![f] = Null]
                  /\ timeout' = [timeout EXCEPT ![f] = 0]
             ELSE UNCHANGED <<next, timeout>>
        /\ UNCHANGED head
     \/ head = Null /\ UNCHANGED <<head, next, timeout>>

-----------------------------------------------------------------------------
(* The timer thread: nextTick(). *)

DownForEver(t) == t - 1   \* mutant: time that has passed is not forgotten
Down(t) == IF t > 0 THEN t - 1 ELSE t

Tick ==
  /\ tick = "sleep"
  /\ timeout' = [f \in FB |-> Down(timeout[f])]
  /\ due' = [f \in FB |-> Down(due[f])]
  /\ tick' = "look"
  /\ UNCHANGED <<head, next, period, active, external, ecetVars, managerVars, type, lost, overtaken>>

(* the list is tested before the mutex is taken *)
LookAtList ==
  /\ tick = "look"
  /\ tick' = IF head = Null THEN "sleep" ELSE "fire"
  /\ UNCHANGED <<timerVars, active, external, ecetVars, managerVars, due, type, lost, overtaken>>

(* start the event chain of a block whose time is over; a full external    *)
(* list drops it                                                           *)
Notify(f) ==
  IF Len(external) < ExternalLimit
  THEN external' = Append(external, Ext(f)) /\ UNCHANGED lost
  ELSE lost' = lost \cup {f} /\ UNCHANGED external

(* the first entry goes, unless its block is periodic: then it is put in   *)
(* again                                                                   *)
Requeue(f) ==
  /\ UNCHANGED period
  /\ IF type[f] = "E_CYCLE"
     THEN /\ \E list \in Insert(next[f], next, timeout, f, Distance(period[f])) :
               head' = list[1] /\ next' = list[2]
          /\ timeout' = [timeout EXCEPT ![f] = Distance(period[f])]
     ELSE /\ head' = next[f]
          /\ next' = [next EXCEPT ![f] = Null]
          /\ timeout' = [timeout EXCEPT ![f] = 0]

(* mutant: an entry fires one tick before its timeout *)
FireEarly ==
  /\ tick = "fire"
  /\ head # Null /\ timeout[head] <= 1
  /\ Notify(head) /\ Requeue(head)
  /\ UNCHANGED <<tick, type, active, ecetVars, managerVars, due, overtaken>>

Fire ==
  /\ tick = "fire"
  /\ head # Null /\ timeout[head] = 0
  /\ Notify(head) /\ Requeue(head)
  /\ UNCHANGED <<tick, type, active, ecetVars, managerVars, due, overtaken>>

TickDone ==
  /\ tick = "fire"
  /\ head # Null => timeout[head] > 0
  /\ tick' = "sleep"
  /\ UNCHANGED <<timerVars, active, external, ecetVars, managerVars, due, type, lost, overtaken>>

-----------------------------------------------------------------------------
(* The event chain thread. *)

GoesOn == \A f \in overtaken : type[f] \in GoOnAfter

(* another block sends START or STOP *)
SendInputEvent(f, input) ==
  /\ Defined /\ Len(queue) < InputLimit /\ GoesOn
  /\ input = "STOP" => f \in Stoppable
  /\ queue' = Append(queue, <<f, input>>)
  /\ UNCHANGED <<timerVars, tick, active, external, current, step, managerVars, due, type, lost, overtaken>>

(* a round of run(): take the external events over, which a full list      *)
(* drops, and hand the oldest event to its block, which ignores it unless  *)
(* it is RUNNING. Of an overflow EventChain tells more.                    *)
ReceiveInputEvent ==
  /\ Defined /\ current = <<>>
  /\ LET all     == queue \o external
         pending == SubSeq(all, 1, IF Len(all) < ListLimit THEN Len(all) ELSE ListLimit)
     IN  /\ pending # <<>>
         /\ queue' = Tail(pending)
         /\ current' = IF fbState[Head(pending)[1]] = "RUNNING" THEN Head(pending) ELSE <<>>
         /\ lost' = lost \cup {f \in FB : Ext(f) \in Elements(all) \ Elements(pending)}
  /\ external' = <<>>
  /\ UNCHANGED <<timerVars, tick, type, active, step, managerVars, due, overtaken>>

Executing(f, input) == current = <<f, input>>

Pending(f) ==
  Cardinality({k \in DOMAIN external : external[k] = Ext(f)})
    + Cardinality({k \in DOMAIN queue : queue[k] = Ext(f)})
    + (IF Executing(f, "EXT") THEN 1 ELSE 0)

(* unregistering does not take the timer event out of the event lists; for *)
(* a cycle it is one EO too many, a delay is over by it                    *)
NoteOvertaken(f) ==
  overtaken' = IF Pending(f) > 0 /\ type[f] # "E_CYCLE" THEN overtaken \cup {f} ELSE overtaken

(* mutant: a delay stays active when it is over *)
NotifyOnly(f) ==
  /\ Executing(f, "EXT")
  /\ current' = <<>>
  /\ UNCHANGED <<timerVars, tick, active, external, queue, step, managerVars, due, type, lost, overtaken>>

(* the timer's event: EO is sent, and unless the block is periodic it is   *)
(* no longer active                                                        *)
ExecuteExternalEvent(f) ==
  /\ Executing(f, "EXT")
  /\ active' = IF type[f] = "E_CYCLE" THEN active ELSE [active EXCEPT ![f] = FALSE]
  /\ current' = <<>>
  /\ UNCHANGED <<timerVars, tick, external, queue, step, managerVars, due, type, lost, overtaken>>

DueAfter(f, i) == IF type[f] = "E_CYCLE" THEN Never ELSE Distance(i)

(* mutant: START registers the block however active it is *)
RegisterUntested(f, i) ==
  /\ Executing(f, "START") /\ step = "begin"
  /\ tick # "fire"
  /\ RegisterTimedFB(f, i)
  /\ step' = "flag" /\ due' = [due EXCEPT ![f] = DueAfter(f, i)]
  /\ UNCHANGED <<tick, active, external, queue, current, managerVars, type, lost, overtaken>>

(* START of a block that is not active *)
StartDelay(f, i) ==
  /\ Executing(f, "START") /\ tick # "fire"
  /\ (step = "begin" /\ ~active[f]) \/ step = "register"
  /\ RegisterTimedFB(f, i)
  /\ step' = "flag" /\ due' = [due EXCEPT ![f] = DueAfter(f, i)]
  /\ UNCHANGED <<tick, active, external, queue, current, managerVars, type, lost, overtaken>>

(* mutant: the block is not registered again *)
RestartRemoves(f) ==
  /\ Executing(f, "START") /\ step = "begin"
  /\ type[f] = "E_RDELAY" /\ active[f] /\ tick # "fire"
  /\ UnregisterTimedFB(f) /\ NoteOvertaken(f)
  /\ step' = "flag"
  /\ UNCHANGED <<tick, active, external, queue, current, managerVars, due, type, lost>>

(* START of an active E_RDELAY: it is taken out of the list first *)
RestartDelay(f) ==
  /\ Executing(f, "START") /\ step = "begin"
  /\ type[f] = "E_RDELAY" /\ active[f] /\ tick # "fire"
  /\ UnregisterTimedFB(f) /\ NoteOvertaken(f)
  /\ step' = "register"
  /\ UNCHANGED <<tick, active, external, queue, current, managerVars, due, type, lost>>

(* START of any other active block does nothing *)
IgnoreStart(f) ==
  /\ Executing(f, "START") /\ step = "begin"
  /\ type[f] # "E_RDELAY" /\ active[f]
  /\ current' = <<>>
  /\ UNCHANGED <<timerVars, tick, active, external, queue, step, managerVars, due, type, lost, overtaken>>

StopDelay(f) ==
  /\ Executing(f, "STOP") /\ step = "begin"
  /\ active[f] /\ tick # "fire"
  /\ UnregisterTimedFB(f) /\ NoteOvertaken(f)
  /\ step' = "flag" /\ due' = [due EXCEPT ![f] = Never]
  /\ UNCHANGED <<tick, active, external, queue, current, managerVars, type, lost>>

IgnoreStop(f) ==
  /\ Executing(f, "STOP") /\ step = "begin"
  /\ ~active[f]
  /\ current' = <<>>
  /\ due' = [due EXCEPT ![f] = Never]
  /\ UNCHANGED <<timerVars, tick, active, external, queue, step, managerVars, type, lost, overtaken>>

(* the last statement of START and STOP *)
WriteActive(f, input) ==
  /\ Executing(f, input) /\ step = "flag"
  /\ active' = [active EXCEPT ![f] = (input = "START")]
  /\ current' = <<>> /\ step' = "begin"
  /\ UNCHANGED <<timerVars, tick, external, queue, managerVars, due, type, lost, overtaken>>

Execute(f) ==
  /\ Defined
  /\ \/ ExecuteExternalEvent(f)
     \/ \E i \in Interval : StartDelay(f, i)
     \/ RestartDelay(f) \/ IgnoreStart(f) \/ StopDelay(f) \/ IgnoreStop(f)
     \/ \E input \in {"START", "STOP"} : WriteActive(f, input)

-----------------------------------------------------------------------------
(* Management commands, from the thread of the management interface. Kill  *)
(* followed by Reset does to a timed block what Stop does.                 *)

CommandStop(f) ==
  /\ Defined /\ GoesOn /\ manager = "idle" /\ f \in Managed /\ fbState[f] = "RUNNING"
  /\ fbState' = [fbState EXCEPT ![f] = "STOPPED"]
  /\ manager' = "test" /\ stopping' = f
  /\ crossed' = IF Executing(f, "START") THEN crossed \cup {f} ELSE crossed
  /\ overtaken' = IF Executing(f, "START") /\ type[f] = "E_RDELAY" /\ active[f]
                  THEN overtaken \cup {f} ELSE overtaken
  /\ UNCHANGED <<timerVars, tick, active, external, ecetVars, due, type, lost>>

(* mutant: a Stop leaves the block in the timer's list *)
StopLeavesRegistered ==
  /\ manager = "test"
  /\ manager' = "flag"
  /\ UNCHANGED <<timerVars, tick, active, external, ecetVars, fbState, stopping, crossed, due, type, lost,
                 overtaken>>

UnregisterStopped ==
  /\ manager = "test"
  /\ IF active[stopping]
     THEN /\ tick # "fire" /\ UnregisterTimedFB(stopping) /\ NoteOvertaken(stopping)
          /\ manager' = "flag" /\ due' = [due EXCEPT ![stopping] = Never]
          /\ UNCHANGED stopping
     ELSE /\ manager' = "idle" /\ stopping' = Null
          /\ UNCHANGED <<timerVars, due, overtaken>>
  /\ UNCHANGED <<tick, active, external, ecetVars, fbState, crossed, type, lost>>

DeactivateStopped ==
  /\ manager = "flag"
  /\ active' = [active EXCEPT ![stopping] = FALSE]
  /\ manager' = "idle" /\ stopping' = Null
  /\ UNCHANGED <<timerVars, tick, external, ecetVars, fbState, crossed, due, type, lost,
                 overtaken>>

CommandStart(f) ==
  /\ Defined /\ GoesOn /\ manager = "idle" /\ f \in Managed /\ fbState[f] = "STOPPED"
  /\ fbState' = [fbState EXCEPT ![f] = "RUNNING"]
  /\ UNCHANGED <<timerVars, tick, active, external, ecetVars, manager, stopping, crossed, due, type,
                 lost, overtaken>>

(* deleteFB(): isCurrentlyDeleteable() asks for the state only *)
CommandDelete(f) ==
  /\ Defined /\ GoesOn /\ manager = "idle" /\ f \in Managed /\ fbState[f] = "STOPPED"
  /\ fbState' = [fbState EXCEPT ![f] = "DELETED"]
  /\ UNCHANGED <<timerVars, tick, active, external, ecetVars, manager, stopping, crossed, due, type,
                 lost, overtaken>>

-----------------------------------------------------------------------------
Timer == Defined /\ (Tick \/ LookAtList \/ Fire \/ TickDone)

Stop == Defined /\ (UnregisterStopped \/ DeactivateStopped)

Next ==
  \/ Timer
  \/ \E f \in FB, input \in {"START", "STOP"} : SendInputEvent(f, input)
  \/ ReceiveInputEvent
  \/ \E f \in FB : Execute(f)
  \/ \E f \in FB : CommandStop(f) \/ CommandStart(f) \/ CommandDelete(f)
  \/ Stop

Spec == Init /\ [][Next]_vars

(* The timer thread ticks for ever, the event chain thread and a command   *)
(* that has come are scheduled; m_oSync is free again and again for them.  *)
Fairness ==
  /\ WF_vars(Timer)
  /\ WF_vars(ReceiveInputEvent) /\ \A f \in FB : SF_vars(Execute(f))
  /\ SF_vars(Stop)

FairSpec == Spec /\ Fairness
-----------------------------------------------------------------------------
TypeOK ==
  /\ head \in FB \cup {Null}
  /\ next \in [FB -> FB \cup {Null}]
  /\ timeout \in [FB -> Nat] /\ period \in [FB -> Interval \cup {0}]
  /\ tick \in {"sleep", "look", "fire"}
  /\ type \in Applications
  /\ active \in [FB -> BOOLEAN]
  /\ fbState \in [FB -> {"RUNNING", "STOPPED", "DELETED"}]
  /\ external \in Seq(Event) /\ queue \in Seq(Event)
  /\ current \in Event \cup {<<>>}
  /\ step \in {"begin", "register", "flag"}
  /\ manager \in {"idle", "test", "flag"} /\ stopping \in FB \cup {Null}
  /\ due \in [FB -> Nat \cup {Never}]
  /\ lost \subseteq FB /\ crossed \subseteq FB /\ overtaken \subseteq FB

(* The order in which the timer's list is sorted and fires is that of the  *)
(* times the code compares, two words each, wherever the clock stands and  *)
(* whether or not a timeout lies beyond the wrap of the lower word; and a  *)
(* tick, which increments the clock, brings each timeout one tick nearer.  *)
(* Only that the upper word wraps is left out.                             *)
TimesCompare ==
  \A now \in SForteTime(WordSize) : now.upper < WordSize - 1 =>
    \A f, g \in FB :
      LET At(h) == Plus(WordSize, now, timeout[h]) IN
        /\ IsLater(At(f), now) <=> timeout[f] > 0
        /\ timeout[f] > 0 =>
             At(f) = Plus(WordSize, Increment(WordSize, now), Down(timeout[f]))
        /\ IsLater(At(f), At(g)) <=> timeout[f] > timeout[g]

Of(name) == {f \in FB : type[f] = name}
Delays   == {f \in FB : type[f] # "E_CYCLE"}

InProgress(f) ==
  \/ step # "begin" /\ current[1] = f
  \/ manager # "idle" /\ stopping = f

(* The timer's list ends and is sorted by timeout: nextTick() stops at the *)
(* first entry that is not over, so a block behind a later one, or on a    *)
(* list that runs in a circle, would fire too late or hang the timer       *)
(* thread. Two things break it: a delay is stopped or restarted, by an     *)
(* event or by a command, after it has fired (timedfb.cpp:51 and 71,       *)
(* E_RDELAY.cpp:31), and a Stop command comes to an E_RDELAY during its    *)
(* restart (E_RDELAY.cpp:31-37 against timedfb.cpp:71-73). Nothing else    *)
(* does, a Stop command during any other START included.                   *)
ListSorted ==
  overtaken = {} =>
    /\ Walk(head, next)[Cardinality(FB)] = Null
    /\ \A f \in Listed : next[f] # Null => timeout[f] <= timeout[next[f]]

(* An active delay is in the timer's list, or its timer event is on the    *)
(* way to it, and not both nor twice; one that is not active is neither.   *)
(* The timer thread, the event lists, START, STOP and the Stop and Start   *)
(* commands agree on this across their threads, or a delay would fire      *)
(* never or twice. They do not agree on a delay whose timer event was      *)
(* dropped, nor on one that was executing START when a Stop command came:  *)
(* it stays registered and active, and ignores its timer event as long as  *)
(* it is stopped (timedfb.cpp:58-59 against 71).                           *)
ActiveIsPending ==
  overtaken = {} =>
    \A f \in Delays \ (lost \cup crossed) :
      ~InProgress(f) =>
        Pending(f) + (IF f \in Listed THEN 1 ELSE 0) = IF active[f] THEN 1 ELSE 0

(* What an E_RDELAY keeps of it when it has been overtaken itself: an      *)
(* active one is still going to be notified by the timer, unless a Stop    *)
(* command came during one of its STARTs.                                  *)
RestartedHasTimer ==
  \A f \in Of("E_RDELAY") \ (lost \cup crossed) :
    active[f] /\ ~InProgress(f) /\ overtaken \subseteq {f} => f \in Listed \/ Pending(f) > 0

(* A cycle is in the timer's list exactly while it is active, whatever     *)
(* STOP, START and management commands have come across the timer: also    *)
(* one that a Stop command has left both registered and active.            *)
CycleRegistered ==
  overtaken = {} =>
    \A f \in Of("E_CYCLE") : ~InProgress(f) => (active[f] <=> f \in Listed)

(* A delay sends EO when that of its last START is over, never before it,  *)
(* and never after a STOP or a Stop command that found it active, unless   *)
(* the STOP, START or command was executed with the timer's event already  *)
(* in an event list (timedfb.cpp:51 and 71, E_RDELAY.cpp:31), or a Stop    *)
(* command came to an E_RDELAY during its restart.                         *)
NeverEarly ==
  [][\A f \in Delays \ overtaken : ExecuteExternalEvent(f) => due[f] = 0]_vars

(* Every started E_DELAY is over at some time, by the timer, by STOP or by *)
(* a Stop command, unless its timer event was dropped, the list has been   *)
(* broken, or a Stop command came during its START: then it may stay       *)
(* active for ever (timedfb.cpp:58-59 against 71). Another block that is   *)
(* deleted while it is still in use ends the behaviour.                    *)
DelayEnds ==
  \A f \in FB : (active[f] /\ type[f] = "E_DELAY")
                 ~> (~active[f] \/ f \in lost \cup crossed \/ overtaken # {} \/ ~Defined)

-----------------------------------------------------------------------------
(* Statements of the repository that the code does not meet. *)

(* timerha.h:161: the timer's list is the "List of function blocks         *)
(* currently registered": a block leaves it when it fires, when it         *)
(* unregisters itself or when it is stopped, and not because of anything   *)
(* another block does.                                                     *)
RegistrationKept ==
  [][\A f \in Listed : \/ f \in Listed'
                       \/ tick = "fire" /\ f = head
                       \/ current # <<>> /\ current[1] = f
                       \/ manager = "test" /\ stopping = f]_vars
=============================================================================
