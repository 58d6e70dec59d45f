----------------------------- MODULE FBLifecycle -----------------------------
(* The execution states of a resource and of the function blocks (FBs) in  *)
(* its containers. A management thread creates and deletes FBs and passes  *)
(* Start, Stop, Kill and Reset on, from the resource through all of its    *)
(* containers, or to one FB. The resource's event chain thread, of which   *)
(* EventChain has the details, executes the external events of E_RESTART,  *)
(* whose Stop waits for one of them.                                       *)
(*                                                                         *)
(* An FB or container is named by the sequence of names that leads to it;  *)
(* the resource is the empty sequence. The adapters of an FB, whose        *)
(* answers to a command are ignored, and data are left out.                *)
EXTENDS Integers, Sequences, SequencesExt, Functions

CONSTANTS
  Path,           \* the sequences of names that may occur
  Creations,      \* [path, type]: the FBs that a command may create
  Commands,       \* [cmd, path]: the execution commands that may come
  Start,          \* the E_RESTART that every resource is made with
  Internal,       \* the name of a composite's internal FB
  ExternalLimit,  \* events the event chain's list takes
  PostLimit,      \* bound: posts of a semaphore that nobody has taken
  Gone            \* in place of a deleted FB

Type == {"E_RESTART", "composite", "plain", "unknown"}
Command == {"Start", "Stop", "Kill", "Reset"}

ASSUME LifecycleAssumption ==
  /\ Path \subseteq Seq(UNION {Range(p) : p \in Path})
  /\ {<<>>, Start} \subseteq Path /\ Len(Start) = 1
  /\ \A p \in Path \ {<<>>} : Front(p) \in Path /\ Internal \notin Range(p)
  /\ Creations \subseteq [path : Path \ {<<>>}, type : Type]
  /\ Commands \subseteq [cmd : Command, path : Path]
  /\ ExternalLimit \in Nat \ {0} /\ PostLimit \in Nat \ {0} /\ Gone \notin Path

Block == Path \cup {Append(p, Internal) : p \in Path \ {<<>>}}

VARIABLES
  subs, fbs,   \* mSubContainers and mFunctionBlocks of each container: names, in order
  type,        \* the type of each FB
  fbState,     \* m_enFBState; "none" where there is no FB
  event,       \* mEventToSend of an E_RESTART
  posts,       \* its mSuspendSemaphore
  ecet, ext,   \* the event chain thread, "new", "runs", "ending" or "ended", and its events
  thread,      \* what the event chain thread executes: at, block
  command,     \* the management thread: at, cmd, todo (what to go to), whole
  last,        \* history: the last command, if it was the resource's and ready
  sent,        \* history: what an E_RESTART sent last since its last Stop, Kill or Reset
  faults       \* history: "lost", "raced" and "undefined"

lists == <<subs, fbs, type>>
vars == <<subs, fbs, type, fbState, event, posts, ecet, ext, thread, command, last, sent, faults>>

NoCommand == [at |-> "idle", cmd |-> "none", todo |-> <<>>, whole |-> FALSE]
NoEvent == [at |-> "idle", block |-> <<>>]

(* A resource as its type's constructor and the type library leave it.     *)
Init ==
  /\ subs = [p \in Path |-> <<>>] /\ fbs = [p \in Path |-> IF p = <<>> THEN Start ELSE <<>>]
  /\ type = [b \in Path |-> IF b = Start THEN "E_RESTART" ELSE "plain"]
  /\ fbState = [b \in Block |-> IF b \in {<<>>, Start} THEN "IDLE" ELSE "none"]
  /\ event = [b \in Path |-> "none"] /\ posts = [b \in Path |-> 0]
  /\ ecet = "new" /\ ext = <<>> /\ thread = NoEvent
  /\ command = NoCommand /\ last = "none" /\ sent = [b \in Path |-> "none"] /\ faults = {}

Defined == "undefined" \notin faults

-----------------------------------------------------------------------------
(* Names.                                                                  *)

(* the container in which the i-th name of a path is looked up             *)
Within(p, i) == SubSeq(p, 1, i - 1)

IsFB(p, i) == p[i] \in Range(fbs[Within(p, i)])
IsContainer(p, i) == p[i] \in Range(subs[Within(p, i)])

(* findOrCreateContainer(), for all names of p but the last                *)
Blocked(p) == \E i \in 1 .. Len(p) - 1 : IsFB(p, i) /\ ~IsContainer(p, i)

MakeContainers(p) ==
  subs' = [q \in Path |->
    IF ~Blocked(p) /\ \E i \in 1 .. Len(p) - 1 : q = Within(p, i) /\ ~IsContainer(p, i)
    THEN Append(subs[q], p[Len(q) + 1]) ELSE subs[q]]

(* getContainedFB(): where a container is missing, the FB of its name      *)
Found(p) ==
  LET stops == {i \in DOMAIN p : /\ i = Len(p) \/ ~IsContainer(p, i)
                                 /\ \A j \in 1 .. i - 1 : IsContainer(p, j)}
  IN  {SubSeq(p, 1, i) : i \in {j \in stops : IsFB(p, j)}}

(* What a command goes to.                                                 *)
ToFB(b) == [kind |-> "FB", path |-> b]
ToContainer(p) == [kind |-> "container", path |-> p]

(* changeContainedFBsExecutionState(): sub-containers come before FBs      *)
Inside(p) ==
  [i \in DOMAIN subs[p] |-> ToContainer(Append(p, subs[p][i]))]
  \o [i \in DOMAIN fbs[p] |-> ToFB(Append(p, fbs[p][i]))]

IsComposite(b) == b \in Path /\ type[b] = "composite"

(* what a resource and a composite pass a command on to                    *)
PassedTo(b) ==
  IF b = <<>> THEN Inside(b) ELSE IF IsComposite(b) THEN <<ToFB(Append(b, Internal))>> ELSE <<>>

-----------------------------------------------------------------------------
(* Creating and deleting.                                                  *)

Manages ==
  /\ Defined /\ command.at = "idle"
  /\ last' = "none"
  /\ UNCHANGED <<ecet, command, faults>>

(* mutant: containers with the FB's name are overlooked *)
CreateBesideContainer(p, t) ==
  LET free == ~Blocked(p) /\ p[Len(p)] \notin Range(fbs[Front(p)]) IN
  /\ Manages
  /\ MakeContainers(p)
  /\ IF free /\ t # "unknown"
     THEN /\ fbs' = [fbs EXCEPT ![Front(p)] = Append(@, p[Len(p)])]
          /\ type' = [type EXCEPT ![p] = t]
          /\ fbState' = [b \in Block |-> IF b = p \/ (t = "composite" /\ b = Append(p, Internal))
                                         THEN "IDLE" ELSE fbState[b]]
     ELSE UNCHANGED <<fbs, type, fbState>>
  /\ UNCHANGED <<event, posts, ext, thread, sent>>

(* createFB(); a container that was made stays, even if the FB is refused  *)
CreateFB(p, t) ==
  LET free == ~Blocked(p) /\ p[Len(p)] \notin Range(fbs[Front(p)]) \cup Range(subs[Front(p)]) IN
  /\ Manages
  /\ MakeContainers(p)
  /\ IF free /\ t # "unknown"
     THEN /\ fbs' = [fbs EXCEPT ![Front(p)] = Append(@, p[Len(p)])]
          /\ type' = [type EXCEPT ![p] = t]
          /\ fbState' = [b \in Block |-> IF b = p \/ (t = "composite" /\ b = Append(p, Internal))
                                         THEN "IDLE" ELSE fbState[b]]
     ELSE UNCHANGED <<fbs, type, fbState>>
  /\ UNCHANGED <<event, posts, ext, thread, sent>>

(* deleteFB(), which makes missing containers as well. Events of the FB    *)
(* stay where they are and point to freed memory.                          *)
DeleteFB(p) ==
  /\ Manages
  /\ MakeContainers(p)
  /\ IF ~Blocked(p) /\ p[Len(p)] \in Range(fbs[Front(p)]) /\ fbState[p] # "RUNNING"
     THEN /\ fbs' = [fbs EXCEPT ![Front(p)] = RemoveFirst(@, p[Len(p)])]
          /\ fbState' = [b \in Block |-> IF b \in {p, Append(p, Internal)} THEN "none" ELSE fbState[b]]
          /\ event' = [event EXCEPT ![p] = "none"] /\ sent' = [sent EXCEPT ![p] = "none"]
          /\ posts' = [posts EXCEPT ![p] = 0]
          /\ ext' = [i \in DOMAIN ext |-> IF ext[i] = p THEN Gone ELSE ext[i]]
          /\ thread' = IF thread.block = p THEN [thread EXCEPT !.block = Gone] ELSE thread
     ELSE UNCHANGED <<fbs, fbState, event, posts, sent, ext, thread>>
  /\ UNCHANGED type

-----------------------------------------------------------------------------
(* changeFBExecutionState() of the resource or of one FB.                  *)

From(cmd) == CASE cmd = "Start" -> {"IDLE", "STOPPED"} [] cmd = "Reset" -> {"STOPPED", "KILLED"}
               [] OTHER -> {"RUNNING"}
To(cmd) == CASE cmd = "Start" -> "RUNNING" [] cmd = "Stop" -> "STOPPED"
             [] cmd = "Kill" -> "KILLED" [] cmd = "Reset" -> "IDLE"

Accepts(b, cmd) == fbState[b] \in From(cmd)
Enters(b, cmd) == fbState' = IF Accepts(b, cmd) THEN [fbState EXCEPT ![b] = To(cmd)] ELSE fbState

(* An unknown name is refused at once.                                     *)
BeginCommand(cmd, p) ==
  /\ Defined /\ command.at = "idle"
  /\ \/ p # <<>> /\ Found(p) = {} /\ UNCHANGED command
     \/ \E b \in IF p = <<>> THEN {p} ELSE Found(p) :
          command' = [at |-> "walk", cmd |-> cmd, todo |-> <<ToFB(b)>>, whole |-> p = <<>>]
  /\ last' = "none"
  /\ UNCHANGED <<lists, fbState, event, posts, ecet, ext, thread, sent, faults>>

Passes == Defined /\ UNCHANGED <<lists, last, thread>>

At(place) == command.at = place
Current == Head(command.todo).path
Reached(kind) == At("walk") /\ command.todo # <<>> /\ Head(command.todo).kind = kind
Goes(place) == command' = [command EXCEPT !.at = place]
Onward(visits) == command' = [command EXCEPT !.at = "walk", !.todo = visits \o Tail(@)]

IsRestart(b) == b \in Path /\ type[b] = "E_RESTART"

(* mutant: an FB that refuses is passed over *)
IgnoreRefusal ==
  /\ Passes /\ Reached("FB")
  /\ Enters(Current, command.cmd)
  /\ IF Accepts(Current, command.cmd) /\ IsRestart(Current) THEN Goes("store")
     ELSE Onward(PassedTo(Current))
  /\ UNCHANGED <<event, posts, ecet, ext, sent, faults>>

EnterContainer ==
  /\ Passes /\ Reached("container")
  /\ Onward(Inside(Current))
  /\ UNCHANGED <<fbState, event, posts, ecet, ext, sent, faults>>

(* The first FB that refuses ends the command.                             *)
ChangeState ==
  /\ Passes /\ Reached("FB")
  /\ Enters(Current, command.cmd)
  /\ CASE ~Accepts(Current, command.cmd) -> command' = NoCommand
       [] Accepts(Current, command.cmd) /\ IsRestart(Current) -> Goes("store")
       [] OTHER -> Onward(PassedTo(Current))
  /\ UNCHANGED <<event, posts, ecet, ext, sent, faults>>

(* mutant: Kill and Reset leave mEventToSend as it is *)
StoreNoEventOnReset ==
  LET b == Current IN
  /\ Passes /\ At("store")
  /\ event' = [event EXCEPT ![b] =
       CASE command.cmd = "Start" -> IF @ = "STOP" THEN "WARM" ELSE "COLD"
         [] command.cmd = "Stop" -> "STOP" [] OTHER -> @]
  /\ sent' = IF command.cmd = "Start" THEN sent ELSE [sent EXCEPT ![b] = "none"]
  /\ CASE command.cmd = "Start" -> Goes("queue") [] command.cmd = "Stop" -> Goes("rerun")
       [] OTHER -> Onward(<<>>)
  /\ faults' = faults \cup {f \in {"raced"} : command.cmd = "Stop" /\ thread.block = b}
  /\ UNCHANGED <<fbState, posts, ecet, ext>>

(* E_RESTART's mEventToSend. The event chain thread may be in its          *)
(* executeEvent() now.                                                     *)
StoreEvent ==
  LET b == Current IN
  /\ Passes /\ At("store")
  /\ event' = [event EXCEPT ![b] =
       CASE command.cmd = "Start" -> IF @ = "STOP" THEN "WARM" ELSE "COLD"
         [] command.cmd = "Stop" -> "STOP" [] OTHER -> "none"]
  /\ sent' = IF command.cmd = "Start" THEN sent ELSE [sent EXCEPT ![b] = "none"]
  /\ CASE command.cmd = "Start" -> Goes("queue") [] command.cmd = "Stop" -> Goes("rerun")
       [] OTHER -> Onward(<<>>)
  /\ faults' = faults \cup {f \in {"raced"} : command.cmd = "Stop" /\ thread.block = b}
  /\ UNCHANGED <<fbState, posts, ecet, ext>>

(* mutant: the FB stays stopped and ignores its event *)
StayStopped ==
  /\ Passes /\ At("rerun") /\ Goes("queue")
  /\ UNCHANGED <<fbState, event, posts, ecet, ext, sent, faults>>

KeepRunning ==
  /\ Passes /\ At("rerun")
  /\ Enters(Current, "Start") /\ Goes("queue")
  /\ UNCHANGED <<event, posts, ecet, ext, sent, faults>>

(* mutant: a full list takes one more *)
StartAlways ==
  /\ Passes /\ At("queue")
  /\ IF Len(ext) <= ExternalLimit THEN ext' = Append(ext, Current) /\ UNCHANGED faults
     ELSE UNCHANGED ext /\ faults' = faults \cup {"lost"}
  /\ IF command.cmd = "Stop" THEN Goes("wait") ELSE Onward(<<>>)
  /\ UNCHANGED <<fbState, event, posts, ecet, sent>>

StartNewEventChain ==
  /\ Passes /\ At("queue")
  /\ IF Len(ext) < ExternalLimit THEN ext' = Append(ext, Current) /\ UNCHANGED faults
     ELSE UNCHANGED ext /\ faults' = faults \cup {"lost"}
  /\ IF command.cmd = "Stop" THEN Goes("wait") ELSE Onward(<<>>)
  /\ UNCHANGED <<fbState, event, posts, ecet, sent>>

WaitForStop ==
  /\ Passes /\ At("wait") /\ posts[Current] > 0
  /\ posts' = [posts EXCEPT ![Current] = @ - 1]
  /\ Onward(<<>>)
  /\ UNCHANGED <<fbState, event, ecet, ext, sent, faults>>

(* All FBs were ready. The resource's command reaches its event chain,     *)
(* whose thread is started only once, and ends when it tests isAlive(): a  *)
(* thread that has just done so may still take one event.                  *)
EndCommand ==
  /\ Defined /\ At("walk") /\ command.todo = <<>>
  /\ command' = NoCommand
  /\ IF command.whole
     THEN /\ last' = command.cmd
          /\ ecet' = CASE command.cmd = "Start" /\ ecet = "new" -> "runs"
                       [] command.cmd \in {"Stop", "Kill"} /\ ecet = "runs" ->
                              IF thread.at = "idle" THEN "ending" ELSE "ended"
                       [] OTHER -> ecet
          /\ ext' = IF command.cmd = "Kill" THEN <<>> ELSE ext
     ELSE UNCHANGED <<last, ecet, ext>>
  /\ UNCHANGED <<lists, fbState, event, posts, thread, sent, faults>>

Management ==
  \/ EnterContainer \/ ChangeState \/ StoreEvent \/ KeepRunning \/ StartNewEventChain \/ WaitForStop \/ EndCommand

-----------------------------------------------------------------------------
(* The event chain thread: executeEvent() of E_RESTART.                    *)

Executes == Defined /\ UNCHANGED <<lists, command, last>>

MayTake == thread.at = "idle" /\ ecet \in {"runs", "ending"} /\ ext # <<>>

TakeEvent ==
  /\ Executes /\ MayTake /\ Head(ext) # Gone
  /\ ext' = Tail(ext)
  /\ ecet' = IF ecet = "ending" THEN "ended" ELSE ecet
  /\ thread' = IF fbState[Head(ext)] = "RUNNING" THEN [at |-> "send", block |-> Head(ext)]
               ELSE thread
  /\ faults' = faults \cup {f \in {"raced"} : /\ At("store") /\ command.cmd = "Start"
                                              /\ Current = Head(ext)}
  /\ UNCHANGED <<fbState, event, posts, sent>>

ThreadEnds ==
  /\ Executes /\ thread.at = "idle" /\ ecet = "ending"
  /\ ecet' = "ended"
  /\ UNCHANGED <<fbState, event, posts, ext, thread, sent, faults>>

SendEvent ==
  LET b == thread.block IN
  /\ Executes /\ thread.at = "send" /\ b # Gone
  /\ IF event[b] = "none" THEN thread' = NoEvent /\ UNCHANGED sent
     ELSE thread' = [thread EXCEPT !.at = "test"] /\ sent' = [sent EXCEPT ![b] = event[b]]
  /\ UNCHANGED <<fbState, event, posts, ecet, ext, faults>>

(* mutant: the semaphore is posted after each event *)
PostAlways ==
  LET b == thread.block IN
  /\ Executes /\ thread.at = "test" /\ b # Gone
  /\ IF event[b] = "STOP" THEN Enters(b, "Stop") ELSE UNCHANGED fbState
  /\ thread' = [thread EXCEPT !.at = "post"]
  /\ UNCHANGED <<event, posts, ecet, ext, sent, faults>>

TestStop ==
  LET b == thread.block IN
  /\ Executes /\ thread.at = "test" /\ b # Gone
  /\ IF event[b] = "STOP" THEN Enters(b, "Stop") /\ thread' = [thread EXCEPT !.at = "post"]
     ELSE UNCHANGED fbState /\ thread' = NoEvent
  /\ UNCHANGED <<event, posts, ecet, ext, sent, faults>>

PostStopped ==
  LET b == thread.block IN
  /\ Executes /\ thread.at = "post" /\ b # Gone /\ posts[b] < PostLimit
  /\ posts' = [posts EXCEPT ![b] = @ + 1]
  /\ thread' = NoEvent
  /\ UNCHANGED <<fbState, event, ecet, ext, sent, faults>>

UsesDeletedFB ==
  /\ Defined
  /\ thread.block = Gone \/ (MayTake /\ Head(ext) = Gone)
  /\ faults' = faults \cup {"undefined"}
  /\ UNCHANGED <<lists, fbState, event, posts, ecet, ext, thread, command, last, sent>>

EventChain == TakeEvent \/ ThreadEnds \/ SendEvent \/ TestStop \/ PostStopped \/ UsesDeletedFB

-----------------------------------------------------------------------------

Next ==
  \/ EventChain \/ Management
  \/ \E c \in Creations : CreateFB(c.path, c.type) \/ DeleteFB(c.path)
  \/ \E c \in Commands : BeginCommand(c.cmd, c.path)

Spec == Init /\ [][Next]_vars

(* Both threads are scheduled; no command has to come.                     *)
FairSpec == Spec /\ WF_vars(Management) /\ WF_vars(EventChain)

-----------------------------------------------------------------------------
(* Properties.                                                             *)

Exists(b) == fbState[b] # "none"

(* the FBs to which the names in the containers lead, and their internals  *)
Contained ==
  LET Named == {b \in Path \ {<<>>} : /\ IsFB(b, Len(b))
                                      /\ \A i \in 1 .. Len(b) - 1 : IsContainer(b, i)}
  IN  Named \cup {Append(b, Internal) : b \in {c \in Named : type[c] = "composite"}}

(* The variables have their types; the event list keeps to its limit.      *)
TypeOK ==
  /\ type \in [Path -> Type]
  /\ fbState \in [Block -> {"none", "IDLE", "RUNNING", "STOPPED", "KILLED"}]
  /\ {event, sent} \subseteq [Path -> {"none", "COLD", "WARM", "STOP"}]
  /\ posts \in [Path -> 0 .. PostLimit] /\ ecet \in {"new", "runs", "ending", "ended"}
  /\ Len(ext) <= ExternalLimit /\ Range(ext) \subseteq Path \cup {Gone}
  /\ thread.block \in Path \cup {Gone}
  /\ Range(command.todo) \subseteq [kind : {"FB", "container"}, path : Block]
  /\ last \in {"none"} \cup Command
  /\ faults \subseteq {"lost", "raced", "undefined"}

(* A name means one thing in a container, an FB or a container, whatever   *)
(* was created and deleted, and refused, in whatever order; and each FB    *)
(* there is can be reached from the resource by names.                     *)
NamesUnique ==
  /\ \A p \in Path : IsInjective(subs[p] \o fbs[p])
  /\ \A b \in Block \ {<<>>} : Exists(b) <=> b \in Contained

(* When the resource has answered ready, all of its FBs, and the internal  *)
(* ones of composites, are in the state that was commanded, also if some   *)
(* were created since the last command or were commanded one by one; and   *)
(* the event chain thread does not go on after Stop or Kill, but for an    *)
(* event that it is about to take.                                         *)
Agreement ==
  last # "none" /\ At("idle") /\ "raced" \notin faults
    => /\ \A b \in Contained \cup {<<>>} : fbState[b] = To(last)
       /\ last \in {"Stop", "Kill"} => ecet # "runs"

(* Each post of E_RESTART's semaphore is for the Stop that is about to     *)
(* wait or waits, so that a later one never passes with the post of an     *)
(* earlier one.                                                            *)
PostsAreAwaited ==
  "raced" \notin faults =>
    \A b \in Path : posts[b] > 0 => posts[b] = 1 /\ command.cmd = "Stop" /\ command.at \in {"queue", "wait"} /\ Current = b

(* E_RESTART sends WARM only when its STOP was the last that happened,     *)
(* with no Kill or Reset since; stale events may repeat a WARM.            *)
WarmFollowsStop ==
  [][\A b \in Path : sent'[b] = "WARM" => sent[b] \in {"STOP", "WARM"} \/ "raced" \in faults]_vars

(* A Stop that waits for E_RESTART's event ends, if the event chain thread *)
(* runs and its list took the event. With an ended thread, as after a      *)
(* restart of the resource, it waits for ever.                             *)
StopEnds == At("wait") /\ ecet = "runs" ~> ~At("wait") \/ faults \cap {"lost", "undefined"} # {}

(* When E_RESTART's Stop has waited, its STOP event was sent.              *)
StopWasSent ==
  [][At("wait") /\ command' # command => sent[Current] = "STOP"]_vars
=============================================================================
