------------------------------- MODULE IPComm -------------------------------
(***************************************************************************)
(* A server or client function block over the IP layer. Three threads      *)
(* share it: the network thread (CFDSelectHandler::run), which accepts     *)
(* connections and reads from sockets into the layer's buffer, the event   *)
(* chain execution thread, which executes INIT, sends data and, for each   *)
(* external event, takes over what was received, and the management        *)
(* thread, which stops, kills, resets and starts the block. Layer and      *)
(* block have no lock; the handler's protects its list of callbacks only.  *)
(*                                                                         *)
(* Data is counted in units, numbered as they are received; Size units fit *)
(* into the buffer. A stack of layers is known by the number of its        *)
(* opening, so that a pointer to one that has been deleted shows. What     *)
(* follows the use of one has no meaning: the model ends there             *)
(* ("undefined" in faults). A socket is its connection; that the operating *)
(* system may use its descriptor again is not modelled.                    *)
(***************************************************************************)
EXTENDS Integers, Sequences

CONSTANTS
  Service,         \* the kinds of block to check: subset of {"server", "client"}
  Size,            \* cg_unIPLayerRecvBufferSize
  QueueSize,       \* cg_unCommunicationInterruptQueueSize
  ExternalLimit,   \* external events of the block the event chain's list takes
  MaxConnections,  \* bound: connections made, numbered in their order
  MaxUnits,        \* bound: units all peers send
  MaxOpened,       \* bound: stacks opened
  Commands,        \* whether management commands come
  Inits            \* whether INIT closes the connection again

ASSUME IPAssumption ==
  /\ Service \subseteq {"server", "client"}
  /\ {Size, QueueSize, ExternalLimit, MaxOpened} \subseteq Nat \ {0}
  /\ {MaxConnections, MaxUnits} \subseteq Nat
  /\ {Commands, Inits} \subseteq BOOLEAN

VARIABLES
  service,     \* m_eCommServiceType, which no step changes
  conn,        \* the connections: the peer's end, ours, and units sent but not read
  sent,        \* units sent in all
  registered,  \* m_lstConnectionsList: <<descriptor, stack>>
  fbState,     \* m_enFBState
  stack,       \* m_poTopOfComStack, 0 for none
  opened,      \* stacks opened so far
  ip,          \* the stack's IP layer; received and handed are histories
  queue,       \* m_apoInterruptQueue and m_unComInterruptQueueCount
  net,         \* where the network thread is
  call,        \* the layer and descriptor it has read, and values it holds
  ecet,        \* where the event chain thread is
  work,        \* the stack it works with and the locals of receiveData()
  ext,         \* external events of the block that wait for it
  faults       \* history: "lost": an interrupt or its event was dropped or came to a
               \* block not running; "raced": both threads were in the same few
               \* statements; "undefined": a deleted layer was used

vars == <<service, conn, sent, registered, fbState, stack, opened, ip, queue, net, call,
          ecet, work, ext, faults>>

Connection == 1 .. MaxConnections
None == 0              \* no socket
Listen == -1           \* the listening socket among the descriptors

(* EComResponse compares by its number                                     *)
Severity == [Nothing |-> 0, Ok |-> 32, Terminated |-> 82, DataTypeError |-> 100,
             RecvFailed |-> 104]
Worse(r, s) == IF Severity[s] > Severity[r] THEN s ELSE r

NewLayer == [socket |-> None, listening |-> FALSE, state |-> "Disconnected",
             response |-> "Nothing", fill |-> 0, buffer |-> [i \in 1 .. Size |-> 0],
             received |-> 0, handed |-> <<>>]
(* a connection of ours that is closed: what its peer does shows no more   *)
Closed == [peer |-> "gone", ours |-> "closed", wire |-> 0]

NoCall == [stack |-> 0, socket |-> None, start |-> 0, units |-> 0, count |-> 0]
NoWork == [stack |-> 0, copy |-> 0, next |-> 0, result |-> "Nothing", count |-> 0]

Init ==
  /\ service \in Service
  /\ conn = [c \in Connection |-> [peer |-> "none", ours |-> "none", wire |-> 0]]
  /\ sent = 0 /\ registered = {}
  /\ fbState = "RUNNING" /\ stack = 0 /\ opened = 0 /\ ip = NewLayer
  /\ queue = [slot |-> [i \in 1 .. QueueSize |-> 0], count |-> 0]
  /\ net = "select" /\ call = NoCall
  /\ ecet = "idle" /\ work = NoWork /\ ext = 0
  /\ faults = {}

RaceIf(overlap) == faults' = faults \cup {f \in {"raced"} : overlap}

Defined == "undefined" \notin faults

(* Bound: once the threads have raced, which excuses all properties but    *)
(* TypeOK, they work off what there is; peers, application and management  *)
(* do nothing new.                                                         *)
Environment == {"raced", "undefined"} \cap faults = {}

-----------------------------------------------------------------------------
(* The peers.                                                              *)

Peer ==
  /\ Environment
  /\ UNCHANGED <<service, registered, fbState, stack, opened, ip, queue, net, call, ecet, work,
                 ext, faults>>

IsNext(c) == \A d \in Connection : conn[d].peer = "none" <=> d >= c

PeerConnects(c) ==
  /\ Peer /\ service = "server" /\ ip.listening /\ IsNext(c)
  /\ conn' = [conn EXCEPT ![c] = [@ EXCEPT !.peer = "up", !.ours = "backlog"]]
  /\ UNCHANGED sent

PeerSends(c) ==
  /\ Peer /\ conn[c].peer = "up" /\ sent < MaxUnits
  /\ conn' = [conn EXCEPT ![c].wire = @ + 1]
  /\ sent' = sent + 1

PeerCloses(c) ==
  /\ Peer /\ conn[c].peer = "up"
  /\ \E end \in {"gone", "reset"} : conn' = [conn EXCEPT ![c].peer = end]
  /\ UNCHANGED sent

-----------------------------------------------------------------------------
(* Opening, sending and closing, by the event chain thread (INIT, REQ or   *)
(* RSP, a terminated client) and by the management thread (Kill).          *)

(* CIPComLayer::closeSocket()                                              *)
CloseSocket(c) ==
  /\ registered' = {r \in registered : r[1] # c}
  /\ conn' = [d \in Connection |-> IF d = c THEN Closed ELSE conn[d]]

(* CBaseCommFB::closeConnection(): both sockets, then the layers. The      *)
(* interrupt queue keeps its pointers.                                     *)
CloseConnection ==
  /\ registered' = {r \in registered : r[1] # ip.socket /\ (ip.listening => r[1] # Listen)}
  /\ conn' = [c \in Connection |->
                IF c = ip.socket \/ (ip.listening /\ conn[c].ours = "backlog")
                THEN Closed ELSE conn[c]]
  /\ stack' = 0 /\ ip' = NewLayer

StaysOpen == UNCHANGED <<registered, conn, stack, ip>>

Executes ==
  /\ Environment /\ fbState = "RUNNING" /\ ecet = "idle"
  /\ UNCHANGED <<service, sent, fbState, queue, net, call, ext, faults>>

(* INIT with QI true; a stack that is open stays open                      *)
OpenConnection ==
  /\ Executes /\ stack = 0 /\ opened < MaxOpened
  /\ stack' = opened + 1 /\ opened' = opened + 1
  /\ \/ /\ service = "server"
        /\ ip' = [NewLayer EXCEPT !.listening = TRUE, !.state = "Listening"]
        /\ registered' = registered \cup {<<Listen, stack'>>}
        /\ UNCHANGED conn
     \/ /\ service = "client"
        /\ \E c \in Connection :
             /\ IsNext(c)
             /\ conn' = [conn EXCEPT ![c] = [@ EXCEPT !.peer = "up", !.ours = "open"]]
             /\ ip' = [NewLayer EXCEPT !.socket = c, !.state = "Connected"]
             /\ registered' = registered \cup {<<c, stack'>>}
  /\ UNCHANGED <<ecet, work>>

(* INIT with QI false                                                      *)
InitCloses ==
  /\ Inits /\ Executes /\ stack # 0
  /\ CloseConnection
  /\ UNCHANGED <<opened, ecet, work>>

(* A send to a peer that has gone may fail. It makes a client close, and   *)
(* takes a server back to listening, in two steps.                         *)
SendFails ==
  /\ Executes /\ stack # 0 /\ ip.socket # None /\ conn[ip.socket].peer # "up"
  /\ IF service = "client"
     THEN CloseConnection /\ UNCHANGED <<ecet, work>>
     ELSE /\ ecet' = "failed" /\ work' = [NoWork EXCEPT !.stack = stack]
          /\ StaysOpen
  /\ UNCHANGED opened

FailedSend ==
  /\ Defined /\ work.stack = stack
  /\ UNCHANGED <<service, sent, fbState, stack, opened, queue, net, call, ext>>

CloseFailedSocket ==
  /\ ecet = "failed" /\ FailedSend
  /\ CloseSocket(ip.socket)
  /\ ip' = [ip EXCEPT !.socket = None]
  /\ ecet' = "closed" /\ UNCHANGED <<work, faults>>

ListenAgain ==
  /\ ecet = "closed" /\ FailedSend
  /\ ip' = [ip EXCEPT !.state = "Listening"]
  /\ RaceIf(ip.socket # None)
  /\ ecet' = "idle" /\ work' = NoWork
  /\ UNCHANGED <<registered, conn>>

-----------------------------------------------------------------------------
(* The external event: CCommFB::receiveData() and the end of               *)
(* executeEvent().                                                         *)

BeginExternalEvent ==
  /\ Defined /\ ecet = "idle" /\ ext > 0
  /\ ext' = ext - 1
  /\ IF fbState = "RUNNING"
     THEN /\ ecet' = "interrupt"
          /\ work' = [NoWork EXCEPT !.stack = stack, !.copy = queue.count, !.next = 1]
          /\ UNCHANGED faults
     ELSE faults' = faults \cup {"lost"} /\ UNCHANGED <<ecet, work>>
  /\ UNCHANGED <<service, conn, sent, registered, fbState, stack, opened, ip, queue, net, call>>

InterruptIsOfStack == stack # 0 /\ queue.slot[work.next] = stack

ExternalEvent ==
  /\ Defined
  /\ UNCHANGED <<service, conn, sent, registered, fbState, stack, opened, net, call, ext>>

(* CIPComLayer::processInterrupt(), up to the call of the upper layer      *)
HandsOver == ip.response = "Ok" /\ ip.state = "Connected" /\ ip.fill > 0

ProcessInterrupt ==
  /\ ecet = "interrupt" /\ work.next <= work.copy /\ InterruptIsOfStack
  /\ IF HandsOver
     THEN /\ ip' = [ip EXCEPT !.handed = @ \o SubSeq(ip.buffer, 1, ip.fill)]
          /\ ecet' = "handed"
          /\ RaceIf(net = "received")
          /\ UNCHANGED work
     ELSE /\ work' = [work EXCEPT !.next = @ + 1, !.result = Worse(@, ip.response)]
          /\ UNCHANGED <<ip, ecet, faults>>
  /\ UNCHANGED queue /\ ExternalEvent

(* mutant: the buffer is not emptied *)
KeepBuffer ==
  /\ ecet = "handed" /\ work.stack = stack
  /\ ip' = [ip EXCEPT !.response = "Ok"]
  /\ work' = [work EXCEPT !.next = @ + 1, !.result = Worse(@, "Ok")]
  /\ ecet' = "interrupt"
  /\ RaceIf(net = "received")
  /\ UNCHANGED queue /\ ExternalEvent

(* ... and after it: its answer replaces whatever m_eInterruptResp is now  *)
ResetBuffer ==
  /\ ecet = "handed" /\ work.stack = stack
  /\ \E answer \in {"Ok", "Nothing", "DataTypeError"} :
       /\ ip' = [ip EXCEPT !.response = answer, !.fill = 0]
       /\ work' = [work EXCEPT !.next = @ + 1, !.result = Worse(@, answer)]
  /\ ecet' = "interrupt"
  /\ RaceIf(net = "received")
  /\ UNCHANGED queue /\ ExternalEvent

(* m_unComInterruptQueueCount -= ComInterruptQueueCountCopy                *)
LoadCount ==
  /\ ecet = "interrupt" /\ work.next > work.copy
  /\ work' = [work EXCEPT !.count = queue.count, !.next = 0]
  /\ ecet' = "count"
  /\ UNCHANGED <<ip, queue, faults>> /\ ExternalEvent

(* mutant: interrupts that have come meanwhile are not counted any more *)
ClearCount ==
  /\ ecet = "count"
  /\ queue' = [queue EXCEPT !.count = 0]
  /\ work' = [work EXCEPT !.count = 0]
  /\ ecet' = "shift"
  /\ RaceIf(net = "count")
  /\ UNCHANGED ip /\ ExternalEvent

StoreCount ==
  /\ ecet = "count"
  /\ queue' = [queue EXCEPT !.count = work.count - work.copy]
  /\ work' = [work EXCEPT !.count = 0]
  /\ ecet' = "shift"
  /\ RaceIf(net = "count")
  /\ UNCHANGED ip /\ ExternalEvent

(* the others move to the front; behind the array there is no layer        *)
ShiftInterrupts ==
  /\ ecet = "shift"
  /\ queue' = [queue EXCEPT !.slot = [i \in 1 .. QueueSize |->
                 IF i > queue.count THEN @[i]
                 ELSE IF i + work.copy <= QueueSize THEN @[i + work.copy] ELSE 0]]
  /\ work' = [work EXCEPT !.copy = 0]
  /\ ecet' = "respond"
  /\ RaceIf(net = "count")
  /\ UNCHANGED ip /\ ExternalEvent

(* mutant: a client does not mind either that its server has gone *)
RespondOnly ==
  /\ Defined /\ ecet = "respond" /\ StaysOpen
  /\ ecet' = "idle" /\ work' = NoWork
  /\ UNCHANGED <<service, sent, fbState, opened, queue, net, call, ext, faults>>

(* a server does not mind that its client has gone, a client closes        *)
Respond ==
  /\ Defined /\ ecet = "respond"
  /\ IF work.result = "Terminated" /\ service = "client" /\ stack # 0
     THEN CloseConnection ELSE StaysOpen
  /\ ecet' = "idle" /\ work' = NoWork
  /\ UNCHANGED <<service, sent, fbState, opened, queue, net, call, ext, faults>>

-----------------------------------------------------------------------------
(* The network thread. It takes a descriptor that is ready and its layer   *)
(* from the list, releases the list's lock and calls recvData() of the     *)
(* layer.                                                                  *)

Network == Defined /\ UNCHANGED <<service, sent, fbState, stack, opened, ecet, work>>
InLayer == call.stack = stack /\ Network

Ready(d) == IF d = Listen THEN \E c \in Connection : conn[c].ours = "backlog"
            ELSE conn[d].wire > 0 \/ conn[d].peer \in {"gone", "reset"}

Select ==
  /\ net = "select" /\ Network
  /\ \E r \in registered :
       /\ Ready(r[1])
       /\ call' = [NoCall EXCEPT !.socket = r[1], !.stack = r[2]]
  /\ net' = "call"
  /\ UNCHANGED <<conn, registered, ip, queue, ext, faults>>

(* the start of recvData(), which forgets what the event chain thread has  *)
(* not yet seen                                                            *)
EnterRecvData ==
  /\ net = "call" /\ InLayer
  /\ ip' = [ip EXCEPT !.response = "Nothing"]
  /\ net' = CASE ip.state = "Listening" -> "accept"
              [] ip.state = "Connected" /\ call.socket = ip.socket -> "wait"
              [] ip.state = "Connected" /\ call.socket = Listen -> "refuse"
              [] OTHER -> "return"
  /\ UNCHANGED <<conn, registered, call, queue, ext, faults>>

(* accept() takes the first peer and blocks until there is one             *)
IsFirst(c) == /\ conn[c].ours = "backlog"
              /\ \A d \in Connection : conn[d].ours = "backlog" => c <= d

AcceptConnection ==
  /\ net = "accept" /\ InLayer
  /\ \E c \in Connection :
       /\ IsFirst(c)
       /\ conn' = [conn EXCEPT ![c].ours = "open"]
       /\ registered' = registered \cup {<<c, stack>>}
       /\ ip' = [ip EXCEPT !.socket = c, !.state = "Connected"]
  /\ RaceIf(ecet \in {"failed", "closed"})
  /\ net' = "return"
  /\ UNCHANGED <<call, queue, ext>>

(* mutant: the connection is accepted and left open *)
LeaveSecondOpen ==
  /\ net = "refuse" /\ InLayer
  /\ \E c \in Connection : IsFirst(c) /\ conn' = [conn EXCEPT ![c].ours = "open"]
  /\ net' = "return"
  /\ UNCHANGED <<registered, call, ip, queue, ext, faults>>

HandleConnectionAttemptInConnected ==
  /\ net = "refuse" /\ InLayer
  /\ \E c \in Connection : IsFirst(c) /\ conn' = [conn EXCEPT ![c] = Closed]
  /\ net' = "return"
  /\ UNCHANGED <<registered, call, ip, queue, ext, faults>>

(* handledConnectedDataRecv(): it waits for room and tests the socket; by  *)
(* the time it reads, the event chain thread may have closed it            *)
HasRoom == ip.fill < Size

TestSocket ==
  /\ net = "wait" /\ InLayer /\ HasRoom
  /\ net' = IF ip.socket = None THEN "return" ELSE "receive"
  /\ UNCHANGED <<conn, registered, call, ip, queue, ext, faults>>

Reads == net = "receive" /\ InLayer /\ ip.socket # None

ReceiveData ==
  /\ Reads /\ conn[ip.socket].peer # "reset"
  /\ \E n \in 1 .. conn[ip.socket].wire :
       /\ ip.fill + n <= Size
       /\ conn' = [conn EXCEPT ![ip.socket].wire = @ - n]
       /\ ip' = [ip EXCEPT !.received = @ + n,
                           !.buffer = [i \in 1 .. Size |->
                              IF i \in ip.fill + 1 .. ip.fill + n
                              THEN ip.received + i - ip.fill ELSE @[i]]]
       /\ call' = [call EXCEPT !.start = ip.fill, !.units = n]
  /\ RaceIf(ecet = "handed")
  /\ net' = "received"
  /\ UNCHANGED <<registered, queue, ext>>

(* m_unBufFillSize += nRetVal, with the value read before the call or now  *)
AddReceived ==
  /\ net = "received" /\ InLayer
  /\ \E fill \in {call.start, ip.fill} :
       ip' = [ip EXCEPT !.fill = fill + call.units, !.response = "Ok"]
  /\ call' = [call EXCEPT !.start = 0, !.units = 0]
  /\ RaceIf(ecet = "handed")
  /\ net' = "interrupt"
  /\ UNCHANGED <<conn, registered, queue, ext>>

ConnectionClosedByPeer ==
  /\ Reads /\ conn[ip.socket].wire = 0 /\ conn[ip.socket].peer = "gone"
  /\ CloseSocket(ip.socket)
  /\ ip' = [ip EXCEPT !.socket = None, !.response = "Terminated",
                      !.state = IF service = "server" THEN "Listening" ELSE @]
  /\ RaceIf(ecet \in {"handed", "failed", "closed"})
  /\ net' = "interrupt"
  /\ UNCHANGED <<call, queue, ext>>

(* a connection that was reset fails once and is over then; a descriptor   *)
(* closed in between is not valid                                          *)
ReceiveFails ==
  /\ net = "receive" /\ InLayer
  /\ ip.socket # None => conn[ip.socket].peer = "reset"
  /\ conn' = [c \in Connection |->
                IF c = ip.socket THEN [conn[c] EXCEPT !.peer = "gone", !.wire = 0] ELSE conn[c]]
  /\ ip' = [ip EXCEPT !.response = "RecvFailed"]
  /\ RaceIf(ecet = "handed")
  /\ net' = "interrupt"
  /\ UNCHANGED <<registered, call, queue, ext>>

(* mutant: one interrupt too many is taken *)
InterruptFullQueue ==
  /\ net = "interrupt" /\ InLayer /\ queue.count <= QueueSize
  /\ queue' = [queue EXCEPT !.slot = [i \in 1 .. QueueSize |->
                 IF i = queue.count + 1 THEN call.stack ELSE @[i]]]
  /\ call' = [call EXCEPT !.count = queue.count]
  /\ net' = "count"
  /\ RaceIf(ecet \in {"count", "shift"})
  /\ UNCHANGED <<conn, registered, ip, ext>>

(* CBaseCommFB::interruptCommFB(): a full queue takes no more              *)
InterruptCommFB ==
  /\ net = "interrupt" /\ InLayer
  /\ IF queue.count < QueueSize
     THEN /\ queue' = [queue EXCEPT !.slot[queue.count + 1] = call.stack]
          /\ call' = [call EXCEPT !.count = queue.count]
          /\ net' = "count"
          /\ RaceIf(ecet \in {"count", "shift"})
     ELSE /\ net' = "return" /\ faults' = faults \cup {"lost"}
          /\ UNCHANGED <<queue, call>>
  /\ UNCHANGED <<conn, registered, ip, ext>>

AddInterrupt ==
  /\ net = "count" /\ InLayer
  /\ \E old \in {call.count, queue.count} : queue' = [queue EXCEPT !.count = old + 1]
  /\ call' = [call EXCEPT !.count = 0]
  /\ RaceIf(ecet \in {"count", "shift"})
  /\ net' = "return"
  /\ UNCHANGED <<conn, registered, ip, ext>>

(* recvData() returns m_eInterruptResp; startNewEventChain(), of which a   *)
(* full event list drops the event                                         *)
StartNewEventChain ==
  /\ net = "return" /\ InLayer
  /\ IF ip.response = "Nothing" THEN UNCHANGED <<ext, faults>>
     ELSE IF ext < ExternalLimit THEN ext' = ext + 1 /\ UNCHANGED faults
     ELSE faults' = faults \cup {"lost"} /\ UNCHANGED ext
  /\ net' = "select" /\ call' = NoCall
  /\ UNCHANGED <<conn, registered, ip, queue>>

-----------------------------------------------------------------------------
(* Management commands to the block, and the use of what it has deleted.   *)

Command(from, to) ==
  /\ Environment /\ Commands /\ fbState \in from
  /\ fbState' = to
  /\ UNCHANGED <<service, sent, opened, queue, net, call, ecet, work, ext, faults>>

CommandStop == Command({"RUNNING"}, "STOPPED") /\ StaysOpen
CommandKill ==
  Command({"RUNNING"}, "KILLED") /\ IF stack # 0 THEN CloseConnection ELSE StaysOpen
CommandReset == Command({"STOPPED", "KILLED"}, "IDLE") /\ StaysOpen
CommandStart == Command({"STOPPED", "IDLE"}, "RUNNING") /\ StaysOpen

Undefined ==
  /\ Defined
  /\ faults' = faults \cup {"undefined"}
  /\ UNCHANGED <<service, conn, sent, registered, fbState, stack, opened, ip, queue, net, call,
                 ecet, work, ext>>

NetworkUsesDeletedLayer == net # "select" /\ call.stack # stack /\ Undefined

EventChainUsesDeletedLayer ==
  /\ \/ ecet \in {"handed", "failed", "closed"} /\ work.stack # stack
     \/ ecet = "interrupt" /\ work.next <= work.copy /\ ~InterruptIsOfStack
  /\ Undefined

-----------------------------------------------------------------------------

EventChainThread ==
  \/ CloseFailedSocket \/ ListenAgain
  \/ BeginExternalEvent \/ ProcessInterrupt \/ ResetBuffer
  \/ LoadCount \/ StoreCount \/ ShiftInterrupts \/ Respond
  \/ EventChainUsesDeletedLayer

NetworkThread ==
  \/ Select \/ EnterRecvData \/ AcceptConnection \/ HandleConnectionAttemptInConnected
  \/ TestSocket \/ ReceiveData \/ AddReceived \/ ConnectionClosedByPeer \/ ReceiveFails
  \/ InterruptCommFB \/ AddInterrupt \/ StartNewEventChain
  \/ NetworkUsesDeletedLayer

Peers == \E c \in Connection : PeerConnects(c) \/ PeerSends(c) \/ PeerCloses(c)
Application == OpenConnection \/ InitCloses \/ SendFails
Management == CommandStop \/ CommandKill \/ CommandReset \/ CommandStart

Next == EventChainThread \/ NetworkThread \/ Peers \/ Application \/ Management

Spec == Init /\ [][Next]_vars

(* Both threads are scheduled. Nothing makes a peer, the application or    *)
(* the management act.                                                     *)
Fairness == WF_vars(EventChainThread) /\ WF_vars(NetworkThread)

FairSpec == Spec /\ Fairness

-----------------------------------------------------------------------------
(* Properties.                                                             *)

(* The variables have their types; the buffer never holds more than Size   *)
(* units and the interrupt queue never more than QueueSize pointers, also  *)
(* when both threads change them at once.                                  *)
TypeOK ==
  /\ service \in Service
  /\ conn \in [Connection -> [peer : {"none", "up", "reset", "gone"},
                              ours : {"none", "backlog", "open", "closed"},
                              wire : 0 .. MaxUnits]]
  /\ sent \in 0 .. MaxUnits
  /\ registered \subseteq (Connection \cup {Listen}) \X (1 .. MaxOpened)
  /\ fbState \in {"RUNNING", "STOPPED", "KILLED", "IDLE"}
  /\ stack \in 0 .. opened /\ opened \in 0 .. MaxOpened
  /\ ip.socket \in Connection \cup {None} /\ ip.listening \in BOOLEAN
  /\ ip.state \in {"Disconnected", "Listening", "Connected"}
  /\ ip.response \in DOMAIN Severity
  /\ ip.fill \in 0 .. Size /\ ip.buffer \in [1 .. Size -> Nat]
  /\ queue \in [slot : [1 .. QueueSize -> 0 .. MaxOpened], count : 0 .. QueueSize]
  /\ net \in {"select", "call", "accept", "refuse", "wait", "receive", "received", "interrupt",
              "count", "return"}
  /\ ecet \in {"idle", "failed", "closed", "interrupt", "handed", "count", "shift", "respond"}
  /\ ext \in 0 .. ExternalLimit /\ faults \subseteq {"lost", "raced", "undefined"}

(* Every unit read from the socket has been handed to the upper layer      *)
(* once, in order, or is still in the buffer, unless both threads were in  *)
(* the buffer at once (ipcomlayer.cpp:184 asks for that to be              *)
(* synchronised).                                                          *)
ReceivedIsHandedOrBuffered ==
  LET kept == CASE ecet = "handed" -> 0
                [] net = "received" /\ call.stack = stack -> ip.fill + call.units
                [] OTHER -> ip.fill
  IN  "raced" \in faults
        \/ ip.handed \o SubSeq(ip.buffer, 1, kept) = [i \in 1 .. ip.received |-> i]

(* When both threads have nothing in hand, data in the buffer that         *)
(* recvData() has reported is in the interrupt queue with an external      *)
(* event to come, unless one was dropped or the threads raced.             *)
ReportedDataHasEvent ==
  (net = "select" /\ ecet = "idle" /\ HandsOver)
    => faults # {} \/ (queue.count > 0 /\ ext > 0)

(* A server holds at most one open connection, the one its layer knows,    *)
(* unless a failed send and the network thread closed or accepted at once  *)
(* (handleConnectionAttemptInConnected).                                   *)
OneClient ==
  \/ {"raced", "undefined"} \cap faults # {}
  \/ \A c \in Connection : conn[c].ours = "open" => c = ip.socket

(* A connection that its peer has closed is given up: a client closes its  *)
(* stack, a server listens again. Excused are data races, dropped events   *)
(* and the wait for room in the buffer.                                    *)
ClosedByPeerEnds ==
  (ip.socket # None /\ conn[ip.socket].peer = "gone")
    ~> \/ faults # {} \/ (net = "wait" /\ ~HasRoom)
       \/ ip.socket = None /\ (service = "client" => stack = 0)

(* comlayer.h:69: a layer that has reported data has an external event     *)
(* "to further handle the received message": it does not stay in the       *)
(* buffer.                                                                 *)
ReceivedIsHandled ==
  ip.fill > 0 ~> ip.fill = 0 \/ ip.socket = None \/ faults # {}

(* commfb.cpp:52: a killed block has closed its connection "so that it can *)
(* safely be opened again": once it is, and nothing is in hand, its        *)
(* interrupt queue has no pointer to a layer that was deleted.             *)
SafelyOpenedAgain ==
  (stack # 0 /\ net = "select" /\ ecet = "idle")
    => \A i \in 1 .. queue.count : queue.slot[i] = stack
=============================================================================
