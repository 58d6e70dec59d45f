----------------------------- MODULE IPCommProofs -----------------------------
(* Theorems about a block over the IP layer and the threads that share it, *)
(* for every size of its buffer and queues and any number of connections.  *)
EXTENDS IPComm, SequenceTheorems, TLAPS

(* What the variables hold. *)
Socket   == Connection \cup {None}
Link     == [peer : {"none", "up", "reset", "gone"},
             ours : {"none", "backlog", "open", "closed"}, wire : 0 .. MaxUnits]
Response == {"Nothing", "Ok", "Terminated", "DataTypeError", "RecvFailed"}
Layer    == [socket : Socket, listening : BOOLEAN,
             state : {"Disconnected", "Listening", "Connected"}, response : Response,
             fill : 0 .. Size, buffer : [1 .. Size -> Nat], received : Nat, handed : Seq(Nat)]
Queue    == [slot : [1 .. QueueSize -> 0 .. MaxOpened], count : 0 .. QueueSize]
Call     == [stack : 0 .. MaxOpened, socket : Socket \cup {Listen},
             start : Nat, units : Nat, count : Nat]
Work     == [stack : 0 .. MaxOpened, copy : Nat, next : Nat, result : Response, count : Nat]
Places   == {"select", "call", "accept", "refuse", "wait", "receive", "received", "interrupt",
             "count", "return"}
Phases   == {"idle", "failed", "closed", "interrupt", "handed", "count", "shift", "respond"}

EnvironmentTypes ==
  /\ service \in Service
  /\ conn \in [Connection -> Link] /\ sent \in 0 .. MaxUnits
  /\ \A c \in Connection : conn[c].wire <= sent
  /\ fbState \in {"RUNNING", "STOPPED", "KILLED", "IDLE"}
  /\ faults \subseteq {"lost", "raced", "undefined"}

LayerTypes ==
  /\ ip \in Layer /\ queue \in Queue /\ ext \in 0 .. ExternalLimit

ThreadTypes ==
  /\ net \in Places /\ call \in Call
  /\ ecet \in Phases /\ work \in Work

(* A pointer to a stack is to one that has been opened; the network thread *)
(* has one whenever it is in a layer.                                      *)
StacksOpened ==
  /\ opened \in 0 .. MaxOpened /\ stack \in 0 .. opened
  /\ registered \subseteq (Connection \cup {Listen}) \X (1 .. opened)
  /\ net # "select" => call.stack \in 1 .. opened
  /\ stack = 0 => ip.socket = None

(* What the network thread has read still fits behind the data in the      *)
(* buffer: the event chain thread only empties it.                         *)
ReadFits == net = "received" => call.start + call.units <= Size /\ ip.fill <= call.start

(* The count that the network thread has loaded is never below the real    *)
(* one, that of the event chain thread never above.                        *)
CountsAgree ==
  /\ net = "count" => call.count < QueueSize /\ queue.count <= call.count
  /\ ecet \in {"interrupt", "handed"} => work.copy <= queue.count
  /\ ecet = "count" => work.copy <= work.count /\ work.count <= queue.count

Types == EnvironmentTypes /\ LayerTypes /\ ThreadTypes

Bounds == Types /\ StacksOpened /\ ReadFits /\ CountsAgree

-----------------------------------------------------------------------------
(* The constants of the model. *)
LEMMA Constants ==
  /\ Size \in Nat /\ Size > 0 /\ QueueSize \in Nat /\ QueueSize > 0
  /\ ExternalLimit \in Nat /\ MaxOpened \in Nat
  /\ MaxConnections \in Nat /\ MaxUnits \in Nat
  /\ Connection \subseteq Nat /\ None \notin Connection /\ Listen \notin Connection
  /\ None # Listen
BY IPAssumption DEF Connection, None, Listen

LEMMA Worst == ASSUME NEW r \in Response, NEW s \in Response PROVE Worse(r, s) \in Response
BY DEF Worse

LEMMA NewLayerType == NewLayer \in Layer /\ NewLayer.socket = None /\ NewLayer.fill = 0
<1>1. [i \in 1 .. Size |-> 0] \in [1 .. Size -> Nat] /\ <<>> \in Seq(Nat)
  OBVIOUS
<1>2. 0 \in 0 .. Size
  BY Constants
<1> QED BY <1>1, <1>2 DEF NewLayer, Layer, Socket, Response

LEMMA NoWorkType == NoWork \in Work
BY Constants DEF NoWork, Work, Response

LEMMA Raced ==
  ASSUME NEW overlap, RaceIf(overlap)
  PROVE  faults \subseteq faults' /\ faults' \subseteq faults \cup {"raced"}
         /\ (overlap => "raced" \in faults')
BY DEF RaceIf

(* What is handed over is some of the buffer's units. *)
LEMMA HandedType ==
  ASSUME NEW h \in Seq(Nat), NEW b \in [1 .. Size -> Nat], NEW k \in 0 .. Size
  PROVE  /\ SubSeq(b, 1, k) \in Seq(Nat) /\ Len(SubSeq(b, 1, k)) = k
         /\ \A i \in 1 .. k : SubSeq(b, 1, k)[i] = b[i]
         /\ h \o SubSeq(b, 1, k) \in Seq(Nat)
<1>1. b \in Seq(Nat) /\ Len(b) = Size
  BY Constants
<1>2. /\ SubSeq(b, 1, k) \in Seq(Nat) /\ Len(SubSeq(b, 1, k)) = k
      /\ \A i \in 1 .. k : SubSeq(b, 1, k)[i] = b[i]
  BY <1>1, Constants, SubSeqProperties
<1> QED BY <1>2, ConcatProperties

LEMMA InitBounds == Init => Bounds
BY Constants, NewLayerType
   DEF Init, Bounds, Types, EnvironmentTypes, LayerTypes, ThreadTypes, Link, Queue, Call, Work,
       NoCall, NoWork, Socket, Response, Places, Phases, StacksOpened, ReadFits, CountsAgree

-----------------------------------------------------------------------------
(* Updates of one connection and of one record. *)
LEMMA LinkStep ==
  ASSUME NEW c \in Connection, NEW l \in Link, NEW n \in 0 .. MaxUnits,
         EnvironmentTypes, conn' = [conn EXCEPT ![c] = l], l.wire <= n, sent <= n
  PROVE  conn' \in [Connection -> Link] /\ \A d \in Connection : conn'[d].wire <= n
<1>1. \A d \in Connection : conn[d].wire \in Nat /\ conn[d].wire <= sent /\ sent \in Nat
  BY Constants DEF EnvironmentTypes, Link
<1>2. conn \in [Connection -> Link]
  BY DEF EnvironmentTypes
<1> QED BY <1>1, <1>2, Constants

LEMMA ClosedLink == Closed \in Link /\ Closed.wire = 0
BY Constants DEF Closed, Link

(* a step that closes connections and changes no others                    *)
LEMMA CloseStep ==
  ASSUME EnvironmentTypes, NEW S, UNCHANGED sent,
         conn' = [c \in Connection |-> IF c \in S THEN Closed ELSE conn[c]]
  PROVE  conn' \in [Connection -> Link] /\ \A c \in Connection : conn'[c].wire <= sent'
<1>1. conn \in [Connection -> Link] /\ sent \in Nat /\ \A c \in Connection : conn[c].wire <= sent
  BY Constants DEF EnvironmentTypes
<1> QED BY <1>1, ClosedLink

(* the layer is deleted *)
LEMMA CloseConnectionTypes ==
  ASSUME EnvironmentTypes, StacksOpened, CloseConnection, UNCHANGED <<sent, opened>>
  PROVE  /\ conn' \in [Connection -> Link] /\ \A c \in Connection : conn'[c].wire <= sent'
         /\ stack' = 0 /\ ip' = NewLayer /\ ip' \in Layer /\ ip'.socket = None
         /\ registered' \subseteq registered
<1>1. conn' = [c \in Connection |->
                 IF c \in {d \in Connection : d = ip.socket \/ (ip.listening /\ conn[d].ours = "backlog")}
                 THEN Closed ELSE conn[c]]
  BY DEF CloseConnection
<1>2. conn' \in [Connection -> Link] /\ \A c \in Connection : conn'[c].wire <= sent'
  BY <1>1, CloseStep, Zenon
<1>3. stack' = 0 /\ ip' = NewLayer /\ registered' \subseteq registered
  BY DEF CloseConnection
<1> QED BY <1>2, <1>3, NewLayerType

(* What a step leaves of the bounds that leaves both threads where they are. *)
LEMMA ThreadsRest ==
  ASSUME Bounds, UNCHANGED <<net, call, ecet, work, queue>>, ip'.fill = ip.fill \/ ip'.fill = 0
  PROVE  ThreadTypes' /\ ReadFits' /\ CountsAgree'
<1>1. ThreadTypes' /\ CountsAgree'
  BY DEF Bounds, Types, ThreadTypes, CountsAgree
<1>2. ReadFits'
  BY DEF Bounds, Types, ThreadTypes, ReadFits, Call
<1> QED BY <1>1, <1>2

LEMMA PeersBounds ==
  ASSUME Bounds, Peers PROVE Bounds'
<1>1. PICK c \in Connection : PeerConnects(c) \/ PeerSends(c) \/ PeerCloses(c)
  BY DEF Peers
<1>2. Peer
  BY <1>1 DEF PeerConnects, PeerSends, PeerCloses
<1>3. LayerTypes' /\ ThreadTypes' /\ StacksOpened' /\ ReadFits' /\ CountsAgree'
  BY <1>2 DEF Peer, Bounds, Types, LayerTypes, ThreadTypes, StacksOpened, ReadFits, CountsAgree
<1>4. /\ conn \in [Connection -> Link] /\ sent \in 0 .. MaxUnits /\ conn[c] \in Link
      /\ conn[c].wire <= sent /\ conn[c].wire \in Nat
  BY Constants DEF Bounds, Types, EnvironmentTypes, Link
<1>5. sent' \in 0 .. MaxUnits /\ sent <= sent'
      /\ \E l \in Link : conn' = [conn EXCEPT ![c] = l] /\ l.wire <= sent'
  <2>1. CASE PeerConnects(c)
    <3>1. /\ [conn[c] EXCEPT !.peer = "up", !.ours = "backlog"] \in Link
          /\ [conn[c] EXCEPT !.peer = "up", !.ours = "backlog"].wire <= sent
      BY <1>4 DEF Link
    <3>2. /\ conn' = [conn EXCEPT ![c] = [conn[c] EXCEPT !.peer = "up", !.ours = "backlog"]]
          /\ sent' = sent
      BY <2>1 DEF PeerConnects
    <3>3. \E l \in Link : conn' = [conn EXCEPT ![c] = l] /\ l.wire <= sent'
      BY <3>1, <3>2, Zenon
    <3>4. sent' \in 0 .. MaxUnits /\ sent <= sent'
      BY <1>4, <3>2, Constants
    <3> QED BY <3>3, <3>4, Zenon
  <2>2. CASE PeerSends(c)
    <3>1. /\ sent' = sent + 1 /\ sent + 1 \in 0 .. MaxUnits
          /\ conn' = [conn EXCEPT ![c] = [conn[c] EXCEPT !.wire = conn[c].wire + 1]]
      BY <1>4, <2>2, Constants DEF PeerSends
    <3>2. /\ [conn[c] EXCEPT !.wire = conn[c].wire + 1] \in Link
          /\ [conn[c] EXCEPT !.wire = conn[c].wire + 1].wire <= sent + 1
      BY <1>4, <3>1, Constants DEF Link
    <3>3. \E l \in Link : conn' = [conn EXCEPT ![c] = l] /\ l.wire <= sent'
      BY <3>1, <3>2, Zenon
    <3>4. sent' \in 0 .. MaxUnits /\ sent <= sent'
      BY <1>4, <3>1, Constants
    <3> QED BY <3>3, <3>4, Zenon
  <2>3. CASE PeerCloses(c)
    <3>1. PICK end \in {"gone", "reset"} : conn' = [conn EXCEPT ![c] = [conn[c] EXCEPT !.peer = end]]
      BY <2>3 DEF PeerCloses
    <3>2. [conn[c] EXCEPT !.peer = end] \in Link /\ [conn[c] EXCEPT !.peer = end].wire = conn[c].wire
      BY <1>4 DEF Link
    <3>3. UNCHANGED sent /\ [conn[c] EXCEPT !.peer = end].wire <= sent'
      BY <1>4, <2>3, <3>2 DEF PeerCloses
    <3>4. \E l \in Link : conn' = [conn EXCEPT ![c] = l] /\ l.wire <= sent'
      BY <3>1, <3>2, <3>3, Zenon
    <3>5. sent' \in 0 .. MaxUnits /\ sent <= sent'
      BY <1>4, <3>3, Constants
    <3> QED BY <3>4, <3>5, Zenon
  <2> QED BY <1>1, <2>1, <2>2, <2>3
<1>6. conn' \in [Connection -> Link] /\ \A d \in Connection : conn'[d].wire <= sent'
  <2>1. PICK l \in Link : conn' = [conn EXCEPT ![c] = l] /\ l.wire <= sent'
    BY <1>5
  <2> QED BY <1>5, <2>1, LinkStep DEF Bounds, Types
<1>7. EnvironmentTypes'
  BY <1>2, <1>5, <1>6 DEF Peer, Bounds, Types, EnvironmentTypes
<1> QED BY <1>3, <1>7 DEF Bounds, Types

LEMMA OpenConnectionBounds ==
  ASSUME Bounds, OpenConnection PROVE Bounds'
<1>1. /\ UNCHANGED <<service, sent, fbState, queue, net, call, ext, faults, ecet, work>>
      /\ stack = 0 /\ opened < MaxOpened /\ stack' = opened + 1 /\ opened' = opened + 1
  BY DEF OpenConnection, Executes
<1>2. /\ conn \in [Connection -> Link] /\ sent \in 0 .. MaxUnits
      /\ opened \in 0 .. MaxOpened /\ opened \in Nat /\ opened + 1 \in 1 .. MaxOpened
      /\ registered \subseteq (Connection \cup {Listen}) \X (1 .. opened)
  BY <1>1, Constants DEF Bounds, Types, EnvironmentTypes, StacksOpened
<1>3. /\ conn' \in [Connection -> Link] /\ \A d \in Connection : conn'[d].wire <= sent
      /\ ip' \in Layer /\ ip'.fill = 0
      /\ \E d \in Connection \cup {Listen} : registered' = registered \cup {<<d, opened + 1>>}
  <2>1. CASE ip' = [NewLayer EXCEPT !.listening = TRUE, !.state = "Listening"]
             /\ registered' = registered \cup {<<Listen, stack'>>} /\ UNCHANGED conn
    <3>1. ip' \in Layer /\ ip'.fill = 0
      BY <2>1, NewLayerType DEF Layer
    <3> QED BY <1>1, <1>2, <2>1, <3>1 DEF Bounds, Types, EnvironmentTypes
  <2>2. ASSUME NEW c \in Connection,
               conn' = [conn EXCEPT ![c] = [conn[c] EXCEPT !.peer = "up", !.ours = "open"]],
               ip' = [NewLayer EXCEPT !.socket = c, !.state = "Connected"],
               registered' = registered \cup {<<c, stack'>>}
        PROVE  <1>3!:
    <3>1. ip' \in Layer /\ ip'.fill = 0
      BY <2>2, NewLayerType DEF Layer, Socket
    <3>2. [conn[c] EXCEPT !.peer = "up", !.ours = "open"] \in Link
          /\ [conn[c] EXCEPT !.peer = "up", !.ours = "open"].wire <= sent
      BY <1>2 DEF Link, Bounds, Types, EnvironmentTypes
    <3>3. conn' \in [Connection -> Link] /\ \A d \in Connection : conn'[d].wire <= sent
      <4>1. PICK l \in Link : conn' = [conn EXCEPT ![c] = l] /\ l.wire <= sent
        BY <2>2, <3>2
      <4>2. sent <= sent
        BY <1>2, Constants
      <4> QED BY <1>2, <4>1, <4>2, LinkStep DEF Bounds, Types
    <3> QED BY <1>1, <2>2, <3>1, <3>3
  <2> QED BY <2>1, <2>2 DEF OpenConnection
<1>4. ThreadTypes' /\ ReadFits' /\ CountsAgree'
  BY <1>1, <1>3, ThreadsRest
<1>5. EnvironmentTypes' /\ LayerTypes'
  BY <1>1, <1>3 DEF Bounds, Types, EnvironmentTypes, LayerTypes
<1>6. StacksOpened'
  <2>1. 1 .. opened \subseteq 1 .. opened' /\ opened + 1 \in 1 .. opened' /\ opened' \in 0 .. MaxOpened
    BY <1>1, <1>2
  <2>2. registered' \subseteq (Connection \cup {Listen}) \X (1 .. opened')
    BY <1>2, <1>3, <2>1
  <2> QED BY <1>1, <1>2, <2>1, <2>2 DEF Bounds, StacksOpened
<1> QED BY <1>4, <1>5, <1>6 DEF Bounds, Types

(* INIT, a failed send, a terminated connection or a Kill closes the stack. *)
LEMMA CloseConnectionBounds ==
  ASSUME Bounds, CloseConnection,
         UNCHANGED <<service, sent, opened, queue, net, call, ecet, work, ext, faults>>,
         fbState' \in {"RUNNING", "STOPPED", "KILLED", "IDLE"}
  PROVE  Bounds'
<1>1. /\ conn' \in [Connection -> Link] /\ \A c \in Connection : conn'[c].wire <= sent'
      /\ stack' = 0 /\ ip' \in Layer /\ ip'.fill = 0 /\ ip'.socket = None
      /\ registered' \subseteq registered
  BY CloseConnectionTypes, NewLayerType DEF Bounds, Types
<1>2. ThreadTypes' /\ ReadFits' /\ CountsAgree'
  BY <1>1, ThreadsRest
<1>3. EnvironmentTypes' /\ LayerTypes'
  BY <1>1 DEF Bounds, Types, EnvironmentTypes, LayerTypes
<1>4. StacksOpened'
  BY <1>1 DEF Bounds, StacksOpened
<1> QED BY <1>2, <1>3, <1>4 DEF Bounds, Types

LEMMA ApplicationBounds ==
  ASSUME Bounds, Application PROVE Bounds'
<1>1. CASE OpenConnection
  BY <1>1, OpenConnectionBounds
<1>2. CASE InitCloses
  BY <1>2, CloseConnectionBounds DEF InitCloses, Executes, Bounds, Types, EnvironmentTypes
<1>3. CASE SendFails
  <2>1. UNCHANGED <<service, sent, fbState, queue, net, call, ext, faults, opened>>
    BY <1>3 DEF SendFails, Executes
  <2>2. CASE CloseConnection /\ UNCHANGED <<ecet, work>>
    BY <2>1, <2>2, CloseConnectionBounds DEF Bounds, Types, EnvironmentTypes
  <2>3. CASE ecet' = "failed" /\ work' = [NoWork EXCEPT !.stack = stack] /\ StaysOpen
    <3>1. EnvironmentTypes' /\ LayerTypes' /\ StacksOpened'
      BY <2>1, <2>3 DEF StaysOpen, Bounds, Types, EnvironmentTypes, LayerTypes, StacksOpened
    <3>2. stack \in 0 .. MaxOpened
      BY Constants DEF Bounds, StacksOpened
    <3>3. work' \in Work
      BY <2>3, <3>2 DEF NoWork, Work, Response
    <3>4. ThreadTypes'
      BY <2>1, <2>3, <3>3 DEF Bounds, Types, ThreadTypes, Phases
    <3>5. ReadFits' /\ CountsAgree'
      BY <2>1, <2>3 DEF StaysOpen, Bounds, ReadFits, CountsAgree
    <3> QED BY <3>1, <3>4, <3>5 DEF Bounds, Types
  <2> QED BY <1>3, <2>2, <2>3 DEF SendFails
<1> QED BY <1>1, <1>2, <1>3 DEF Application

LEMMA ManagementBounds ==
  ASSUME Bounds, Management PROVE Bounds'
<1>1. /\ UNCHANGED <<service, sent, opened, queue, net, call, ecet, work, ext, faults>>
      /\ fbState' \in {"RUNNING", "STOPPED", "KILLED", "IDLE"}
  BY DEF Management, CommandStop, CommandKill, CommandReset, CommandStart, Command
<1>2. CloseConnection \/ StaysOpen
  BY DEF Management, CommandStop, CommandKill, CommandReset, CommandStart
<1>3. CASE StaysOpen
  BY <1>1, <1>3, ThreadsRest DEF StaysOpen, Bounds, Types, EnvironmentTypes, LayerTypes, StacksOpened
<1> QED BY <1>1, <1>2, <1>3, CloseConnectionBounds

LEMMA FailedSendBounds ==
  ASSUME Bounds, CloseFailedSocket \/ ListenAgain PROVE Bounds'
<1>1. UNCHANGED <<service, sent, fbState, stack, opened, queue, net, call, ext>>
  BY DEF CloseFailedSocket, ListenAgain, FailedSend
<1>2. ip \in Layer
  BY DEF Bounds, Types, LayerTypes
<1>3. /\ conn' \in [Connection -> Link] /\ \A c \in Connection : conn'[c].wire <= sent'
      /\ registered' \subseteq registered
  <2>1. CASE CloseFailedSocket
    <3>1. conn' = [c \in Connection |-> IF c \in {ip.socket} THEN Closed ELSE conn[c]]
      BY <2>1 DEF CloseFailedSocket, CloseSocket
    <3>2. registered' \subseteq registered
      BY <2>1 DEF CloseFailedSocket, CloseSocket
    <3> QED BY <1>1, <3>1, <3>2, CloseStep DEF Bounds, Types
  <2>2. CASE ListenAgain
    BY <1>1, <2>2 DEF ListenAgain, Bounds, Types, EnvironmentTypes
  <2> QED BY <2>1, <2>2
<1>4. faults' \subseteq {"lost", "raced", "undefined"}
  BY DEF CloseFailedSocket, ListenAgain, RaceIf, Bounds, Types, EnvironmentTypes
<1>5. ip' \in Layer /\ ip'.fill = ip.fill /\ (ip'.socket = ip.socket \/ ip'.socket = None)
  <2>1. CASE ip' = [ip EXCEPT !.socket = None]
    BY <1>2, <2>1 DEF Layer, Socket
  <2>2. CASE ip' = [ip EXCEPT !.state = "Listening"]
    BY <1>2, <2>2 DEF Layer
  <2> QED BY <2>1, <2>2 DEF CloseFailedSocket, ListenAgain
<1>6. ecet' \in {"closed", "idle"} /\ work' \in Work
  BY NoWorkType DEF CloseFailedSocket, ListenAgain, Bounds, Types, ThreadTypes
<1>7. EnvironmentTypes' /\ LayerTypes'
  BY <1>1, <1>3, <1>4, <1>5 DEF Bounds, Types, EnvironmentTypes, LayerTypes
<1>8. ThreadTypes' /\ StacksOpened'
  BY <1>1, <1>3, <1>5, <1>6 DEF Bounds, Types, ThreadTypes, Phases, StacksOpened
<1>9. ReadFits' /\ CountsAgree'
  BY <1>1, <1>5, <1>6 DEF Bounds, ReadFits, CountsAgree
<1> QED BY <1>7, <1>8, <1>9 DEF Bounds, Types

(* a step of the event chain thread that only changes what it has in hand, *)
(* the interrupt queue and the layer's response, data and fill             *)
LEMMA ExternalEventBounds ==
  ASSUME Bounds, ExternalEvent, ip' \in Layer, ip'.socket = ip.socket,
         ip'.fill = ip.fill \/ ip'.fill = 0,
         faults' \subseteq faults \cup {"raced"}, queue' \in Queue, ecet' \in Phases, work' \in Work,
         CountsAgree'
  PROVE  Bounds'
<1>1. UNCHANGED <<service, conn, sent, registered, fbState, stack, opened, net, call, ext>>
  BY DEF ExternalEvent
<1>2. EnvironmentTypes' /\ LayerTypes' /\ ThreadTypes' /\ StacksOpened'
  BY <1>1 DEF Bounds, Types, EnvironmentTypes, LayerTypes, ThreadTypes, StacksOpened
<1>3. ReadFits'
  BY <1>1, Constants DEF Bounds, Types, ThreadTypes, Call, ReadFits
<1> QED BY <1>2, <1>3 DEF Bounds, Types

LEMMA BeginExternalEventBounds ==
  ASSUME Bounds, BeginExternalEvent PROVE Bounds'
<1>1. /\ UNCHANGED <<service, conn, sent, registered, fbState, stack, opened, ip, queue, net, call>>
      /\ ext > 0 /\ ext' = ext - 1 /\ faults' \subseteq faults \cup {"lost"} /\ ecet = "idle"
  BY DEF BeginExternalEvent
<1>2. EnvironmentTypes' /\ StacksOpened' /\ ReadFits'
  BY <1>1 DEF Bounds, Types, EnvironmentTypes, StacksOpened, ReadFits
<1>3. ext' \in 0 .. ExternalLimit
  BY <1>1, Constants DEF Bounds, Types, LayerTypes
<1>4. queue.count \in Nat /\ stack \in 0 .. MaxOpened /\ work \in Work
  BY Constants DEF Bounds, Types, LayerTypes, ThreadTypes, Queue, StacksOpened
<1>5. \/ ecet' = "interrupt" /\ work' \in Work /\ work'.copy = queue.count
      \/ UNCHANGED <<ecet, work>>
  <2>1. \/ ecet' = "interrupt"
           /\ work' = [NoWork EXCEPT !.stack = stack, !.copy = queue.count, !.next = 1]
        \/ UNCHANGED <<ecet, work>>
    BY DEF BeginExternalEvent
  <2>2. LET w == [NoWork EXCEPT !.stack = stack, !.copy = queue.count, !.next = 1]
        IN  w \in Work /\ w.copy = queue.count
    BY <1>4 DEF NoWork, Work, Response
  <2> QED BY <2>1, <2>2
<1>6. ThreadTypes' /\ LayerTypes'
  BY <1>1, <1>3, <1>5 DEF Bounds, Types, LayerTypes, ThreadTypes, Phases
<1>7. CountsAgree'
  BY <1>1, <1>4, <1>5 DEF Bounds, CountsAgree
<1> QED BY <1>2, <1>6, <1>7 DEF Bounds, Types

LEMMA ProcessInterruptBounds ==
  ASSUME Bounds, ProcessInterrupt PROVE Bounds'
<1>1. /\ ExternalEvent /\ ecet = "interrupt" /\ UNCHANGED queue
      /\ ip \in Layer /\ work \in Work /\ queue \in Queue
      /\ work.copy <= queue.count
  BY DEF ProcessInterrupt, Bounds, Types, LayerTypes, ThreadTypes, CountsAgree
<1>2. CASE HandsOver
  <2>1. /\ ip' = [ip EXCEPT !.handed = ip.handed \o SubSeq(ip.buffer, 1, ip.fill)]
        /\ ecet' = "handed" /\ UNCHANGED work
    BY <1>2 DEF ProcessInterrupt
  <2>2. faults' \subseteq faults \cup {"raced"}
    BY <1>2 DEF ProcessInterrupt, RaceIf
  <2>3. ip.handed \o SubSeq(ip.buffer, 1, ip.fill) \in Seq(Nat)
    BY <1>1, HandedType DEF Layer
  <2>4. ip' \in Layer /\ ip'.socket = ip.socket /\ ip'.fill = ip.fill
    BY <1>1, <2>1, <2>3 DEF Layer
  <2>5. CountsAgree'
    BY <1>1, <2>1 DEF Bounds, CountsAgree, ExternalEvent
  <2> QED BY <1>1, <2>1, <2>2, <2>4, <2>5, ExternalEventBounds DEF Phases
<1>3. CASE ~HandsOver
  <2>1. /\ work' = [work EXCEPT !.next = work.next + 1, !.result = Worse(work.result, ip.response)]
        /\ UNCHANGED <<ip, ecet, faults>>
    BY <1>3 DEF ProcessInterrupt
  <2>2. Worse(work.result, ip.response) \in Response /\ work.next + 1 \in Nat
    BY <1>1, Worst DEF Work, Layer
  <2>3. work' \in Work /\ work'.copy = work.copy
    BY <1>1, <2>1, <2>2 DEF Work
  <2>4. CountsAgree'
    BY <1>1, <2>1, <2>3 DEF Bounds, CountsAgree, ExternalEvent
  <2> QED BY <1>1, <2>1, <2>3, <2>4, ExternalEventBounds DEF Phases
<1> QED BY <1>2, <1>3

LEMMA ResetBufferBounds ==
  ASSUME Bounds, ResetBuffer PROVE Bounds'
<1>1. /\ ExternalEvent /\ ecet = "handed" /\ ecet' = "interrupt" /\ UNCHANGED queue
      /\ ip \in Layer /\ work \in Work /\ queue \in Queue
      /\ work.copy <= queue.count
  BY DEF ResetBuffer, Bounds, Types, LayerTypes, ThreadTypes, CountsAgree
<1>2. PICK answer \in {"Ok", "Nothing", "DataTypeError"} :
        /\ ip' = [ip EXCEPT !.response = answer, !.fill = 0]
        /\ work' = [work EXCEPT !.next = work.next + 1, !.result = Worse(work.result, answer)]
  BY DEF ResetBuffer
<1>3. answer \in Response /\ 0 \in 0 .. Size
  BY Constants DEF Response
<1>4. ip' \in Layer /\ ip'.socket = ip.socket /\ ip'.fill = 0
  BY <1>1, <1>2, <1>3 DEF Layer
<1>5. Worse(work.result, answer) \in Response /\ work.next + 1 \in Nat
  <2>1. work.result \in Response /\ work.next + 1 \in Nat
    BY <1>1 DEF Work
  <2> QED BY <1>3, <2>1, Worst
<1>6. work' \in Work /\ work'.copy = work.copy
  BY <1>1, <1>2, <1>5 DEF Work
<1>7. CountsAgree'
  BY <1>1, <1>6 DEF Bounds, CountsAgree, ExternalEvent
<1>8. faults' \subseteq faults \cup {"raced"}
  BY DEF ResetBuffer, RaceIf
<1> QED BY <1>1, <1>4, <1>6, <1>7, <1>8, ExternalEventBounds DEF Phases

LEMMA CountBounds ==
  ASSUME Bounds, LoadCount \/ StoreCount \/ ShiftInterrupts PROVE Bounds'
<1>1. /\ ExternalEvent /\ UNCHANGED ip /\ ip \in Layer /\ work \in Work /\ queue \in Queue
      /\ faults' \subseteq faults \cup {"raced"} /\ UNCHANGED <<net, call>>
  BY DEF LoadCount, StoreCount, ShiftInterrupts, ExternalEvent, Bounds, Types, LayerTypes,
         ThreadTypes, RaceIf
<1>2. /\ queue.count \in 0 .. QueueSize /\ queue.count \in Nat /\ work.copy \in Nat /\ work.count \in Nat
      /\ queue.slot \in [1 .. QueueSize -> 0 .. MaxOpened] /\ call.count \in Nat
  BY <1>1, Constants DEF Queue, Work, Bounds, Types, ThreadTypes, Call
<1>3. CASE LoadCount
  <2>1. /\ ecet = "interrupt" /\ ecet' = "count" /\ UNCHANGED queue
        /\ work' = [work EXCEPT !.count = queue.count, !.next = 0]
    BY <1>3 DEF LoadCount
  <2>2. work' \in Work /\ work'.copy = work.copy /\ work'.count = queue.count
    BY <1>1, <1>2, <2>1 DEF Work
  <2>3. CountsAgree'
    BY <1>1, <1>2, <2>1, <2>2 DEF Bounds, CountsAgree
  <2> QED BY <1>1, <2>1, <2>2, <2>3, ExternalEventBounds DEF Phases
<1>4. CASE StoreCount
  <2>1. /\ ecet = "count" /\ ecet' = "shift"
        /\ queue' = [queue EXCEPT !.count = work.count - work.copy]
        /\ work' = [work EXCEPT !.count = 0]
    BY <1>4 DEF StoreCount
  <2>2. work.count - work.copy \in 0 .. QueueSize /\ work.count - work.copy <= queue.count
    BY <1>2, <2>1, Constants DEF Bounds, CountsAgree
  <2>3. queue' \in Queue /\ queue'.count = work.count - work.copy
    BY <1>1, <2>1, <2>2 DEF Queue
  <2>4. work' \in Work
    BY <1>1, <2>1 DEF Work
  <2>5. CountsAgree'
    BY <1>1, <1>2, <2>1, <2>2, <2>3 DEF Bounds, CountsAgree
  <2> QED BY <1>1, <2>1, <2>3, <2>4, <2>5, ExternalEventBounds DEF Phases
<1>5. CASE ShiftInterrupts
  <2>1. /\ ecet = "shift" /\ ecet' = "respond" /\ work' = [work EXCEPT !.copy = 0]
        /\ queue' = [queue EXCEPT !.slot = [i \in 1 .. QueueSize |->
             IF i > queue.count THEN queue.slot[i]
             ELSE IF i + work.copy <= QueueSize THEN queue.slot[i + work.copy] ELSE 0]]
    BY <1>5 DEF ShiftInterrupts
  <2>2. ASSUME NEW i \in 1 .. QueueSize
        PROVE  (IF i > queue.count THEN queue.slot[i]
                ELSE IF i + work.copy <= QueueSize THEN queue.slot[i + work.copy] ELSE 0)
                 \in 0 .. MaxOpened
    BY <1>2, Constants
  <2>3. queue' \in Queue /\ queue'.count = queue.count
    BY <1>1, <2>1, <2>2 DEF Queue
  <2>4. work' \in Work
    BY <1>1, <2>1 DEF Work
  <2>5. CountsAgree'
    BY <1>1, <2>1, <2>3 DEF Bounds, CountsAgree
  <2> QED BY <1>1, <2>1, <2>3, <2>4, <2>5, ExternalEventBounds DEF Phases
<1> QED BY <1>3, <1>4, <1>5

LEMMA RespondBounds ==
  ASSUME Bounds, Respond PROVE Bounds'
<1>1. /\ UNCHANGED <<service, sent, fbState, opened, queue, net, call, ext, faults>>
      /\ ecet' = "idle" /\ work' = NoWork /\ (CloseConnection \/ StaysOpen)
  BY DEF Respond
<1>2. /\ conn' \in [Connection -> Link] /\ \A c \in Connection : conn'[c].wire <= sent'
      /\ ip' \in Layer /\ (ip'.fill = ip.fill \/ ip'.fill = 0)
      /\ registered' \subseteq registered
      /\ \/ UNCHANGED <<stack, ip>>
         \/ stack' = 0 /\ ip'.socket = None
  <2>1. CASE CloseConnection
    BY <1>1, <2>1, CloseConnectionTypes, NewLayerType DEF Bounds, Types
  <2>2. CASE StaysOpen
    <3>1. UNCHANGED <<registered, conn, stack, ip, sent>>
      BY <1>1, <2>2 DEF StaysOpen
    <3>2. /\ conn \in [Connection -> Link] /\ \A c \in Connection : conn[c].wire <= sent
          /\ ip \in Layer
      BY DEF Bounds, Types, EnvironmentTypes, LayerTypes
    <3> QED BY <3>1, <3>2
  <2> QED BY <1>1, <2>1, <2>2
<1>3. EnvironmentTypes' /\ LayerTypes'
  BY <1>1, <1>2 DEF Bounds, Types, EnvironmentTypes, LayerTypes
<1>4. NoWork \in Work
  BY NoWorkType
<1>5. ThreadTypes' /\ StacksOpened'
  BY <1>1, <1>2, <1>4 DEF Bounds, Types, ThreadTypes, Phases, StacksOpened
<1>6. ReadFits' /\ CountsAgree'
  BY <1>1, <1>2, Constants DEF Bounds, Types, ThreadTypes, Call, ReadFits, CountsAgree
<1> QED BY <1>3, <1>5, <1>6 DEF Bounds, Types

LEMMA UndefinedBounds ==
  ASSUME Bounds, Undefined PROVE Bounds'
BY DEF Undefined, Bounds, Types, EnvironmentTypes, LayerTypes, ThreadTypes, StacksOpened, ReadFits,
       CountsAgree

LEMMA EventChainThreadBounds ==
  ASSUME Bounds, EventChainThread PROVE Bounds'
BY FailedSendBounds, BeginExternalEventBounds, ProcessInterruptBounds, ResetBufferBounds,
   CountBounds, RespondBounds, UndefinedBounds
   DEF EventChainThread, EventChainUsesDeletedLayer

-----------------------------------------------------------------------------
(* The network thread. *)
ConnTypes ==
  conn \in [Connection -> Link] /\ \A c \in Connection : conn[c].wire <= sent

RegisteredOK == registered \subseteq (Connection \cup {Listen}) \X (1 .. opened)

LEMMA NetworkBounds ==
  ASSUME Bounds, Network, ConnTypes', RegisteredOK', ip' \in Layer,
         stack # 0 \/ ip'.socket = ip.socket,
         queue' \in Queue, ext' \in 0 .. ExternalLimit,
         faults' \subseteq faults \cup {"lost", "raced"},
         net' \in Places, call' \in Call, net' # "select" => call'.stack \in 1 .. opened,
         ReadFits', CountsAgree'
  PROVE  Bounds'
<1>1. UNCHANGED <<service, sent, fbState, stack, opened, ecet, work>>
  BY DEF Network
<1>2. EnvironmentTypes' /\ LayerTypes' /\ ThreadTypes'
  BY <1>1 DEF ConnTypes, Bounds, Types, EnvironmentTypes, LayerTypes, ThreadTypes
<1>3. StacksOpened'
  BY <1>1 DEF RegisteredOK, Bounds, StacksOpened
<1> QED BY <1>2, <1>3 DEF Bounds, Types

LEMMA BeforeNetwork ==
  ASSUME Bounds
  PROVE  /\ ConnTypes /\ RegisteredOK /\ ip \in Layer /\ queue \in Queue
         /\ ext \in 0 .. ExternalLimit /\ call \in Call /\ net \in Places
         /\ queue.count \in 0 .. QueueSize /\ queue.count \in Nat /\ call.count \in Nat
         /\ ip.fill \in 0 .. Size /\ ip.fill \in Nat /\ call.start \in Nat /\ call.units \in Nat
         /\ opened \in 0 .. MaxOpened /\ stack \in 0 .. opened
         /\ 1 .. opened \subseteq 0 .. MaxOpened
         /\ (net # "select" /\ call.stack = stack) => call.stack \in 1 .. opened /\ stack # 0
<1>1. /\ ConnTypes /\ RegisteredOK /\ ip \in Layer /\ queue \in Queue
      /\ ext \in 0 .. ExternalLimit /\ call \in Call /\ net \in Places
      /\ opened \in 0 .. MaxOpened /\ stack \in 0 .. opened
      /\ net # "select" => call.stack \in 1 .. opened
  BY DEF Bounds, Types, EnvironmentTypes, LayerTypes, ThreadTypes, ConnTypes, RegisteredOK, StacksOpened
<1>2. /\ queue.count \in 0 .. QueueSize /\ queue.count \in Nat /\ call.count \in Nat
      /\ ip.fill \in 0 .. Size /\ ip.fill \in Nat /\ call.start \in Nat /\ call.units \in Nat
  BY <1>1, Constants DEF Layer, Queue, Call
<1>3. 1 .. opened \subseteq 0 .. MaxOpened
  BY <1>1, Constants
<1>4. (net # "select" /\ call.stack = stack) => call.stack \in 1 .. opened /\ stack # 0
  BY <1>1, Constants
<1> QED BY <1>1, <1>2, <1>3, <1>4

LEMMA SelectBounds ==
  ASSUME Bounds, Select PROVE Bounds'
<1>1. /\ net = "select" /\ net' = "call" /\ Network
      /\ UNCHANGED <<conn, sent, registered, opened, ip, queue, ext, faults>>
  BY DEF Select, Network
<1>2. PICK r \in registered : call' = [NoCall EXCEPT !.socket = r[1], !.stack = r[2]]
  BY DEF Select
<1>3. r[1] \in Connection \cup {Listen} /\ r[2] \in 1 .. opened /\ r[2] \in 0 .. MaxOpened
  BY BeforeNetwork DEF RegisteredOK
<1>4. call' \in Call /\ call'.stack \in 1 .. opened
  BY <1>2, <1>3 DEF NoCall, Call, Socket
<1>5. ReadFits' /\ CountsAgree'
  BY <1>1 DEF Bounds, ReadFits, CountsAgree, Network
<1> QED
  BY <1>1, <1>4, <1>5, BeforeNetwork, NetworkBounds DEF ConnTypes, RegisteredOK, Places

LEMMA EnterRecvDataBounds ==
  ASSUME Bounds, EnterRecvData PROVE Bounds'
<1>1. /\ net = "call" /\ call.stack = stack /\ Network
      /\ UNCHANGED <<conn, sent, registered, opened, call, queue, ext, faults>>
      /\ ip' = [ip EXCEPT !.response = "Nothing"]
      /\ net' \in {"accept", "wait", "refuse", "return"}
  BY DEF EnterRecvData, InLayer, Network
<1>2. ip' \in Layer
  BY <1>1, BeforeNetwork DEF Layer, Response
<1>3. ReadFits' /\ CountsAgree'
  BY <1>1 DEF Bounds, ReadFits, CountsAgree, Network
<1> QED
  BY <1>1, <1>2, <1>3, BeforeNetwork, NetworkBounds DEF ConnTypes, RegisteredOK, Places

LEMMA AcceptConnectionBounds ==
  ASSUME Bounds, AcceptConnection PROVE Bounds'
<1>1. /\ net = "accept" /\ call.stack = stack /\ Network /\ net' = "return"
      /\ UNCHANGED <<sent, opened, call, queue, ext>>
      /\ faults' \subseteq faults \cup {"raced"}
  BY DEF AcceptConnection, InLayer, Network, RaceIf
<1>2. PICK c \in Connection :
        /\ conn' = [conn EXCEPT ![c] = [conn[c] EXCEPT !.ours = "open"]]
        /\ registered' = registered \cup {<<c, stack>>}
        /\ ip' = [ip EXCEPT !.socket = c, !.state = "Connected"]
  BY DEF AcceptConnection
<1>3. ip' \in Layer
  BY <1>2, BeforeNetwork DEF Layer, Socket
<1>4. ConnTypes'
  <2>1. LET l == [conn[c] EXCEPT !.ours = "open"] IN l \in Link /\ l.wire <= sent
    BY BeforeNetwork DEF ConnTypes, Link
  <2>2. PICK l \in Link : conn' = [conn EXCEPT ![c] = l] /\ l.wire <= sent
    BY <1>2, <2>1, Zenon
  <2>3. sent \in 0 .. MaxUnits /\ sent <= sent
    BY Constants DEF Bounds, Types, EnvironmentTypes
  <2> QED BY <1>1, <2>2, <2>3, LinkStep DEF ConnTypes, Bounds, Types
<1>5. RegisteredOK'
  BY <1>1, <1>2, BeforeNetwork DEF RegisteredOK
<1>6. ReadFits' /\ CountsAgree'
  BY <1>1 DEF Bounds, ReadFits, CountsAgree, Network
<1> QED BY <1>1, <1>3, <1>4, <1>5, <1>6, BeforeNetwork, NetworkBounds DEF Places

LEMMA RefuseBounds ==
  ASSUME Bounds, HandleConnectionAttemptInConnected PROVE Bounds'
<1>1. /\ net = "refuse" /\ call.stack = stack /\ Network /\ net' = "return"
      /\ UNCHANGED <<sent, opened, registered, call, ip, queue, ext, faults>>
  BY DEF HandleConnectionAttemptInConnected, InLayer, Network
<1>2. PICK c \in Connection : conn' = [conn EXCEPT ![c] = Closed]
  BY DEF HandleConnectionAttemptInConnected
<1>3. ConnTypes'
  BY <1>1, <1>2, BeforeNetwork, ClosedLink, Constants DEF ConnTypes, Bounds, Types, EnvironmentTypes
<1>4. ReadFits' /\ CountsAgree'
  BY <1>1 DEF Bounds, ReadFits, CountsAgree, Network
<1> QED BY <1>1, <1>3, <1>4, BeforeNetwork, NetworkBounds DEF Places, RegisteredOK

LEMMA ReceiveDataBounds ==
  ASSUME Bounds, ReceiveData PROVE Bounds'
<1>1. /\ net = "receive" /\ call.stack = stack /\ Network /\ net' = "received" /\ ip.socket # None
      /\ UNCHANGED <<sent, opened, registered, queue, ext>>
      /\ faults' \subseteq faults \cup {"raced"}
  BY DEF ReceiveData, Reads, InLayer, Network, RaceIf
<1> DEFINE c == ip.socket
<1>2. PICK n \in 1 .. conn[c].wire :
        /\ ip.fill + n <= Size
        /\ conn' = [conn EXCEPT ![c] = [conn[c] EXCEPT !.wire = conn[c].wire - n]]
        /\ ip' = [ip EXCEPT !.received = ip.received + n,
                            !.buffer = [i \in 1 .. Size |->
                               IF i \in ip.fill + 1 .. ip.fill + n
                               THEN ip.received + i - ip.fill ELSE ip.buffer[i]]]
        /\ call' = [call EXCEPT !.start = ip.fill, !.units = n]
  BY DEF ReceiveData
<1>3. /\ c \in Connection /\ ip.received \in Nat /\ ip.buffer \in [1 .. Size -> Nat]
      /\ conn[c] \in Link /\ conn[c].wire \in 0 .. MaxUnits /\ conn[c].wire <= sent
      /\ sent \in 0 .. MaxUnits
  BY <1>1, BeforeNetwork DEF Layer, Socket, ConnTypes, Link, Bounds, Types, EnvironmentTypes
<1>4. n \in Nat /\ n > 0 /\ conn[c].wire - n \in 0 .. MaxUnits /\ conn[c].wire - n <= sent
  <2> DEFINE w == conn[c].wire
  <2>1. n \in 1 .. w /\ w \in 0 .. MaxUnits /\ w <= sent
    BY <1>2, <1>3
  <2> HIDE DEF w
  <2>2. n \in Nat /\ n > 0 /\ w - n \in 0 .. MaxUnits /\ w - n <= sent
    BY <1>3, <2>1, Constants
  <2> QED BY <2>2 DEF w
<1>5. ConnTypes'
  <2>1. LET l == [conn[c] EXCEPT !.wire = conn[c].wire - n] IN l \in Link /\ l.wire <= sent
    BY <1>3, <1>4 DEF Link
  <2>2. PICK l \in Link : conn' = [conn EXCEPT ![c] = l] /\ l.wire <= sent
    BY <1>2, <2>1, Zenon
  <2> HIDE DEF c
  <2>3. sent <= sent
    BY <1>3, Constants
  <2> QED BY <1>1, <1>3, <2>2, <2>3, LinkStep DEF ConnTypes, Bounds, Types
<1>6. ip' \in Layer /\ ip'.fill = ip.fill
  <2>1. [i \in 1 .. Size |-> IF i \in ip.fill + 1 .. ip.fill + n
                             THEN ip.received + i - ip.fill ELSE ip.buffer[i]] \in [1 .. Size -> Nat]
    <3> SUFFICES ASSUME NEW i \in 1 .. Size
                 PROVE  (IF i \in ip.fill + 1 .. ip.fill + n
                         THEN ip.received + i - ip.fill ELSE ip.buffer[i]) \in Nat
      OBVIOUS
    <3>1. ip.buffer[i] \in Nat /\ i \in Nat /\ ip.fill \in Nat
      <4>1. ip.buffer[i] \in Nat
        BY <1>3
      <4>2. i \in Nat
        BY Constants
      <4>3. ip.fill \in Nat
        BY BeforeNetwork, Constants
      <4> QED BY <4>1, <4>2, <4>3
    <3>2. i \in ip.fill + 1 .. ip.fill + n => ip.received + i - ip.fill \in Nat
      BY <1>3, <1>4, <3>1
    <3> QED BY <3>1, <3>2
  <2>2. ip.received + n \in Nat
    BY <1>3, <1>4
  <2> QED BY <1>2, <2>1, <2>2, BeforeNetwork DEF Layer
<1>7. call' \in Call /\ call'.stack = call.stack /\ call'.start = ip.fill /\ call'.units = n
  BY <1>2, <1>4, BeforeNetwork DEF Call
<1>8. ReadFits'
  BY <1>2, <1>4, <1>6, <1>7, BeforeNetwork, Constants DEF ReadFits
<1>9. CountsAgree'
  BY <1>1 DEF Bounds, CountsAgree, Network
<1> QED
  BY <1>1, <1>5, <1>6, <1>7, <1>8, <1>9, BeforeNetwork, NetworkBounds DEF RegisteredOK, Places

LEMMA AddReceivedBounds ==
  ASSUME Bounds, AddReceived PROVE Bounds'
<1>1. /\ net = "received" /\ call.stack = stack /\ Network /\ net' = "interrupt"
      /\ UNCHANGED <<conn, sent, opened, registered, queue, ext>>
      /\ faults' \subseteq faults \cup {"raced"}
      /\ call' = [call EXCEPT !.start = 0, !.units = 0]
  BY DEF AddReceived, InLayer, Network, RaceIf
<1>2. PICK fill \in {call.start, ip.fill} :
        ip' = [ip EXCEPT !.fill = fill + call.units, !.response = "Ok"]
  BY DEF AddReceived
<1>3. fill + call.units \in 0 .. Size
  BY <1>1, <1>2, BeforeNetwork, Constants DEF Bounds, ReadFits
<1>4. ip' \in Layer
  BY <1>2, <1>3, BeforeNetwork DEF Layer, Response
<1>5. call' \in Call /\ call'.stack = call.stack
  BY <1>1, BeforeNetwork DEF Call
<1>6. ReadFits' /\ CountsAgree'
  BY <1>1 DEF Bounds, ReadFits, CountsAgree, Network
<1> QED
  BY <1>1, <1>4, <1>5, <1>6, BeforeNetwork, NetworkBounds DEF ConnTypes, RegisteredOK, Places

LEMMA ClosedByPeerBounds ==
  ASSUME Bounds, ConnectionClosedByPeer PROVE Bounds'
<1>1. /\ net = "receive" /\ call.stack = stack /\ Network /\ net' = "interrupt"
      /\ UNCHANGED <<sent, opened, call, queue, ext>>
      /\ faults' \subseteq faults \cup {"raced"} /\ CloseSocket(ip.socket)
      /\ ip' = [ip EXCEPT !.socket = None, !.response = "Terminated",
                          !.state = IF service = "server" THEN "Listening" ELSE ip.state]
  BY DEF ConnectionClosedByPeer, Reads, InLayer, Network, RaceIf
<1>2. ConnTypes'
  <2>1. conn' = [d \in Connection |-> IF d \in {ip.socket} THEN Closed ELSE conn[d]]
    BY <1>1 DEF CloseSocket
  <2> QED BY <1>1, <2>1, CloseStep DEF ConnTypes, Bounds, Types
<1>3. RegisteredOK'
  BY <1>1, BeforeNetwork DEF RegisteredOK, CloseSocket
<1>4. ip' \in Layer
  BY <1>1, BeforeNetwork DEF Layer, Response, Socket
<1>5. ReadFits' /\ CountsAgree'
  BY <1>1 DEF Bounds, ReadFits, CountsAgree, Network
<1> QED BY <1>1, <1>2, <1>3, <1>4, <1>5, BeforeNetwork, NetworkBounds DEF Places

LEMMA ReceiveFailsBounds ==
  ASSUME Bounds, ReceiveFails PROVE Bounds'
<1>1. /\ net = "receive" /\ call.stack = stack /\ Network /\ net' = "interrupt"
      /\ UNCHANGED <<sent, opened, registered, call, queue, ext>>
      /\ faults' \subseteq faults \cup {"raced"}
      /\ ip' = [ip EXCEPT !.response = "RecvFailed"]
      /\ conn' = [c \in Connection |->
                    IF c = ip.socket THEN [conn[c] EXCEPT !.peer = "gone", !.wire = 0] ELSE conn[c]]
  BY DEF ReceiveFails, InLayer, Network, RaceIf
<1>2. sent \in 0 .. MaxUnits /\ 0 \in 0 .. MaxUnits /\ 0 <= sent /\ ConnTypes
  BY BeforeNetwork, Constants DEF ConnTypes, Bounds, Types, EnvironmentTypes
<1>3. ConnTypes'
  <2>1. ASSUME NEW c \in Connection PROVE conn'[c] \in Link /\ conn'[c].wire <= sent
    <3>1. CASE c = ip.socket
      BY <1>1, <1>2, <3>1 DEF ConnTypes, Link
    <3>2. CASE c # ip.socket
      BY <1>1, <1>2, <3>2 DEF ConnTypes
    <3> QED BY <3>1, <3>2
  <2> QED BY <1>1, <2>1 DEF ConnTypes
<1>4. ip' \in Layer
  BY <1>1, BeforeNetwork DEF Layer, Response
<1>5. ReadFits' /\ CountsAgree'
  BY <1>1 DEF Bounds, ReadFits, CountsAgree, Network
<1> QED BY <1>1, <1>3, <1>4, <1>5, BeforeNetwork, NetworkBounds DEF RegisteredOK, Places

LEMMA InterruptBounds ==
  ASSUME Bounds, InterruptCommFB \/ AddInterrupt PROVE Bounds'
<1>1. /\ net \in {"interrupt", "count"} /\ call.stack = stack /\ Network
      /\ UNCHANGED <<conn, sent, opened, registered, ip, ext>>
      /\ faults' \subseteq faults \cup {"lost", "raced"}
  BY DEF InterruptCommFB, AddInterrupt, InLayer, Network, RaceIf
<1>2. ReadFits' /\ UNCHANGED <<ecet, work>>
  BY <1>1 DEF InterruptCommFB, AddInterrupt, ReadFits, Network
<1>3. /\ net' \in Places /\ call' \in Call /\ call'.stack = call.stack /\ queue' \in Queue
      /\ CountsAgree'
  <2>1. CASE InterruptCommFB /\ queue.count < QueueSize
    <3>1. /\ queue' = [queue EXCEPT !.slot = [queue.slot EXCEPT ![queue.count + 1] = call.stack]]
          /\ call' = [call EXCEPT !.count = queue.count]
          /\ net' = "count"
      BY <2>1 DEF InterruptCommFB
    <3>2. queue.slot \in [1 .. QueueSize -> 0 .. MaxOpened] /\ call.stack \in 0 .. MaxOpened
      BY BeforeNetwork DEF Queue, Call
    <3>3. [queue.slot EXCEPT ![queue.count + 1] = call.stack] \in [1 .. QueueSize -> 0 .. MaxOpened]
      BY <3>2
    <3>4. queue' \in Queue /\ queue'.count = queue.count
      BY <3>1, <3>3, BeforeNetwork DEF Queue
    <3>5. call' \in Call /\ call'.stack = call.stack /\ call'.count = queue.count
      BY <3>1, BeforeNetwork DEF Call
    <3>6. CountsAgree'
      BY <1>2, <2>1, <3>1, <3>4, <3>5, BeforeNetwork, Constants DEF Bounds, CountsAgree
    <3> QED BY <3>1, <3>4, <3>5, <3>6 DEF Places
  <2>2. CASE InterruptCommFB /\ ~(queue.count < QueueSize)
    <3>1. net' = "return" /\ UNCHANGED <<queue, call>>
      BY <2>2 DEF InterruptCommFB
    <3> QED BY <1>2, <3>1, BeforeNetwork DEF Places, Bounds, CountsAgree
  <2>3. CASE AddInterrupt
    <3>1. net = "count" /\ net' = "return" /\ call' = [call EXCEPT !.count = 0]
      BY <2>3 DEF AddInterrupt
    <3>2. PICK old \in {call.count, queue.count} : queue' = [queue EXCEPT !.count = old + 1]
      BY <2>3 DEF AddInterrupt
    <3>3. old + 1 \in 0 .. QueueSize /\ queue.count <= old + 1 /\ old + 1 \in Nat
      BY <3>1, <3>2, BeforeNetwork, Constants DEF Bounds, CountsAgree
    <3>4. queue' \in Queue /\ queue'.count = old + 1
      BY <3>2, <3>3, BeforeNetwork DEF Queue
    <3>5. call' \in Call /\ call'.stack = call.stack
      BY <3>1, BeforeNetwork DEF Call
    <3>6. work.copy \in Nat /\ work.count \in Nat
      BY DEF Bounds, Types, ThreadTypes, Work
    <3>7. CountsAgree'
      BY <1>2, <3>1, <3>3, <3>4, <3>6, BeforeNetwork DEF Bounds, CountsAgree
    <3> QED BY <3>1, <3>4, <3>5, <3>7 DEF Places
  <2> QED BY <2>1, <2>2, <2>3
<1> QED BY <1>1, <1>2, <1>3, BeforeNetwork, NetworkBounds DEF ConnTypes, RegisteredOK

LEMMA ReturnBounds ==
  ASSUME Bounds, StartNewEventChain \/ TestSocket PROVE Bounds'
<1>1. /\ net \in {"return", "wait"} /\ call.stack = stack /\ Network
      /\ UNCHANGED <<conn, sent, opened, registered, ip, queue>>
      /\ faults' \subseteq faults \cup {"lost"}
  BY DEF StartNewEventChain, TestSocket, InLayer, Network
<1>2. ext' \in 0 .. ExternalLimit
  BY BeforeNetwork, Constants DEF StartNewEventChain, TestSocket
<1>3. NoCall \in Call
  BY Constants DEF NoCall, Call, Socket
<1>4. \/ net' = "select" /\ call' = NoCall
      \/ net' \in {"return", "receive"} /\ UNCHANGED call
  BY DEF StartNewEventChain, TestSocket
<1>5. net' \in Places /\ call' \in Call /\ net' \notin {"received", "count"}
  BY <1>3, <1>4, BeforeNetwork DEF Places
<1>6. ReadFits' /\ CountsAgree'
  BY <1>1, <1>5 DEF Bounds, ReadFits, CountsAgree, Network
<1> QED
  BY <1>1, <1>2, <1>4, <1>5, <1>6, BeforeNetwork, NetworkBounds DEF ConnTypes, RegisteredOK

LEMMA NetworkThreadBounds ==
  ASSUME Bounds, NetworkThread PROVE Bounds'
BY SelectBounds, EnterRecvDataBounds, AcceptConnectionBounds, RefuseBounds, ReceiveDataBounds,
   AddReceivedBounds, ClosedByPeerBounds, ReceiveFailsBounds, InterruptBounds, ReturnBounds,
   UndefinedBounds
   DEF NetworkThread, NetworkUsesDeletedLayer

LEMMA StutterBounds ==
  ASSUME Bounds, UNCHANGED vars PROVE Bounds'
BY DEF vars, Bounds, Types, EnvironmentTypes, LayerTypes, ThreadTypes, StacksOpened, ReadFits,
       CountsAgree

LEMMA NextBounds ==
  ASSUME Bounds, [Next]_vars PROVE Bounds'
BY EventChainThreadBounds, NetworkThreadBounds, PeersBounds, ApplicationBounds, ManagementBounds,
   StutterBounds
   DEF Next

-----------------------------------------------------------------------------
(* A server's connections. *)
Sound == {"raced", "undefined"} \cap faults = {}

(* The layer's socket is the only open connection; a layer that listens, or *)
(* is about to accept a connection, has none.                              *)
OneConnection ==
  Sound => /\ \A c \in Connection : conn[c].ours = "open" => c = ip.socket
           /\ ip.state = "Listening" => ip.socket = None
           /\ net = "accept" /\ call.stack = stack => ip.socket = None

LEMMA FaultsGrow ==
  ASSUME Next PROVE faults \subseteq faults' /\ (Sound' => Sound)
<1>1. faults \subseteq faults'
  <2>1. CASE EventChainThread
    BY <2>1 DEF EventChainThread, CloseFailedSocket, ListenAgain, BeginExternalEvent, ProcessInterrupt,
       ResetBuffer, LoadCount, StoreCount, ShiftInterrupts, Respond, EventChainUsesDeletedLayer,
       Undefined, RaceIf
  <2>2. CASE NetworkThread
    BY <2>2 DEF NetworkThread, Select, EnterRecvData, AcceptConnection,
       HandleConnectionAttemptInConnected, ReceiveData, AddReceived, ConnectionClosedByPeer,
       ReceiveFails, TestSocket, InterruptCommFB, AddInterrupt, StartNewEventChain,
       NetworkUsesDeletedLayer, Undefined, RaceIf
  <2>3. CASE Peers \/ Application \/ Management
    BY <2>3 DEF Peers, PeerConnects, PeerSends, PeerCloses, Peer, Application, OpenConnection,
       InitCloses, SendFails, Executes, Management, CommandStop, CommandKill, CommandReset,
       CommandStart, Command
  <2> QED BY <2>1, <2>2, <2>3 DEF Next
<1> QED BY <1>1 DEF Sound

LEMMA InitConnection == Init => OneConnection
BY DEF Init, OneConnection, NewLayer

(* closing the stack *)
LEMMA CloseConnectionOne ==
  ASSUME Bounds, OneConnection, CloseConnection, Sound, UNCHANGED <<net, call, faults>>
  PROVE  OneConnection'
<1>1. ip' = NewLayer
  BY DEF CloseConnection
<1>2. ASSUME NEW c \in Connection, conn'[c].ours = "open"
      PROVE  FALSE
  <2>1. conn'[c] = IF c = ip.socket \/ (ip.listening /\ conn[c].ours = "backlog")
                   THEN Closed ELSE conn[c]
    BY DEF CloseConnection
  <2> QED BY <1>2, <2>1 DEF Closed, OneConnection
<1>3. ip'.socket = None
  BY <1>1, NewLayerType
<1> QED BY <1>2, <1>3 DEF OneConnection

LEMMA NextConnection ==
  ASSUME Bounds, OneConnection, Next PROVE OneConnection'
<1> SUFFICES ASSUME Sound' PROVE OneConnection'
  BY DEF OneConnection
<1>0. Sound /\ OneConnection
  BY FaultsGrow
<1>l. /\ ip \in Layer /\ conn \in [Connection -> Link]
      /\ \A c \in Connection : conn[c] \in Link
      /\ net # "select" /\ call.stack = stack => stack # 0
      /\ call \in Call /\ stack \in 0 .. opened /\ opened \in Nat
      /\ stack = 0 => ip.socket = None
      /\ net # "select" => call.stack \in 1 .. opened
  BY BeforeNetwork, Constants DEF ConnTypes, Bounds, StacksOpened
<1>1. CASE Peers
  <2>1. UNCHANGED <<ip, net, call, stack>>
    BY <1>1 DEF Peers, PeerConnects, PeerSends, PeerCloses, Peer
  <2>2. \A c \in Connection : conn'[c].ours = "open" => conn[c].ours = "open"
    <3>1. PICK d \in Connection : PeerConnects(d) \/ PeerSends(d) \/ PeerCloses(d)
      BY <1>1 DEF Peers
    <3>2. conn[d] \in Link
      BY <1>l
    <3>3. PICK l : conn' = [conn EXCEPT ![d] = l] /\ (l.ours = "open" => conn[d].ours = "open")
      <4>1. CASE PeerConnects(d)
        <5>1. [conn[d] EXCEPT !.peer = "up", !.ours = "backlog"].ours = "backlog"
          BY <3>2 DEF Link
        <5>2. conn' = [conn EXCEPT ![d] = [conn[d] EXCEPT !.peer = "up", !.ours = "backlog"]]
          BY <4>1 DEF PeerConnects
        <5> QED BY <5>1, <5>2
      <4>2. CASE PeerSends(d)
        <5>1. [conn[d] EXCEPT !.wire = conn[d].wire + 1].ours = conn[d].ours
          BY <3>2 DEF Link
        <5>2. conn' = [conn EXCEPT ![d] = [conn[d] EXCEPT !.wire = conn[d].wire + 1]]
          BY <4>2 DEF PeerSends
        <5> QED BY <5>1, <5>2
      <4>3. CASE PeerCloses(d)
        <5>1. PICK end : conn' = [conn EXCEPT ![d] = [conn[d] EXCEPT !.peer = end]]
          BY <4>3 DEF PeerCloses
        <5>2. [conn[d] EXCEPT !.peer = end].ours = conn[d].ours
          BY <3>2 DEF Link
        <5> QED BY <5>1, <5>2
      <4> QED BY <3>1, <4>1, <4>2, <4>3
    <3> QED BY <1>l, <3>3
  <2> QED BY <1>0, <2>1, <2>2 DEF OneConnection
<1>2. CASE OpenConnection
  <2>1. stack = 0 /\ stack' = opened + 1 /\ UNCHANGED <<net, call>>
    BY <1>2 DEF OpenConnection, Executes
  <2>2. ~(net = "accept" /\ call.stack = stack')
    BY <1>l, <2>1
  <2>3. \A c \in Connection : conn[c].ours # "open"
    BY <1>0, <1>l, <2>1, Constants DEF OneConnection
  <2>4. CASE ip' = [NewLayer EXCEPT !.listening = TRUE, !.state = "Listening"] /\ UNCHANGED conn
    <3>1. ip'.socket = None
      BY <2>4, NewLayerType DEF Layer
    <3> QED BY <2>1, <2>2, <2>3, <2>4, <3>1 DEF OneConnection
  <2>5. ASSUME NEW c \in Connection,
               conn' = [conn EXCEPT ![c] = [conn[c] EXCEPT !.peer = "up", !.ours = "open"]],
               ip' = [NewLayer EXCEPT !.socket = c, !.state = "Connected"]
        PROVE  OneConnection'
    <3>1. ip'.socket = c /\ ip'.state = "Connected"
      BY <2>5, NewLayerType DEF Layer
    <3>2. \A d \in Connection : conn'[d].ours = "open" => d = c
      BY <1>l, <2>3, <2>5
    <3> QED BY <2>1, <2>2, <3>1, <3>2 DEF OneConnection
  <2> QED BY <1>2, <2>4, <2>5 DEF OpenConnection
<1>3. CASE InitCloses \/ SendFails \/ Management \/ Respond
  <2>1. UNCHANGED <<net, call, faults>>
    BY <1>3 DEF InitCloses, SendFails, Executes, Respond, Management, CommandStop, CommandKill,
       CommandReset, CommandStart, Command
  <2>2. CloseConnection \/ StaysOpen
    BY <1>3 DEF InitCloses, SendFails, Respond, Management, CommandStop, CommandKill, CommandReset,
       CommandStart
  <2>3. CASE StaysOpen
    BY <1>0, <2>1, <2>3 DEF StaysOpen, OneConnection, Sound
  <2> QED BY <1>0, <2>1, <2>2, <2>3, CloseConnectionOne
<1>4. CASE CloseFailedSocket
  <2>1. /\ UNCHANGED <<net, call, stack>> /\ ip' = [ip EXCEPT !.socket = None]
        /\ conn' = [d \in Connection |-> IF d = ip.socket THEN Closed ELSE conn[d]]
    BY <1>4 DEF CloseFailedSocket, FailedSend, CloseSocket
  <2>2. ip'.socket = None
    BY <1>l, <2>1 DEF Layer
  <2>3. \A d \in Connection : conn'[d].ours # "open"
    BY <1>0, <2>1 DEF OneConnection, Closed
  <2> QED BY <2>2, <2>3 DEF OneConnection
<1>5. CASE ListenAgain
  <2>1. /\ UNCHANGED <<net, call, stack, conn>> /\ ip' = [ip EXCEPT !.state = "Listening"]
        /\ RaceIf(ip.socket # None)
    BY <1>5 DEF ListenAgain, FailedSend
  <2>2. ip.socket = None
    BY <2>1 DEF RaceIf, Sound
  <2>3. ip'.socket = None
    BY <1>l, <2>1, <2>2 DEF Layer
  <2> QED BY <1>0, <2>1, <2>2, <2>3 DEF OneConnection
<1>6. CASE BeginExternalEvent \/ ProcessInterrupt \/ ResetBuffer \/ LoadCount \/ StoreCount \/ ShiftInterrupts
  <2>1. UNCHANGED <<net, call, stack, conn>>
    BY <1>6 DEF BeginExternalEvent, ProcessInterrupt, ResetBuffer, LoadCount, StoreCount,
       ShiftInterrupts, ExternalEvent
  <2>2. ip'.socket = ip.socket /\ ip'.state = ip.state
    BY <1>6, <1>l DEF BeginExternalEvent, ProcessInterrupt, ResetBuffer, LoadCount, StoreCount,
       ShiftInterrupts, Layer
  <2> QED BY <1>0, <2>1, <2>2 DEF OneConnection
<1>7. CASE Select \/ ReceiveData \/ AddReceived \/ ReceiveFails \/ TestSocket \/ InterruptCommFB
           \/ AddInterrupt \/ StartNewEventChain
  <2>1. net' # "accept"
    BY <1>7 DEF Select, ReceiveData, AddReceived, ReceiveFails, TestSocket, InterruptCommFB,
       AddInterrupt, StartNewEventChain
  <2>2. ip'.socket = ip.socket /\ ip'.state = ip.state
    BY <1>7, <1>l DEF Select, ReceiveData, AddReceived, ReceiveFails, TestSocket,
       InterruptCommFB, AddInterrupt, StartNewEventChain, Layer
  <2>3. \A c \in Connection : conn'[c].ours = conn[c].ours
    <3>1. CASE ReceiveData
      <4>1. PICK n \in 1 .. conn[ip.socket].wire :
              conn' = [conn EXCEPT ![ip.socket] = [conn[ip.socket] EXCEPT !.wire = conn[ip.socket].wire - n]]
        BY <3>1 DEF ReceiveData
      <4> QED BY <1>l, <4>1 DEF Link
    <3>2. CASE ReceiveFails
      <4>1. conn' = [c \in Connection |->
                IF c = ip.socket THEN [conn[c] EXCEPT !.peer = "gone", !.wire = 0] ELSE conn[c]]
        BY <3>2 DEF ReceiveFails
      <4> QED BY <1>l, <4>1 DEF Link
    <3>3. CASE ~ReceiveData /\ ~ReceiveFails
      BY <1>7, <3>3 DEF Select, AddReceived, TestSocket, InterruptCommFB, AddInterrupt,
         StartNewEventChain
    <3> QED BY <3>1, <3>2, <3>3
  <2> QED BY <1>0, <2>1, <2>2, <2>3 DEF OneConnection
<1>8. CASE EnterRecvData
  <2>1. /\ UNCHANGED <<conn, call, stack>> /\ ip' = [ip EXCEPT !.response = "Nothing"]
        /\ net' = "accept" => ip.state = "Listening"
    BY <1>8 DEF EnterRecvData, InLayer, Network
  <2>2. ip'.socket = ip.socket /\ ip'.state = ip.state
    BY <1>l, <2>1 DEF Layer
  <2> QED BY <1>0, <2>1, <2>2 DEF OneConnection
<1>9. CASE AcceptConnection
  <2>1. ip.socket = None /\ net' = "return"
    BY <1>0, <1>9 DEF AcceptConnection, InLayer, OneConnection
  <2>2. PICK c \in Connection :
          /\ conn' = [conn EXCEPT ![c] = [conn[c] EXCEPT !.ours = "open"]]
          /\ ip' = [ip EXCEPT !.socket = c, !.state = "Connected"]
    BY <1>9 DEF AcceptConnection
  <2>3. ip'.socket = c /\ ip'.state = "Connected"
    BY <1>l, <2>2 DEF Layer
  <2>4. \A d \in Connection : conn'[d].ours = "open" => d = c
    BY <1>0, <1>l, <2>1, <2>2, Constants DEF OneConnection
  <2> QED BY <2>1, <2>3, <2>4 DEF OneConnection
<1>10. CASE HandleConnectionAttemptInConnected
  <2>1. UNCHANGED ip /\ net' = "return" /\ \E c \in Connection : conn' = [conn EXCEPT ![c] = Closed]
    BY <1>10 DEF HandleConnectionAttemptInConnected
  <2> QED BY <1>0, <1>l, <2>1 DEF OneConnection, Closed
<1>11. CASE ConnectionClosedByPeer
  <2>1. /\ net' = "interrupt"
        /\ conn' = [d \in Connection |-> IF d = ip.socket THEN Closed ELSE conn[d]]
        /\ ip' = [ip EXCEPT !.socket = None, !.response = "Terminated",
                            !.state = IF service = "server" THEN "Listening" ELSE ip.state]
    BY <1>11 DEF ConnectionClosedByPeer, CloseSocket
  <2>2. ip'.socket = None
    BY <1>l, <2>1 DEF Layer
  <2>3. \A d \in Connection : conn'[d].ours # "open"
    BY <1>0, <2>1 DEF OneConnection, Closed
  <2> QED BY <2>1, <2>2, <2>3 DEF OneConnection
<1>12. CASE Undefined
  BY <1>12 DEF Undefined, Sound
<1> QED
  BY <1>1, <1>2, <1>3, <1>4, <1>5, <1>6, <1>7, <1>8, <1>9, <1>10, <1>11, <1>12
     DEF Next, EventChainThread, NetworkThread, Application, EventChainUsesDeletedLayer,
         NetworkUsesDeletedLayer

-----------------------------------------------------------------------------
(* The data received. *)
Kept == CASE ecet = "handed" -> 0
          [] net = "received" /\ call.stack = stack -> ip.fill + call.units
          [] OTHER -> ip.fill

(* h followed by the first k units of b are the units 1 to n.              *)
Whole(h, b, k, n) ==
  /\ Len(h) + k = n
  /\ \A i \in 1 .. Len(h) : h[i] = i
  /\ \A i \in 1 .. k : b[i] = Len(h) + i

(* Every unit is handed over or buffered, and the network thread has loaded *)
(* the fill that still holds.                                              *)
InOrder ==
  "raced" \in faults \/
    /\ Whole(ip.handed, ip.buffer, Kept, ip.received)
    /\ net = "received" /\ call.stack = stack => call.start = ip.fill

LEMMA WholeIsSequence ==
  ASSUME NEW h \in Seq(Nat), NEW b \in [1 .. Size -> Nat], NEW k \in 0 .. Size, NEW n \in Nat,
         Whole(h, b, k, n)
  PROVE  h \o SubSeq(b, 1, k) = [i \in 1 .. n |-> i]
<1> DEFINE t == SubSeq(b, 1, k)
           m == Len(h)
           all == [i \in 1 .. n |-> i]
<1>1. /\ t \in Seq(Nat) /\ Len(t) = k /\ \A i \in 1 .. k : t[i] = b[i] /\ h \o t \in Seq(Nat)
  BY HandedType
<1>2. /\ m \in Nat /\ k \in Nat /\ m + k = n
      /\ \A i \in 1 .. m : h[i] = i
      /\ \A i \in 1 .. k : b[i] = m + i
  BY Constants, LenProperties DEF Whole
<1> HIDE DEF t
<1>3. /\ Len(h \o t) = m + k
      /\ \A i \in 1 .. m + k : (h \o t)[i] = IF i <= m THEN h[i] ELSE t[i - m]
  BY <1>1, ConcatProperties
<1> HIDE DEF m
<1>4. ASSUME NEW i \in 1 .. n PROVE (h \o t)[i] = i
  <2>1. CASE i <= m
    <3>1. i \in 1 .. m /\ i \in 1 .. m + k
      BY <1>2, <2>1
    <3> QED BY <1>2, <1>3, <2>1, <3>1
  <2>2. CASE i > m
    <3>1. i - m \in 1 .. k /\ i \in 1 .. m + k /\ ~(i <= m) /\ m + (i - m) = i
      BY <1>2, <2>2
    <3>2. (h \o t)[i] = t[i - m]
      BY <1>3, <3>1
    <3>3. t[i - m] = m + (i - m)
      BY <1>1, <1>2, <3>1
    <3> QED BY <3>1, <3>2, <3>3, Zenon
  <2>3. i <= m \/ i > m
    BY <1>2
  <2> QED BY <2>1, <2>2, <2>3, Zenon
<1>5. all \in Seq(Nat) /\ Len(all) = n /\ \A i \in 1 .. n : all[i] = i
  OBVIOUS
<1>6. Len(h \o t) = n
  BY <1>2, <1>3
<1> HIDE DEF all
<1>7. \A i \in 1 .. n : (h \o t)[i] = all[i]
  BY <1>4, <1>5, Zenon
<1>8. h \o t = all
  <2> DEFINE u == h \o t
  <2>1. u \in Seq(Nat)
    BY <1>1
  <2>2. Len(u) = n
    BY <1>6
  <2>3. \A i \in 1 .. n : u[i] = all[i]
    BY <1>7
  <2> HIDE DEF u
  <2>4. u = all
    BY <1>5, <2>1, <2>2, <2>3, SeqEqual, Zenon
  <2> QED BY <2>4 DEF u
<1> QED BY <1>8 DEF t, all

(* Handing over the buffer. *)
LEMMA WholeHanded ==
  ASSUME NEW h \in Seq(Nat), NEW b \in [1 .. Size -> Nat], NEW k \in 0 .. Size, NEW n \in Nat,
         Whole(h, b, k, n)
  PROVE  Whole(h \o SubSeq(b, 1, k), b, 0, n)
<1> DEFINE t == SubSeq(b, 1, k)
<1>1. t \in Seq(Nat) /\ h \o t \in Seq(Nat) /\ Len(t) = k
  BY HandedType
<1>2. h \o t = [i \in 1 .. n |-> i]
  BY WholeIsSequence
<1> HIDE DEF t
<1>3. Len(h \o t) = n
  <2>1. Len(h \o t) = Len(h) + Len(t)
    BY <1>1, ConcatProperties
  <2>2. Len(h) + k = n
    BY DEF Whole
  <2> QED BY <1>1, <2>1, <2>2
<1>4. Whole(h \o t, b, 0, n)
  BY <1>2, <1>3 DEF Whole
<1> QED BY <1>4 DEF t

LEMMA InitInOrder == Init => InOrder
BY Constants DEF Init, InOrder, NewLayer, Kept, Whole

LEMMA EmptyWhole ==
  ASSUME ip'.fill = 0, ip'.received = 0, ip'.handed = <<>>,
         net' = "received" => call'.stack # stack'
  PROVE  InOrder'
<1>1. Kept' = 0
  BY DEF Kept
<1> QED BY <1>1 DEF InOrder, Whole

(* steps that leave the data and the buffer's place in the threads alone   *)
LEMMA SameData ==
  ASSUME InOrder, faults \subseteq faults',
         ip'.handed = ip.handed, ip'.buffer = ip.buffer, ip'.received = ip.received,
         ip'.fill = ip.fill, ecet = "handed" <=> ecet' = "handed",
         \/ UNCHANGED <<net, call, stack>>
         \/ net # "received" /\ net' # "received"
  PROVE  InOrder'
<1>1. Kept' = Kept
  BY DEF Kept
<1>2. (net = "received" /\ call.stack = stack => call.start = ip.fill)
        => (net' = "received" /\ call'.stack = stack' => call'.start = ip'.fill)
  OBVIOUS
<1> QED BY <1>1, <1>2 DEF InOrder

LEMMA CloseConnectionOrder ==
  ASSUME Bounds, CloseConnection, UNCHANGED <<net, call>>
  PROVE  InOrder'
<1>1. ip' = NewLayer /\ stack' = 0
  BY DEF CloseConnection
<1>2. ip'.fill = 0 /\ ip'.received = 0 /\ ip'.handed = <<>>
  BY <1>1 DEF NewLayer
<1>3. net' = "received" => call'.stack # stack'
  BY <1>1, Constants DEF Bounds, StacksOpened
<1> QED BY <1>2, <1>3, EmptyWhole

LEMMA OpenConnectionOrder ==
  ASSUME Bounds, OpenConnection
  PROVE  InOrder'
<1>1. UNCHANGED <<net, call>> /\ stack' = opened + 1
  BY DEF OpenConnection, Executes
<1>2. ip'.fill = 0 /\ ip'.received = 0 /\ ip'.handed = <<>>
  <2>1. CASE ip' = [NewLayer EXCEPT !.listening = TRUE, !.state = "Listening"]
    BY <2>1 DEF NewLayer
  <2>2. ASSUME NEW c \in Connection, ip' = [NewLayer EXCEPT !.socket = c, !.state = "Connected"]
        PROVE  <1>2!:
    BY <2>2 DEF NewLayer
  <2> QED BY <2>1, <2>2 DEF OpenConnection
<1>3. net' = "received" => call'.stack # stack'
  <2>1. opened \in Nat /\ (net = "received" => call.stack \in 1 .. opened)
    BY Constants DEF Bounds, StacksOpened
  <2> QED BY <1>1, <2>1
<1> QED BY <1>2, <1>3, EmptyWhole

LEMMA ProcessInterruptOrder ==
  ASSUME Bounds, InOrder, ProcessInterrupt, "raced" \notin faults'
  PROVE  InOrder'
<1>1. ecet = "interrupt" /\ UNCHANGED <<net, call, stack>> /\ ip \in Layer
  BY DEF ProcessInterrupt, ExternalEvent, Bounds, Types, LayerTypes
<1>2. CASE HandsOver
  <2>1. /\ ip' = [ip EXCEPT !.handed = ip.handed \o SubSeq(ip.buffer, 1, ip.fill)]
        /\ ecet' = "handed" /\ net # "received" /\ "raced" \notin faults
    BY <1>2 DEF ProcessInterrupt, RaceIf
  <2>2. /\ ip'.handed = ip.handed \o SubSeq(ip.buffer, 1, ip.fill)
        /\ ip'.buffer = ip.buffer /\ ip'.received = ip.received
    BY <1>1, <2>1 DEF Layer
  <2>3. Kept = ip.fill /\ Kept' = 0
    BY <1>1, <2>1 DEF Kept
  <2>4. Whole(ip.handed, ip.buffer, ip.fill, ip.received)
    BY <2>1, <2>3 DEF InOrder
  <2>5. /\ ip.handed \in Seq(Nat) /\ ip.buffer \in [1 .. Size -> Nat] /\ ip.fill \in 0 .. Size
        /\ ip.received \in Nat
    BY <1>1 DEF Layer
  <2>6. Whole(ip'.handed, ip'.buffer, Kept', ip'.received)
    BY <2>2, <2>3, <2>4, <2>5, WholeHanded
  <2> QED BY <1>1, <2>1, <2>6 DEF InOrder
<1>3. CASE ~HandsOver
  <2>1. UNCHANGED <<ip, ecet, faults>>
    BY <1>3 DEF ProcessInterrupt
  <2> QED BY <1>1, <2>1, SameData
<1> QED BY <1>2, <1>3

LEMMA ResetBufferOrder ==
  ASSUME Bounds, InOrder, ResetBuffer, "raced" \notin faults'
  PROVE  InOrder'
<1>1. /\ ecet = "handed" /\ ecet' = "interrupt" /\ UNCHANGED <<net, call, stack>> /\ ip \in Layer
      /\ net # "received" /\ "raced" \notin faults
  BY DEF ResetBuffer, ExternalEvent, RaceIf, Bounds, Types, LayerTypes
<1>2. PICK answer : ip' = [ip EXCEPT !.response = answer, !.fill = 0]
  BY DEF ResetBuffer
<1>3. /\ ip'.handed = ip.handed /\ ip'.buffer = ip.buffer /\ ip'.received = ip.received
      /\ ip'.fill = 0
  BY <1>1, <1>2 DEF Layer
<1>4. Kept = 0 /\ Kept' = 0
  BY <1>1, <1>3 DEF Kept
<1>5. Whole(ip'.handed, ip'.buffer, Kept', ip'.received)
  BY <1>1, <1>3, <1>4 DEF InOrder
<1> QED BY <1>1, <1>5 DEF InOrder

LEMMA ReceiveDataOrder ==
  ASSUME Bounds, InOrder, ReceiveData, "raced" \notin faults'
  PROVE  InOrder'
<1>1. /\ net = "receive" /\ net' = "received" /\ UNCHANGED <<ecet, stack>> /\ call.stack = stack
      /\ ecet # "handed" /\ "raced" \notin faults /\ ip \in Layer /\ call \in Call
  BY BeforeNetwork DEF ReceiveData, Reads, InLayer, Network, RaceIf
<1>2. PICK n \in 1 .. conn[ip.socket].wire :
        /\ ip.fill + n <= Size
        /\ ip' = [ip EXCEPT !.received = ip.received + n,
                            !.buffer = [i \in 1 .. Size |->
                               IF i \in ip.fill + 1 .. ip.fill + n
                               THEN ip.received + i - ip.fill ELSE ip.buffer[i]]]
        /\ call' = [call EXCEPT !.start = ip.fill, !.units = n]
  BY DEF ReceiveData
<1> DEFINE h == ip.handed
           m == Len(h)
           k == ip.fill
           b == ip'.buffer
           r == ip.received
<1>3. /\ ip'.handed = h /\ ip'.received = r + n /\ ip'.fill = k
      /\ b = [i \in 1 .. Size |-> IF i \in k + 1 .. k + n THEN r + i - k ELSE ip.buffer[i]]
      /\ call'.start = k /\ call'.units = n /\ call'.stack = call.stack
  BY <1>1, <1>2 DEF Layer, Call
<1>4. Kept = k /\ Kept' = k + n
  BY <1>1, <1>3 DEF Kept
<1>5. /\ m \in Nat /\ k \in Nat /\ r \in Nat /\ n \in Nat /\ k + n <= Size
      /\ h \in Seq(Nat)
  BY <1>1, <1>2, BeforeNetwork, LenProperties DEF Layer
<1>6. m + k = r /\ (\A i \in 1 .. m : h[i] = i) /\ \A i \in 1 .. k : ip.buffer[i] = m + i
  BY <1>1, <1>4 DEF InOrder, Whole
<1>7. ASSUME NEW i \in 1 .. k + n PROVE b[i] = m + i
  <2> HIDE DEF m, k, r, b
  <2>1. i \in 1 .. Size
    BY <1>5, Constants
  <2>2. CASE i \in 1 .. k
    <3>1. i \notin k + 1 .. k + n
      BY <1>5, <2>2
    <3> QED BY <1>3, <1>6, <2>1, <2>2, <3>1
  <2>3. CASE i \in k + 1 .. k + n
    <3>1. r + i - k = m + i
      BY <1>5, <1>6
    <3> QED BY <1>3, <2>1, <2>3, <3>1
  <2>4. i \in 1 .. k \/ i \in k + 1 .. k + n
    BY <1>5
  <2> QED BY <2>2, <2>3, <2>4
<1>8. m + (k + n) = r + n
  <2> HIDE DEF m, k, r
  <2> QED BY <1>5, <1>6
<1>9. Whole(h, b, k + n, r + n)
  BY <1>6, <1>7, <1>8 DEF Whole
<1>10. Whole(ip'.handed, ip'.buffer, Kept', ip'.received)
  BY <1>3, <1>4, <1>9
<1> QED BY <1>3, <1>10 DEF InOrder

LEMMA AddReceivedOrder ==
  ASSUME Bounds, InOrder, AddReceived, "raced" \notin faults'
  PROVE  InOrder'
<1>1. /\ net = "received" /\ net' = "interrupt" /\ UNCHANGED <<ecet, stack>> /\ call.stack = stack
      /\ ecet # "handed" /\ "raced" \notin faults /\ ip \in Layer
  BY BeforeNetwork DEF AddReceived, InLayer, Network, RaceIf
<1>2. Whole(ip.handed, ip.buffer, Kept, ip.received) /\ call.start = ip.fill
  BY <1>1 DEF InOrder
<1>3. ip' = [ip EXCEPT !.fill = ip.fill + call.units, !.response = "Ok"]
  BY <1>2 DEF AddReceived
<1>4. /\ ip'.handed = ip.handed /\ ip'.buffer = ip.buffer /\ ip'.received = ip.received
      /\ ip'.fill = ip.fill + call.units
  BY <1>1, <1>3 DEF Layer
<1>5. Kept' = Kept
  BY <1>1, <1>4 DEF Kept
<1> QED BY <1>1, <1>2, <1>4, <1>5 DEF InOrder

LEMMA NextInOrder ==
  ASSUME Bounds, InOrder, Next PROVE InOrder'
<1> SUFFICES ASSUME "raced" \notin faults' PROVE InOrder'
  BY DEF InOrder
<1>f. faults \subseteq faults' /\ ip \in Layer
  BY FaultsGrow, BeforeNetwork
<1>1. CASE Peers \/ CloseFailedSocket \/ ListenAgain \/ BeginExternalEvent \/ LoadCount \/ StoreCount
           \/ ShiftInterrupts \/ Undefined
  <2>1. UNCHANGED <<net, call, stack>>
    BY <1>1 DEF Peers, PeerConnects, PeerSends, PeerCloses, Peer, CloseFailedSocket, ListenAgain,
       FailedSend, BeginExternalEvent, LoadCount, StoreCount, ShiftInterrupts, ExternalEvent, Undefined
  <2>2. ecet = "handed" <=> ecet' = "handed"
    BY <1>1 DEF Peers, PeerConnects, PeerSends, PeerCloses, Peer, CloseFailedSocket, ListenAgain,
       BeginExternalEvent, LoadCount, StoreCount, ShiftInterrupts, Undefined
  <2>3. \/ UNCHANGED ip
        \/ ip' = [ip EXCEPT !.socket = None]
        \/ ip' = [ip EXCEPT !.state = "Listening"]
    BY <1>1 DEF Peers, PeerConnects, PeerSends, PeerCloses, Peer, CloseFailedSocket, ListenAgain,
       BeginExternalEvent, LoadCount, StoreCount, ShiftInterrupts, Undefined
  <2>4. /\ ip'.handed = ip.handed /\ ip'.buffer = ip.buffer /\ ip'.received = ip.received
        /\ ip'.fill = ip.fill
    BY <1>f, <2>3 DEF Layer
  <2> QED BY <1>f, <2>1, <2>2, <2>4, SameData
<1>2. CASE OpenConnection
  BY <1>2, OpenConnectionOrder
<1>3. CASE InitCloses \/ SendFails \/ Management \/ Respond
  <2>1. UNCHANGED <<net, call>> /\ (CloseConnection \/ StaysOpen)
    BY <1>3 DEF InitCloses, SendFails, Executes, Respond, Management, CommandStop, CommandKill,
       CommandReset, CommandStart, Command
  <2>2. ecet = "handed" <=> ecet' = "handed"
    BY <1>3 DEF InitCloses, SendFails, Executes, Respond, Management, CommandStop, CommandKill,
       CommandReset, CommandStart, Command
  <2>3. CASE StaysOpen
    BY <1>f, <2>1, <2>2, <2>3, SameData DEF StaysOpen
  <2> QED BY <2>1, <2>3, CloseConnectionOrder
<1>4. CASE Select \/ EnterRecvData \/ AcceptConnection \/ HandleConnectionAttemptInConnected
           \/ ConnectionClosedByPeer \/ ReceiveFails \/ TestSocket \/ InterruptCommFB
           \/ AddInterrupt \/ StartNewEventChain
  <2>1. net # "received" /\ net' # "received" /\ UNCHANGED ecet
    BY <1>4 DEF Select, EnterRecvData, AcceptConnection, HandleConnectionAttemptInConnected,
       ConnectionClosedByPeer, ReceiveFails, TestSocket, InterruptCommFB, AddInterrupt,
       StartNewEventChain, Reads, InLayer, Network
  <2>2. /\ ip'.handed = ip.handed /\ ip'.buffer = ip.buffer /\ ip'.received = ip.received
        /\ ip'.fill = ip.fill
    BY <1>f, <1>4 DEF Select, EnterRecvData, AcceptConnection, HandleConnectionAttemptInConnected,
       ConnectionClosedByPeer, ReceiveFails, TestSocket, InterruptCommFB, AddInterrupt,
       StartNewEventChain, Layer
  <2> QED BY <1>f, <2>1, <2>2, SameData
<1> QED
  BY <1>1, <1>2, <1>3, <1>4, ProcessInterruptOrder, ResetBufferOrder, ReceiveDataOrder,
     AddReceivedOrder
     DEF Next, EventChainThread, NetworkThread, Application, EventChainUsesDeletedLayer,
         NetworkUsesDeletedLayer

-----------------------------------------------------------------------------
(* The report of received data. *)

(* In the layer the network thread has forgotten what was reported.        *)
NothingReported ==
  net \in {"accept", "refuse", "wait", "receive", "received"} /\ call.stack = stack
    => ip.response # "Ok" \/ ip.fill = 0

(* Reported data has an interrupt that the event chain thread has still to *)
(* process or will leave in the queue ...                                  *)
Queued ==
  net \in {"select", "call", "return"} =>
    /\ ecet \in {"idle", "failed", "closed", "shift", "respond"} => queue.count > 0
    /\ ecet = "interrupt" => work.next <= work.copy \/ queue.count > work.copy
    /\ ecet = "count" => work.count > work.copy

(* ... and an external event that comes or is at work on the interrupts.   *)
Announced ==
  net \in {"select", "call"} =>
    ext > 0 \/ ecet = "handed" \/ (ecet = "interrupt" /\ work.next <= work.copy)

Reported == faults = {} => NothingReported /\ (HandsOver => Queued /\ Announced)

LEMMA InitReported == Init => Reported
BY DEF Init, NewLayer, Reported, NothingReported, HandsOver

LEMMA NoData ==
  ASSUME ip'.response # "Ok" \/ ip'.fill = 0 PROVE Reported'
BY DEF Reported, NothingReported, HandsOver

(* closing or opening a stack empties the buffer *)
LEMMA CloseConnectionReported == ASSUME CloseConnection PROVE Reported'
<1>1. ip'.fill = 0
  BY DEF CloseConnection, NewLayer
<1> QED BY <1>1, NoData

LEMMA OpenConnectionReported == ASSUME OpenConnection PROVE Reported'
<1>1. ip'.fill = 0
  <2>1. CASE ip' = [NewLayer EXCEPT !.listening = TRUE, !.state = "Listening"]
    BY <2>1 DEF NewLayer
  <2>2. ASSUME NEW c \in Connection, ip' = [NewLayer EXCEPT !.socket = c, !.state = "Connected"]
        PROVE  ip'.fill = 0
    BY <2>2 DEF NewLayer
  <2> QED BY <2>1, <2>2 DEF OpenConnection
<1> QED BY <1>1, NoData

(* the event chain thread's steps before and after an external event       *)
LEMMA IdleReported ==
  ASSUME Bounds, Reported, faults' = {}, faults = {},
         Peers \/ SendFails \/ CloseFailedSocket \/ ListenAgain \/ Management
  PROVE  Reported'
<1>1. UNCHANGED <<net, call, queue, ext>> /\ ip \in Layer
  BY BeforeNetwork DEF Peers, PeerConnects, PeerSends, PeerCloses, Peer, SendFails, Executes,
     CloseFailedSocket, ListenAgain, FailedSend, Management, CommandStop, CommandKill, CommandReset,
     CommandStart, Command
<1>2. CASE CloseConnection
  BY <1>2, CloseConnectionReported
<1>3. CASE ListenAgain
  <2>1. ip' = [ip EXCEPT !.state = "Listening"] /\ UNCHANGED stack
    BY <1>3 DEF ListenAgain, FailedSend
  <2>2. ip'.state = "Listening" /\ ip'.response = ip.response /\ ip'.fill = ip.fill
    BY <1>1, <2>1 DEF Layer
  <2> QED BY <1>1, <2>1, <2>2 DEF Reported, NothingReported, HandsOver
<1>4. CASE ~CloseConnection /\ ~ListenAgain
  <2>1. UNCHANGED <<stack, work>> \/ (UNCHANGED stack /\ ecet' = "failed")
    BY <1>4 DEF Peers, PeerConnects, PeerSends, PeerCloses, Peer, SendFails, StaysOpen,
       CloseFailedSocket, FailedSend, Management, CommandStop, CommandKill, CommandReset,
       CommandStart, Command
  <2>2. \/ UNCHANGED ecet
        \/ ecet \in {"idle", "failed"} /\ ecet' \in {"failed", "closed"}
    BY <1>4 DEF Peers, PeerConnects, PeerSends, PeerCloses, Peer, SendFails, Executes,
       CloseFailedSocket, Management, CommandStop, CommandKill, CommandReset, CommandStart, Command
  <2>3. UNCHANGED ip \/ ip' = [ip EXCEPT !.socket = None]
    BY <1>4 DEF Peers, PeerConnects, PeerSends, PeerCloses, Peer, SendFails, StaysOpen,
       CloseFailedSocket, Management, CommandStop, CommandKill, CommandReset, CommandStart
  <2>4. ip'.response = ip.response /\ ip'.fill = ip.fill /\ ip'.state = ip.state
    BY <1>1, <2>3 DEF Layer
  <2>5. NothingReported' /\ (HandsOver' => HandsOver)
    BY <1>1, <2>1, <2>4 DEF Reported, NothingReported, HandsOver
  <2>6. Queued /\ Announced => Queued' /\ Announced'
    BY <1>1, <2>1, <2>2 DEF Queued, Announced
  <2> QED BY <2>5, <2>6 DEF Reported
<1> QED BY <1>2, <1>3, <1>4

LEMMA BeginReported ==
  ASSUME Bounds, Reported, faults' = {}, faults = {}, BeginExternalEvent
  PROVE  Reported'
<1>1. /\ UNCHANGED <<stack, ip, queue, net, call>> /\ ecet = "idle" /\ ecet' = "interrupt"
      /\ work' = [NoWork EXCEPT !.stack = stack, !.copy = queue.count, !.next = 1]
  BY DEF BeginExternalEvent
<1>2. work'.copy = queue.count /\ work'.next = 1 /\ queue.count \in Nat
  BY <1>1, BeforeNetwork DEF NoWork
<1>3. NothingReported' /\ (HandsOver' => HandsOver)
  BY <1>1 DEF Reported, NothingReported, HandsOver
<1>4. Queued => Queued' /\ Announced'
  BY <1>1, <1>2 DEF Queued, Announced
<1> QED BY <1>3, <1>4 DEF Reported

LEMMA ProcessReported ==
  ASSUME Bounds, Reported, faults' = {}, faults = {}, ProcessInterrupt
  PROVE  Reported'
<1>1. UNCHANGED <<stack, queue, net, call, ext>> /\ ecet = "interrupt" /\ ip \in Layer
  BY BeforeNetwork DEF ProcessInterrupt, ExternalEvent
<1>2. CASE HandsOver
  <2>1. /\ ip' = [ip EXCEPT !.handed = ip.handed \o SubSeq(ip.buffer, 1, ip.fill)]
        /\ ecet' = "handed"
    BY <1>2 DEF ProcessInterrupt
  <2>2. ip'.response = ip.response /\ ip'.fill = ip.fill
    BY <1>1, <2>1 DEF Layer
  <2> QED BY <1>1, <2>1, <2>2 DEF Reported, NothingReported, Queued, Announced
<1>3. CASE ~HandsOver
  <2>1. UNCHANGED ip
    BY <1>3 DEF ProcessInterrupt
  <2> QED BY <1>1, <1>3, <2>1 DEF Reported, NothingReported, HandsOver
<1> QED BY <1>2, <1>3

LEMMA ResetReported ==
  ASSUME Bounds, ResetBuffer PROVE Reported'
<1>1. ip \in Layer /\ \E answer : ip' = [ip EXCEPT !.response = answer, !.fill = 0]
  BY BeforeNetwork DEF ResetBuffer
<1>2. ip'.fill = 0
  BY <1>1 DEF Layer
<1> QED BY <1>2, NoData

LEMMA CountReported ==
  ASSUME Bounds, Reported, faults' = {}, faults = {},
         LoadCount \/ StoreCount \/ ShiftInterrupts
  PROVE  Reported'
<1>1. UNCHANGED <<stack, ip, net, call, ext>> /\ work \in Work /\ queue \in Queue
  BY DEF LoadCount, StoreCount, ShiftInterrupts, ExternalEvent, Bounds, Types, ThreadTypes, LayerTypes
<1>2. NothingReported' /\ (HandsOver' => HandsOver)
  BY <1>1 DEF Reported, NothingReported, HandsOver
<1>3. work.copy \in Nat /\ work.count \in Nat /\ queue.count \in Nat /\ work.next \in Nat
  BY <1>1, BeforeNetwork DEF Work
<1>4. CASE LoadCount
  <2>1. /\ ecet = "interrupt" /\ ecet' = "count" /\ ~(work.next <= work.copy)
        /\ work' = [work EXCEPT !.count = queue.count, !.next = 0]
    BY <1>3, <1>4 DEF LoadCount
  <2>2. work'.copy = work.copy /\ work'.count = queue.count
    BY <1>1, <2>1 DEF Work
  <2>3. Queued /\ Announced => Queued' /\ Announced'
    BY <1>1, <2>1, <2>2 DEF Queued, Announced
  <2> QED BY <1>2, <2>3 DEF Reported
<1>5. CASE StoreCount
  <2>1. /\ ecet = "count" /\ ecet' = "shift"
        /\ queue' = [queue EXCEPT !.count = work.count - work.copy]
    BY <1>5 DEF StoreCount
  <2>2. queue'.count = work.count - work.copy
    BY <1>1, <2>1 DEF Queue
  <2>3. work.count > work.copy => queue'.count > 0
    BY <1>3, <2>2
  <2>4. Queued /\ Announced => Queued' /\ Announced'
    BY <1>1, <2>1, <2>3 DEF Queued, Announced
  <2> QED BY <1>2, <2>4 DEF Reported
<1>6. CASE ShiftInterrupts
  <2>1. ecet = "shift" /\ ecet' = "respond" /\ \E s : queue' = [queue EXCEPT !.slot = s]
    BY <1>6 DEF ShiftInterrupts
  <2>2. queue'.count = queue.count
    BY <1>1, <2>1 DEF Queue
  <2>3. Queued /\ Announced => Queued' /\ Announced'
    BY <1>1, <2>1, <2>2 DEF Queued, Announced
  <2> QED BY <1>2, <2>3 DEF Reported
<1> QED BY <1>4, <1>5, <1>6

LEMMA RespondReported ==
  ASSUME Bounds, Reported, faults' = {}, faults = {}, Respond PROVE Reported'
<1>1. UNCHANGED <<net, call, queue, ext>> /\ ecet = "respond" /\ ecet' = "idle"
  BY DEF Respond
<1>2. CASE StaysOpen
  <2>1. UNCHANGED <<stack, ip>>
    BY <1>2 DEF StaysOpen
  <2>2. NothingReported' /\ (HandsOver' => HandsOver)
    BY <1>1, <2>1 DEF Reported, NothingReported, HandsOver
  <2>3. Queued /\ Announced => Queued' /\ Announced'
    BY <1>1 DEF Queued, Announced
  <2> QED BY <2>2, <2>3 DEF Reported
<1> QED BY <1>2, CloseConnectionReported DEF Respond

LEMMA LayerReported ==
  ASSUME Bounds, Reported, faults' = {}, faults = {},
         \/ Select \/ EnterRecvData \/ AcceptConnection \/ HandleConnectionAttemptInConnected
         \/ ReceiveData \/ AddReceived \/ ConnectionClosedByPeer \/ ReceiveFails \/ TestSocket
         \/ InterruptCommFB
  PROVE  Reported'
<1>1. UNCHANGED <<stack, ecet, work>> /\ ip \in Layer /\ UNCHANGED ext
  BY BeforeNetwork DEF Select, EnterRecvData, AcceptConnection, HandleConnectionAttemptInConnected,
     ReceiveData, AddReceived, ConnectionClosedByPeer, ReceiveFails, TestSocket,
     InterruptCommFB, Reads, InLayer, Network
<1>2. CASE Select
  <2>1. net = "select" /\ net' = "call" /\ UNCHANGED <<ip, queue>>
    BY <1>2 DEF Select
  <2> QED BY <1>1, <2>1 DEF Reported, NothingReported, HandsOver, Queued, Announced
<1>3. CASE EnterRecvData
  <2>1. ip' = [ip EXCEPT !.response = "Nothing"]
    BY <1>3 DEF EnterRecvData
  <2>2. ip'.response = "Nothing"
    BY <1>1, <2>1 DEF Layer
  <2> QED BY <2>2, NoData
<1>4. CASE AcceptConnection \/ HandleConnectionAttemptInConnected \/ TestSocket \/ ReceiveData
  <2>1. net \in {"accept", "refuse", "wait", "receive"} /\ call.stack = stack
    BY <1>4 DEF AcceptConnection, HandleConnectionAttemptInConnected, TestSocket, ReceiveData,
       Reads, InLayer
  <2>2. ip'.response = ip.response /\ ip'.fill = ip.fill
    BY <1>1, <1>4 DEF AcceptConnection, HandleConnectionAttemptInConnected, TestSocket,
       ReceiveData, Layer
  <2> QED BY <2>1, <2>2, NoData DEF Reported, NothingReported
<1>5. CASE ConnectionClosedByPeer
  <2>1. ip' = [ip EXCEPT !.socket = None, !.response = "Terminated",
                         !.state = IF service = "server" THEN "Listening" ELSE ip.state]
    BY <1>5 DEF ConnectionClosedByPeer
  <2>2. ip'.response = "Terminated"
    BY <1>1, <2>1 DEF Layer
  <2> QED BY <2>2, NoData
<1>6. CASE ReceiveFails
  <2>1. ip' = [ip EXCEPT !.response = "RecvFailed"]
    BY <1>6 DEF ReceiveFails
  <2>2. ip'.response = "RecvFailed"
    BY <1>1, <2>1 DEF Layer
  <2> QED BY <2>2, NoData
<1>7. CASE AddReceived
  <2>1. net' = "interrupt"
    BY <1>7 DEF AddReceived
  <2> QED BY <2>1 DEF Reported, NothingReported, Queued, Announced
<1>8. CASE InterruptCommFB
  <2>1. net' = "count"
    BY <1>8 DEF InterruptCommFB
  <2> QED BY <2>1 DEF Reported, NothingReported, Queued, Announced
<1> QED BY <1>2, <1>3, <1>4, <1>5, <1>6, <1>7, <1>8

LEMMA AddInterruptReported ==
  ASSUME Bounds, Reported, faults' = {}, faults = {}, AddInterrupt
  PROVE  Reported'
<1>1. /\ net = "count" /\ net' = "return" /\ UNCHANGED <<ecet, work, stack, ip>>
      /\ ecet \notin {"count", "shift"}
  BY DEF AddInterrupt, InLayer, Network, RaceIf
<1>2. PICK old \in {call.count, queue.count} : queue' = [queue EXCEPT !.count = old + 1]
  BY DEF AddInterrupt
<1>3. queue'.count = old + 1
  BY <1>2, BeforeNetwork DEF Queue
<1>4. old \in Nat /\ queue.count <= old /\ queue.count \in Nat /\ work.copy \in Nat
  BY <1>1, <1>2, BeforeNetwork DEF Bounds, CountsAgree, Types, ThreadTypes, Work
<1>5. queue'.count > 0 /\ (ecet = "interrupt" => queue'.count > work.copy)
  BY <1>1, <1>3, <1>4 DEF Bounds, CountsAgree
<1> QED BY <1>1, <1>5 DEF Reported, NothingReported, Queued, Announced

LEMMA StartReported ==
  ASSUME Bounds, Reported, faults' = {}, faults = {}, StartNewEventChain
  PROVE  Reported'
<1>1. net = "return" /\ net' = "select" /\ UNCHANGED <<ecet, work, stack, ip, queue>>
  BY DEF StartNewEventChain, InLayer, Network
<1>2. CASE ip.response = "Nothing"
  BY <1>1, <1>2, NoData
<1>3. CASE ext' = ext + 1
  <2>1. ext' > 0
    BY <1>3, BeforeNetwork, Constants
  <2> QED BY <1>1, <2>1 DEF Reported, NothingReported, HandsOver, Queued, Announced
<1> QED BY <1>2, <1>3 DEF StartNewEventChain

LEMMA NextReported ==
  ASSUME Bounds, Reported, Next PROVE Reported'
<1> SUFFICES ASSUME faults' = {} PROVE Reported'
  BY DEF Reported
<1>1. faults = {}
  BY FaultsGrow
<1>2. ~Undefined
  BY DEF Undefined
<1>3. CASE InitCloses
  BY <1>3, CloseConnectionReported DEF InitCloses
<1> QED
  BY <1>1, <1>2, <1>3, IdleReported, OpenConnectionReported, BeginReported, ProcessReported,
     ResetReported, CountReported, RespondReported, LayerReported, AddInterruptReported,
     StartReported
     DEF Next, EventChainThread, NetworkThread, Application, EventChainUsesDeletedLayer,
         NetworkUsesDeletedLayer

-----------------------------------------------------------------------------
Inv == Bounds /\ OneConnection /\ InOrder /\ Reported

(* All parts of the invariant hold together.                               *)
THEOREM InvHolds == Spec => []Inv
<1>1. Init => Inv
  BY InitBounds, InitConnection, InitInOrder, InitReported DEF Inv
<1>2. Inv /\ [Next]_vars => Inv'
  <2> SUFFICES ASSUME Inv, [Next]_vars PROVE Inv'
    OBVIOUS
  <2>1. CASE Next
    BY <2>1, NextBounds, NextConnection, NextInOrder, NextReported DEF Inv
  <2>2. CASE UNCHANGED vars
    <3>1. Bounds'
      BY <2>2, StutterBounds DEF Inv
    <3>2. OneConnection' /\ InOrder' /\ Reported'
      BY <2>2 DEF Inv, vars, OneConnection, Sound, InOrder, Kept, Reported, NothingReported,
         HandsOver, Queued, Announced
    <3> QED BY <3>1, <3>2 DEF Inv
  <2> QED BY <2>1, <2>2
<1> QED BY <1>1, <1>2, PTL DEF Spec

(* The variables keep their types: whatever the threads do to each other,  *)
(* the receive buffer and the interrupt queue never hold more than they    *)
(* have room for.                                                          *)
THEOREM TypeCorrect == Spec => []TypeOK
<1>1. Inv => TypeOK
  <2> SUFFICES ASSUME Inv PROVE TypeOK
    OBVIOUS
  <2>1. Bounds
    BY DEF Inv
  <2>2. /\ ip.socket \in Connection \cup {None} /\ ip.listening \in BOOLEAN
        /\ ip.state \in {"Disconnected", "Listening", "Connected"}
        /\ ip.response \in Response /\ ip.fill \in 0 .. Size /\ ip.buffer \in [1 .. Size -> Nat]
    BY <2>1 DEF Bounds, Types, LayerTypes, Layer, Socket
  <2>3. Response \subseteq DOMAIN Severity
    BY DEF Response, Severity
  <2>4. registered \subseteq (Connection \cup {Listen}) \X (1 .. MaxOpened)
    BY <2>1, Constants DEF Bounds, StacksOpened
  <2> QED
    BY <2>1, <2>2, <2>3, <2>4
       DEF TypeOK, Bounds, Types, EnvironmentTypes, LayerTypes, ThreadTypes, StacksOpened, Link,
           Queue, Places, Phases
<1> QED BY <1>1, InvHolds, PTL

(* However clients connect, leave and connect again, a server has one open *)
(* connection (handleConnectionAttemptInConnected refuses the others).     *)
THEOREM OneClientHolds == Spec => []OneClient
<1>1. Inv => OneClient
  BY DEF Inv, OneConnection, Sound, OneClient
<1> QED BY <1>1, InvHolds, PTL

(* Everything read from the socket reaches the upper layer once and in     *)
(* order, whatever the interleaving of the threads, unless they are in the *)
(* same few statements (processInterrupt() and handledConnectedDataRecv()).*)
THEOREM ReceivedInOrder == Spec => []ReceivedIsHandedOrBuffered
<1>1. Inv => ReceivedIsHandedOrBuffered
  <2> SUFFICES ASSUME Inv, "raced" \notin faults
               PROVE  ip.handed \o SubSeq(ip.buffer, 1, Kept) = [i \in 1 .. ip.received |-> i]
    BY DEF ReceivedIsHandedOrBuffered, Kept
  <2>1. Whole(ip.handed, ip.buffer, Kept, ip.received) /\ Bounds
    BY DEF Inv, InOrder
  <2>2. ip.handed \in Seq(Nat) /\ ip.buffer \in [1 .. Size -> Nat] /\ ip.received \in Nat
    BY <2>1, BeforeNetwork DEF Layer
  <2>3. Kept \in 0 .. Size
    <3>1. /\ ip.fill \in 0 .. Size /\ call.units \in Nat
          /\ net = "received" /\ call.stack = stack => ip.fill + call.units <= Size
      BY <2>1, BeforeNetwork, Constants DEF Bounds, ReadFits
    <3> QED BY <3>1, Constants DEF Kept
  <2> QED BY <2>1, <2>2, <2>3, WholeIsSequence
<1> QED BY <1>1, InvHolds, PTL

(* Once neither thread has anything in hand, data that recvData() has      *)
(* reported and nobody has taken is announced: an interrupt is queued and  *)
(* an external event is to come, unless a full queue or list dropped one,  *)
(* the block was not running or the threads raced.                         *)
THEOREM ReportedHasEvent == Spec => []ReportedDataHasEvent
<1>1. Inv => ReportedDataHasEvent
  BY DEF Inv, Reported, Queued, Announced, ReportedDataHasEvent
<1> QED BY <1>1, InvHolds, PTL
=============================================================================
