----------------------------- MODULE Connections -----------------------------
(***************************************************************************)
(* The event, data and adapter connections of a resource's function        *)
(* blocks. Management commands make and remove them one by one, and delete *)
(* blocks; nothing else changes them. Each connection object belongs to    *)
(* its source, an output or a plug, and lists its destinations; an input   *)
(* points back to the one connection it reads, and plug and socket point   *)
(* to each other.                                                          *)
(*                                                                         *)
(* A port is also its connection object, where it has one. A command       *)
(* names ports of existing blocks. Deleted blocks do not come back: a      *)
(* block that is created again is another one.                             *)
(***************************************************************************)
EXTENDS Integers, Sequences, SequencesExt

CONSTANTS
  Block,
  EventOutput, EventInput, Output, Input, Plug, Socket,   \* the ports
  Owner,       \* the block of each port
  PortType,    \* the declared data type, or adapter type, of each port but events
  Plans,       \* the applications to check: pairs of ports the tool may name
  None

Source == EventOutput \cup Output \cup Plug
Port   == Source \cup EventInput \cup Input \cup Socket

(* data types as far as conversion tells them apart, of which ANY is not   *)
(* yet a type                                                              *)
Float    == {"REAL", "LREAL"}
Number   == {"BOOL", "INT"} \cup Float
DataType == Number \cup {"STRING", "ANY"}

ASSUME PortAssumption ==
  /\ Owner \in [Port -> Block]
  /\ PortType \in [Output \cup Input \cup Plug \cup Socket -> STRING]
  /\ \A x \in Output \cup Input : PortType[x] \in DataType
  /\ None \notin Port
  /\ EventOutput \cap Output = {} /\ Plug \cap (EventOutput \cup Output) = {}
  /\ Input \cap (EventInput \cup Socket) = {} /\ EventInput \cap Socket = {}
  /\ Socket \cap Source = {}
  /\ \A plan \in Plans : plan \subseteq
       (EventOutput \X EventInput) \cup (Output \X Input) \cup (Plug \X Socket)

VARIABLES
  plan,           \* the application, chosen once
  alive,          \* the blocks that exist
  destinations,   \* mDestinationIds of each connection
  source,         \* m_apoDIConns: the connection each data input reads
  valueType,      \* the type of m_poValue, ANY while it is 0, and of the data output
  inputType,      \* the type of each data input
  special,        \* mSpecialCastConnection
  peer,           \* m_poPeer of each plug and socket
  conn,           \* m_poAdapterConn of each socket
  socketOf,       \* mSocket of each adapter connection
  granted,        \* history: connections whose creation was answered ready, and deletion not
  faults          \* history: what went wrong, and where

dataVars    == <<source, valueType, inputType, special>>
adapterVars == <<peer, conn, socketOf>>
vars == <<plan, alive, destinations, dataVars, adapterVars, granted, faults>>

Init ==
  /\ plan \in Plans
  /\ alive = Block
  /\ destinations = [x \in Source |-> <<>>]
  /\ source = [i \in Input |-> None]
  /\ valueType = [o \in Output |-> PortType[o]]
  /\ inputType = [i \in Input |-> PortType[i]]
  /\ special = [o \in Output |-> FALSE]
  /\ peer = [x \in Plug \cup Socket |-> None]
  /\ conn = [s \in Socket |-> None]
  /\ socketOf = [p \in Plug |-> None]
  /\ granted = {}
  /\ faults = {}

(* nothing is said of a process that has used a deleted block *)
Defined == <<"undefined", None>> \notin faults

(* a command finds its ports by the names of their blocks *)
Named(x, y) ==
  Defined /\ <<x, y>> \in plan /\ {Owner[x], Owner[y]} \subseteq alive

-----------------------------------------------------------------------------
(* CConnection: the list of destinations. *)

Added(x, y) == Append(destinations[x], y)

Removed(x, y) ==
  RemoveAt(destinations[x], CHOOSE k \in DOMAIN destinations[x] : destinations[x][k] = y)

Listed(x, y) == Contains(destinations[x], y)

Grant(x, y)  == granted' = granted \cup {<<x, y>>}
Revoke(x, y) == granted' = granted \ {<<x, y>>}

(* mutant: dstExists() is not asked *)
ConnectEventTwice(x, y) ==
  /\ Named(x, y)
  /\ destinations' = [destinations EXCEPT ![x] = Added(x, y)]
  /\ Grant(x, y)
  /\ UNCHANGED <<plan, alive, dataVars, adapterVars, faults>>

(* a second connection to the same input is refused and changes nothing    *)
ConnectEvent(x, y) ==
  /\ Named(x, y)
  /\ ~Listed(x, y)
  /\ destinations' = [destinations EXCEPT ![x] = Added(x, y)]
  /\ Grant(x, y)
  /\ UNCHANGED <<plan, alive, dataVars, adapterVars, faults>>

DisconnectEvent(x, y) ==
  /\ Named(x, y)
  /\ Listed(x, y)
  /\ destinations' = [destinations EXCEPT ![x] = Removed(x, y)]
  /\ Revoke(x, y)
  /\ UNCHANGED <<plan, alive, dataVars, adapterVars, faults>>

-----------------------------------------------------------------------------
(* Data connections. *)

(* isCastable(): by the tables, among numbers always, strings to nothing else *)
Castable(from, to) == from = to \/ {from, to} \subseteq Number

(* canBeConnected(); an output of type ANY takes any input *)
Connectable(o, i) ==
  "ANY" \in {valueType[o], inputType[i]} \/ Castable(valueType[o], inputType[i])

(* the flag canBeConnected() leaves behind: it is written only when both   *)
(* types are known and differ                                              *)
SpecialAfter(o, i) ==
  IF "ANY" \in {valueType[o], inputType[i]} \/ valueType[o] = inputType[i]
  THEN special[o]
  ELSE Castable(valueType[o], inputType[i]) /\ valueType[o] \in Float

(* handleAnySrcPortConnection(): an output without a type takes that of    *)
(* the input, and hands it on to the inputs it is connected to already     *)
TypeAfter(o, i) == IF valueType[o] = "ANY" THEN inputType[i] ELSE valueType[o]

NotHandedOn(o, i) == {}   \* mutant: the existing destinations are not reconfigured

HandedOn(o, i) ==
  IF valueType[o] = "ANY" /\ inputType[i] # "ANY"
  THEN ToSet(destinations[o]) ELSE {}

(* connectDI() of each input in ds with connection o: an input that reads  *)
(* another connection refuses; one without a type takes that of the value  *)
Accepts(d, o) == source[d] \in {None, o}

ConnectDI(ds, o, type) ==
  LET taken == {d \in ds : Accepts(d, o)}
  IN  /\ source' = [d \in Input |-> IF d \in taken THEN o ELSE source[d]]
      /\ inputType' = [d \in Input |-> IF d \in taken /\ inputType[d] = "ANY"
                                        THEN type ELSE inputType[d]]

Configure(o, i) ==
  /\ valueType' = [valueType EXCEPT ![o] = TypeAfter(o, i)]
  /\ special' = [special EXCEPT ![o] = SpecialAfter(o, i)]

Configurable(o, i) ==
  \A d \in HandedOn(o, i) : Owner[d] \in alive

(* not castable: the command is refused, but the flag has been reset       *)
RefuseUncastable(o, i) ==
  /\ Named(o, i)
  /\ ~Connectable(o, i)
  /\ Configure(o, i)
  /\ faults' = IF special[o] THEN faults \cup {<<"uncast", o>>} ELSE faults
  /\ UNCHANGED <<plan, alive, destinations, source, inputType, adapterVars, granted>>

Mended(o, i) == IF SpecialAfter(o, i) THEN faults \ {<<"uncast", o>>} ELSE faults

(* the connection is there already; its types are configured all the same  *)
RefuseListed(o, i) ==
  /\ Named(o, i)
  /\ Connectable(o, i) /\ Listed(o, i) /\ Configurable(o, i)
  /\ Configure(o, i)
  /\ ConnectDI(HandedOn(o, i), o, TypeAfter(o, i))
  /\ faults' = Mended(o, i)
  /\ UNCHANGED <<plan, alive, destinations, adapterVars, granted>>

(* the input reads another connection: the destination just added at the   *)
(* end of the list is given up by removing the list's first                *)
RefuseOccupied(o, i) ==
  /\ Named(o, i)
  /\ Connectable(o, i) /\ ~Listed(o, i) /\ Configurable(o, i)
  /\ ~Accepts(i, o)
  /\ Configure(o, i)
  /\ ConnectDI(HandedOn(o, i), o, TypeAfter(o, i))
  /\ destinations' = [destinations EXCEPT ![o] = Tail(Added(o, i))]
  /\ faults' = IF destinations[o] = <<>> THEN Mended(o, i)
               ELSE Mended(o, i) \cup {<<"rolledBack", o>>}
  /\ UNCHANGED <<plan, alive, adapterVars, granted>>

ConnectData(o, i) ==
  /\ Named(o, i)
  /\ Connectable(o, i) /\ ~Listed(o, i) /\ Configurable(o, i)
  /\ Accepts(i, o)
  /\ Configure(o, i)
  /\ ConnectDI(HandedOn(o, i) \cup {i}, o, TypeAfter(o, i))
  /\ destinations' = [destinations EXCEPT ![o] = Added(o, i)]
  /\ Grant(o, i)
  /\ faults' = Mended(o, i)
  /\ UNCHANGED <<plan, alive, adapterVars>>

(* mutant: the input keeps its connection *)
DisconnectOutputOnly(o, i) ==
  /\ Named(o, i)
  /\ Listed(o, i)
  /\ destinations' = [destinations EXCEPT ![o] = Removed(o, i)]
  /\ Revoke(o, i)
  /\ UNCHANGED <<plan, alive, dataVars, adapterVars, faults>>

DisconnectData(o, i) ==
  /\ Named(o, i)
  /\ Listed(o, i)
  /\ destinations' = [destinations EXCEPT ![o] = Removed(o, i)]
  /\ source' = [source EXCEPT ![i] = None]
  /\ Revoke(o, i)
  /\ UNCHANGED <<plan, alive, valueType, inputType, special, adapterVars, faults>>

-----------------------------------------------------------------------------
(* Adapter connections. *)

Compatible(p, s) ==
  \/ PortType[p] = PortType[s]
  \/ "ANY_ADAPTER" \in {PortType[p], PortType[s]}

ConnectAdapter(p, s) ==
  /\ Named(p, s)
  /\ destinations[p] = <<>> /\ Compatible(p, s)
  /\ peer[p] = None /\ peer[s] = None
  /\ peer' = [peer EXCEPT ![p] = s, ![s] = p]
  /\ conn' = [conn EXCEPT ![s] = p]
  /\ socketOf' = [socketOf EXCEPT ![p] = s]
  /\ destinations' = [destinations EXCEPT ![p] = Added(p, s)]
  /\ Grant(p, s)
  /\ UNCHANGED <<plan, alive, dataVars, faults>>

(* one side has a peer already: both are disconnected, whoever they were   *)
(* connected to                                                            *)
RefuseAdapter(p, s) ==
  /\ Named(p, s)
  /\ destinations[p] = <<>> /\ Compatible(p, s)
  /\ peer[p] # None \/ peer[s] # None
  /\ peer' = [peer EXCEPT ![p] = None, ![s] = None]
  /\ conn' = [conn EXCEPT ![s] = None]
  /\ faults' = IF peer[s] = None THEN faults ELSE faults \cup {<<"cut", peer[s]>>}
  /\ UNCHANGED <<plan, alive, destinations, dataVars, socketOf, granted>>

(* mutant: the socket does not ask which connection disconnects it         *)
ReleasedByAny(ps) == {socketOf[p] : p \in ps} \ {None}

(* performDisconnect() of the connections of the plugs in ps: a socket     *)
(* leaves only the connection it belongs to                                *)
Released(ps) == {s \in Socket : conn[s] \in ps /\ socketOf[conn[s]] = s}

DisconnectAdapter(p, s) ==
  /\ Named(p, s)
  /\ Listed(p, s)
  /\ destinations' = [destinations EXCEPT ![p] = Removed(p, s)]
  /\ peer' = [x \in Plug \cup Socket |->
                IF x \in {p} \cup Released({p}) THEN None ELSE peer[x]]
  /\ conn' = [x \in Socket |-> IF x \in Released({p}) THEN None ELSE conn[x]]
  /\ socketOf' = [socketOf EXCEPT ![p] = None]
  /\ Revoke(p, s)
  /\ faults' = faults \ {<<"cut", p>>}
  /\ UNCHANGED <<plan, alive, dataVars>>

-----------------------------------------------------------------------------
(* Deleting a block: its connections are destroyed with it. Plugs          *)
(* disconnect their socket, sockets tell the connection; no input or       *)
(* output of another block hears of it.                                    *)
Ports(S, b) == {x \in S : Owner[x] = b}

DeleteFB(b) ==
  LET sockets == Ports(Socket, b)
      plugs   == Ports(Plug, b)
      left    == sockets \cup Released(plugs)
  IN  /\ Defined /\ b \in alive
      /\ \A p \in plugs : socketOf[p] # None => Owner[socketOf[p]] \in alive
      /\ alive' = alive \ {b}
      /\ destinations' = [x \in Source |-> IF Owner[x] = b THEN <<>> ELSE destinations[x]]
      /\ source' = [i \in Input |-> IF Owner[i] = b THEN None ELSE source[i]]
      /\ peer' = [x \in Plug \cup Socket |-> IF x \in plugs \cup left THEN None ELSE peer[x]]
      /\ conn' = [s \in Socket |-> IF s \in left THEN None ELSE conn[s]]
      /\ socketOf' = [p \in Plug |-> IF p \in plugs \/ \E s \in sockets : conn[s] = p
                                      THEN None ELSE socketOf[p]]
      /\ UNCHANGED <<plan, valueType, inputType, special, granted, faults>>

Undefined ==
  /\ faults' = faults \cup {<<"undefined", None>>}
  /\ UNCHANGED <<plan, alive, destinations, dataVars, adapterVars, granted>>

(* a type is handed on to an input of a deleted block *)
ConfiguresDeletedBlock(o, i) ==
  /\ Named(o, i)
  /\ Connectable(o, i) /\ ~Configurable(o, i)
  /\ Undefined

(* a plug is deleted whose connection still points to a deleted socket *)
DisconnectsDeletedSocket(p) ==
  /\ Defined /\ Owner[p] \in alive
  /\ socketOf[p] # None /\ Owner[socketOf[p]] \notin alive
  /\ Undefined

-----------------------------------------------------------------------------
Next ==
  \/ \E x \in EventOutput, y \in EventInput : ConnectEvent(x, y) \/ DisconnectEvent(x, y)
  \/ \E o \in Output, i \in Input :
       \/ RefuseUncastable(o, i) \/ RefuseListed(o, i) \/ RefuseOccupied(o, i)
       \/ ConnectData(o, i) \/ DisconnectData(o, i) \/ ConfiguresDeletedBlock(o, i)
  \/ \E p \in Plug, s \in Socket :
       ConnectAdapter(p, s) \/ RefuseAdapter(p, s) \/ DisconnectAdapter(p, s)
  \/ \E p \in Plug : DisconnectsDeletedSocket(p)
  \/ \E b \in Block : DeleteFB(b)

Spec == Init /\ [][Next]_vars
-----------------------------------------------------------------------------
TypeOK ==
  /\ plan \in Plans /\ alive \subseteq Block
  /\ destinations \in [Source -> Seq(Port)]
  /\ \A x \in Source : \A j, k \in DOMAIN destinations[x] :
       destinations[x][j] = destinations[x][k] => j = k
  /\ source \in [Input -> Output \cup {None}]
  /\ valueType \in [Output -> DataType] /\ inputType \in [Input -> DataType]
  /\ special \in [Output -> BOOLEAN]
  /\ peer \in [Plug \cup Socket -> Plug \cup Socket \cup {None}]
  /\ conn \in [Socket -> Plug \cup {None}] /\ socketOf \in [Plug -> Socket \cup {None}]
  /\ granted \subseteq plan
  /\ faults \subseteq {"uncast", "rolledBack", "cut", "undefined"} \X (Source \cup {None})

(* no connectDI() was refused for a connection with other destinations     *)
NoRollback == \A o \in Output : <<"rolledBack", o>> \notin faults

(* the connection, or plug, x points to y; y points back to x              *)
PointsTo(x, y) ==
  IF x \in Plug THEN Listed(x, y) \/ y \in {peer[x], socketOf[x]} ELSE Listed(x, y)

PointsBack(x, y) ==
  IF y \in Input THEN source[y] = x ELSE y \in Socket /\ x \in {peer[y], conn[y]}

(* Whatever has been connected, refused, disconnected and deleted, blocks  *)
(* point only to blocks the tool knows them to be connected to: one that   *)
(* is deleted after the tool has removed its connections is pointed to by  *)
(* nobody. The data connections keep this until a refused one is rolled    *)
(* back in the wrong place (dataconn.cpp:148).                             *)
PointersAreGranted ==
  \A x \in Source, y \in Port :
    (PointsTo(x, y) \/ PointsBack(x, y)) /\ (x \in Output => NoRollback)
      => <<x, y>> \in granted

(* A connection that was answered ready, and not removed, is there on both *)
(* sides as long as both blocks are, unless a later refused one has rolled *)
(* back or cut it (dataconn.cpp:148, adapterconn.cpp:46): commands to      *)
(* other ports, refused or not, and deleted blocks leave it alone.         *)
GrantedIsConnected ==
  \A x \in Source, y \in Port :
    /\ <<x, y>> \in granted
    /\ {Owner[x], Owner[y]} \subseteq alive
    /\ x \in Output => NoRollback
    =>
      /\ Listed(x, y)
      /\ x \in Output => source[y] = x
      /\ x \in Plug => /\ peer[x] = y /\ socketOf[x] = y
                       /\ (peer[y] = x /\ conn[y] = x) \/ <<"cut", x>> \in faults

(* What an input reads is converted to its type: no input is left without  *)
(* a type once its connection has a value, its type is one the value can   *)
(* be cast to, and floating point numbers are not copied bit by bit,       *)
(* however many inputs of different types share the connection's one flag, *)
(* until a refused connection resets it (dataconn.cpp:118).                *)
ReadsConverted ==
  NoRollback => \A i \in Input : LET o == source[i] IN
    o # None =>
      /\ valueType[o] # "ANY" => /\ inputType[i] # "ANY"
                                 /\ Castable(valueType[o], inputType[i])
      /\ valueType[o] \in Float \ {inputType[i]}
           => special[o] \/ <<"uncast", o>> \in faults
=============================================================================
