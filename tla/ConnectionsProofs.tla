-------------------------- MODULE ConnectionsProofs --------------------------
(* Theorems about the connections of a resource, for any number of blocks  *)
(* and ports, every assignment of types, and every application.            *)
EXTENDS Connections, SequenceTheorems, TLAPS

Unique(s) == \A j, k \in DOMAIN s : s[j] = s[k] => j = k

(* addDestination() of a destination that is not there yet.                *)
LEMMA AppendLists ==
  ASSUME NEW S, NEW s \in Seq(S), NEW y \in S
  PROVE  /\ Append(s, y) \in Seq(S)
         /\ \A z : Contains(Append(s, y), z) <=> Contains(s, z) \/ z = y
         /\ Unique(s) /\ ~Contains(s, y) => Unique(Append(s, y))
<1>1. /\ Append(s, y) \in Seq(S) /\ Len(Append(s, y)) = Len(s) + 1 /\ Len(s) \in Nat
      /\ \A i \in 1 .. Len(s) : Append(s, y)[i] = s[i]
      /\ Append(s, y)[Len(s) + 1] = y
      /\ DOMAIN s = 1 .. Len(s) /\ DOMAIN Append(s, y) = 1 .. Len(s) + 1
  BY AppendProperties, LenProperties
<1>2. ASSUME NEW z PROVE Contains(Append(s, y), z) <=> Contains(s, z) \/ z = y
  BY <1>1 DEF Contains
<1>3. Unique(s) /\ ~Contains(s, y) => Unique(Append(s, y))
  BY <1>1 DEF Contains, Unique
<1> QED BY <1>1, <1>2, <1>3

(* removeDestination() of a destination that is there.                     *)
LEMMA RemoveUnlists ==
  ASSUME NEW S, NEW s \in Seq(S), NEW y, Unique(s), NEW k \in DOMAIN s, s[k] = y
  PROVE  /\ RemoveAt(s, k) \in Seq(S)
         /\ \A z : Contains(RemoveAt(s, k), z) <=> Contains(s, z) /\ z # y
         /\ Unique(RemoveAt(s, k))
<1> DEFINE r == RemoveAt(s, k)
<1>1. /\ Len(s) \in Nat /\ DOMAIN s = 1 .. Len(s) /\ k \in 1 .. Len(s)
      /\ \A i \in 1 .. Len(s) : s[i] \in S
  BY LenProperties, ElementOfSeq
<1>2. /\ SubSeq(s, 1, k - 1) \in Seq(S) /\ Len(SubSeq(s, 1, k - 1)) = k - 1
      /\ \A i \in 1 .. k - 1 : SubSeq(s, 1, k - 1)[i] = s[i]
  BY <1>1, SubSeqProperties
<1>3. /\ SubSeq(s, k + 1, Len(s)) \in Seq(S) /\ Len(SubSeq(s, k + 1, Len(s))) = Len(s) - k
      /\ \A i \in 1 .. Len(s) - k : SubSeq(s, k + 1, Len(s))[i] = s[k + i]
  BY <1>1, SubSeqProperties
<1>4. /\ r \in Seq(S) /\ Len(r) = Len(s) - 1 /\ DOMAIN r = 1 .. Len(s) - 1
      /\ \A i \in 1 .. Len(s) - 1 : r[i] = IF i < k THEN s[i] ELSE s[i + 1]
  <2> DEFINE f == SubSeq(s, 1, k - 1)
             t == SubSeq(s, k + 1, Len(s))
  <2>1. r = f \o t
    BY DEF RemoveAt
  <2> HIDE DEF f, t, r
  <2>2. /\ f \in Seq(S) /\ Len(f) = k - 1 /\ t \in Seq(S) /\ Len(t) = Len(s) - k
        /\ \A i \in 1 .. k - 1 : f[i] = s[i]
        /\ \A i \in 1 .. Len(s) - k : t[i] = s[k + i]
    BY <1>2, <1>3 DEF f, t
  <2>3. /\ f \o t \in Seq(S) /\ Len(f \o t) = Len(f) + Len(t)
        /\ \A i \in 1 .. Len(f) + Len(t) : (f \o t)[i] = IF i <= Len(f) THEN f[i] ELSE t[i - Len(f)]
    BY <2>2, ConcatProperties
  <2>4. r \in Seq(S) /\ Len(r) = Len(s) - 1
    BY <1>1, <2>1, <2>2, <2>3
  <2>5. ASSUME NEW i \in 1 .. Len(s) - 1
        PROVE  r[i] = IF i < k THEN s[i] ELSE s[i + 1]
    <3>1. r[i] = IF i <= k - 1 THEN f[i] ELSE t[i - (k - 1)]
      <4>1. i \in 1 .. Len(f) + Len(t) /\ Len(f) = k - 1
        BY <1>1, <2>2
      <4>2. r[i] = IF i <= Len(f) THEN f[i] ELSE t[i - Len(f)]
        BY <2>1, <2>3, <4>1
      <4> QED BY <4>1, <4>2
    <3>2. CASE i <= k - 1
      BY <1>1, <2>2, <3>1, <3>2
    <3>3. CASE i > k - 1
      <4> DEFINE j == i - (k - 1)
      <4>1. j \in 1 .. Len(s) - k /\ k + j = i + 1
        BY <1>1, <3>3
      <4> HIDE DEF j
      <4>2. t[j] = s[k + j]
        BY <2>2, <4>1
      <4>3. r[i] = t[j] /\ ~(i < k)
        BY <1>1, <3>1, <3>3 DEF j
      <4> QED BY <4>1, <4>2, <4>3
    <3> QED BY <1>1, <3>2, <3>3
  <2> QED BY <2>4, <2>5, LenProperties
<1> HIDE DEF r
<1>5. ASSUME NEW z PROVE Contains(r, z) <=> Contains(s, z) /\ z # y
  <2>1. Contains(r, z) => Contains(s, z) /\ z # y
    BY <1>1, <1>4 DEF Contains, Unique
  <2>2. ASSUME NEW i \in 1 .. Len(s), s[i] = z, z # y PROVE Contains(r, z)
    <3>1. CASE i < k
      BY <1>1, <1>4, <2>2, <3>1 DEF Contains
    <3>2. CASE i > k
      <4>1. i - 1 \in 1 .. Len(s) - 1 /\ r[i - 1] = z
        BY <1>1, <1>4, <2>2, <3>2
      <4> QED BY <1>4, <4>1 DEF Contains
    <3> QED BY <1>1, <2>2, <3>1, <3>2
  <2> QED BY <2>1, <2>2 DEF Contains
<1>6. Unique(r)
  BY <1>1, <1>4 DEF Unique
<1> QED BY <1>4, <1>5, <1>6 DEF r

(* The wrong rollback leaves a list without repetitions, too.              *)
LEMMA TailOfAppend ==
  ASSUME NEW S, NEW s \in Seq(S), NEW y \in S, Unique(s), ~Contains(s, y)
  PROVE  /\ Tail(Append(s, y)) \in Seq(S) /\ Unique(Tail(Append(s, y)))
         /\ s = <<>> => Tail(Append(s, y)) = <<>>
<1> DEFINE a == Append(s, y)
<1>1. a \in Seq(S) /\ Unique(a) /\ a # <<>> /\ Len(a) = Len(s) + 1
  BY AppendLists, AppendProperties
<1> HIDE DEF a
<1>2. /\ Tail(a) \in Seq(S) /\ Len(Tail(a)) = Len(a) - 1
      /\ \A i \in 1 .. Len(Tail(a)) : Tail(a)[i] = a[i + 1]
  BY <1>1, HeadTailProperties
<1>3. DOMAIN a = 1 .. Len(a) /\ DOMAIN Tail(a) = 1 .. Len(Tail(a)) /\ Len(a) \in Nat
  BY <1>1, <1>2, LenProperties
<1>4. Unique(Tail(a))
  BY <1>1, <1>2, <1>3 DEF Unique
<1>5. ASSUME s = <<>> PROVE Tail(a) = <<>>
  <2>1. Len(s) = 0
    BY <1>5, EmptySeq
  <2>2. Len(Tail(a)) = 0 /\ Tail(a) \in Seq(S)
    BY <1>1, <1>2, <2>1
  <2> QED BY <2>2, EmptySeq
<1> QED BY <1>2, <1>4, <1>5 DEF a

-----------------------------------------------------------------------------
(* The inductive invariant. Beside the properties it says that a socket's  *)
(* two pointers agree and its connection points back, that an adapter      *)
(* connection lists nothing but its socket, and that inputs that read a    *)
(* connection without a type have none themselves.                         *)
SocketsAgree ==
  \A s \in Socket :
    peer[s] = conn[s] /\ (conn[s] # None => socketOf[conn[s]] = s)

OneSocket ==
  \A p \in Plug :
    /\ \A s, t \in Port : Listed(p, s) /\ Listed(p, t) => s = t
    /\ socketOf[p] # None => Listed(p, socketOf[p])

InputsUntyped ==
  \A i \in Input : source[i] # None =>
    /\ Owner[i] \in alive
    /\ valueType[source[i]] = "ANY" => inputType[i] = "ANY"

Inv ==
  /\ TypeOK
  /\ PointersAreGranted /\ GrantedIsConnected /\ ReadsConverted
  /\ SocketsAgree /\ OneSocket /\ InputsUntyped

DestinationsOK ==
  /\ destinations \in [Source -> Seq(Port)]
  /\ \A x \in Source : Unique(destinations[x])

LEMMA TypeGivesDestinations == TypeOK => DestinationsOK
BY DEF TypeOK, DestinationsOK, Unique

LEMMA Kinds ==
  /\ None \notin Port /\ None \notin Source /\ None \notin Input /\ None \notin Socket
  /\ Source \subseteq Port /\ Input \subseteq Port /\ Socket \subseteq Port
  /\ \A x \in EventOutput : x \in Source /\ x \notin Output /\ x \notin Plug
  /\ \A x \in Output : x \in Source /\ x \notin Plug
  /\ \A x \in Plug : x \in Source /\ x \notin Socket
  /\ \A y \in EventInput : y \in Port /\ y \notin Input /\ y \notin Socket
  /\ \A y \in Input : y \notin Socket
BY PortAssumption DEF Source, Port

(* What happens to the lists, said without sequences.                      *)
LEMMA AddStep ==
  ASSUME TypeOK, NEW x \in Source, NEW y \in Port, ~Listed(x, y),
         destinations' = [destinations EXCEPT ![x] = Added(x, y)]
  PROVE  /\ DestinationsOK'
         /\ \A w \in Source : \A z :
              Listed(w, z)' <=> Listed(w, z) \/ (w = x /\ z = y)
<1>0. DestinationsOK
  BY TypeGivesDestinations
<1>1. /\ Append(destinations[x], y) \in Seq(Port) /\ Unique(Append(destinations[x], y))
      /\ \A z : Contains(Append(destinations[x], y), z) <=> Contains(destinations[x], z) \/ z = y
  BY <1>0, AppendLists DEF DestinationsOK, Listed
<1>2. /\ destinations'[x] = Append(destinations[x], y)
      /\ \A w \in Source : w # x => destinations'[w] = destinations[w]
      /\ destinations' \in [Source -> Seq(Port)]
  BY <1>0, <1>1 DEF DestinationsOK, Added
<1>3. DestinationsOK'
  BY <1>0, <1>1, <1>2 DEF DestinationsOK
<1>4. \A w \in Source : \A z : Listed(w, z)' <=> Listed(w, z) \/ (w = x /\ z = y)
  BY <1>1, <1>2 DEF Listed
<1> QED BY <1>3, <1>4

LEMMA RemoveStep ==
  ASSUME TypeOK, NEW x \in Source, NEW y \in Port, Listed(x, y),
         destinations' = [destinations EXCEPT ![x] = Removed(x, y)]
  PROVE  /\ DestinationsOK'
         /\ \A w \in Source : \A z :
              Listed(w, z)' <=> Listed(w, z) /\ ~(w = x /\ z = y)
<1>0. DestinationsOK
  BY TypeGivesDestinations
<1>1. PICK k \in DOMAIN destinations[x] :
        destinations[x][k] = y /\ Removed(x, y) = RemoveAt(destinations[x], k)
  <2>1. \E k \in DOMAIN destinations[x] : destinations[x][k] = y
    BY <1>0, LenProperties DEF Listed, Contains, DestinationsOK
  <2> QED BY <2>1 DEF Removed
<1>2. /\ RemoveAt(destinations[x], k) \in Seq(Port) /\ Unique(RemoveAt(destinations[x], k))
      /\ \A z : Contains(RemoveAt(destinations[x], k), z) <=> Contains(destinations[x], z) /\ z # y
  BY <1>0, <1>1, RemoveUnlists DEF DestinationsOK
<1>3. /\ destinations'[x] = RemoveAt(destinations[x], k)
      /\ \A w \in Source : w # x => destinations'[w] = destinations[w]
      /\ destinations' \in [Source -> Seq(Port)]
  BY <1>0, <1>1, <1>2 DEF DestinationsOK
<1>4. DestinationsOK'
  BY <1>0, <1>2, <1>3 DEF DestinationsOK
<1>5. \A w \in Source : \A z : Listed(w, z)' <=> Listed(w, z) /\ ~(w = x /\ z = y)
  BY <1>2, <1>3 DEF Listed
<1> QED BY <1>4, <1>5

LEMMA RollbackStep ==
  ASSUME TypeOK, NEW x \in Source, NEW y \in Port, ~Listed(x, y),
         destinations' = [destinations EXCEPT ![x] = Tail(Added(x, y))]
  PROVE  /\ DestinationsOK'
         /\ \A w \in Source \ {x} : \A z : Listed(w, z)' <=> Listed(w, z)
         /\ destinations[x] = <<>> =>
              \A w \in Source : \A z : Listed(w, z)' <=> Listed(w, z)
<1>0. DestinationsOK
  BY TypeGivesDestinations
<1>1. /\ Tail(Append(destinations[x], y)) \in Seq(Port)
      /\ Unique(Tail(Append(destinations[x], y)))
      /\ destinations[x] = <<>> => Tail(Append(destinations[x], y)) = <<>>
  BY <1>0, TailOfAppend DEF DestinationsOK, Listed
<1>2. /\ destinations'[x] = Tail(Append(destinations[x], y))
      /\ \A w \in Source : w # x => destinations'[w] = destinations[w]
      /\ destinations' \in [Source -> Seq(Port)]
  BY <1>0, <1>1 DEF DestinationsOK, Added
<1>3. DestinationsOK'
  BY <1>0, <1>1, <1>2 DEF DestinationsOK
<1>4. /\ \A w \in Source \ {x} : \A z : Listed(w, z)' <=> Listed(w, z)
      /\ destinations[x] = <<>> => destinations'[x] = destinations[x]
  BY <1>1, <1>2 DEF Listed
<1> QED BY <1>2, <1>3, <1>4 DEF Listed

LEMMA EmptyListsNothing ==
  ASSUME NEW x, destinations[x] = <<>>, NEW z PROVE ~Listed(x, z)
BY EmptySeq DEF Listed, Contains

LEMMA DeleteStep ==
  ASSUME TypeOK, NEW b,
         destinations' = [x \in Source |-> IF Owner[x] = b THEN <<>> ELSE destinations[x]]
  PROVE  /\ DestinationsOK'
         /\ \A w \in Source : \A z : Listed(w, z)' <=> Listed(w, z) /\ Owner[w] # b
<1>0. DestinationsOK
  BY TypeGivesDestinations
<1>1. <<>> \in Seq(Port) /\ Len(<<>>) = 0 /\ DOMAIN <<>> = {}
  BY EmptySeq
<1>2. DestinationsOK'
  BY <1>0, <1>1 DEF DestinationsOK, Unique
<1>3. ASSUME NEW w \in Source, NEW z
      PROVE  Listed(w, z)' <=> Listed(w, z) /\ Owner[w] # b
  BY <1>1 DEF Listed, Contains
<1> QED BY <1>2, <1>3

-----------------------------------------------------------------------------
(* Every command preserves the invariant. *)

LEMMA EventStep ==
  ASSUME Inv, NEW x \in EventOutput, NEW y \in EventInput,
         ConnectEvent(x, y) \/ DisconnectEvent(x, y)
  PROVE  Inv'
<1> USE DEF dataVars, adapterVars
<1>0. TypeOK
  BY DEF Inv
<1>1. /\ UNCHANGED <<plan, alive, source, valueType, inputType, special,
                      peer, conn, socketOf, faults>>
      /\ <<x, y>> \in plan
      /\ x \in Source /\ y \in Port /\ x \notin Output \cup Plug
      /\ y \notin Input \cup Socket /\ y # None
  BY Kinds DEF ConnectEvent, DisconnectEvent, Named
<1>2. /\ DestinationsOK'
      /\ \A w \in Source : \A z : <<w, z>> # <<x, y>> => (Listed(w, z)' <=> Listed(w, z))
      /\ \/ granted' = granted \cup {<<x, y>>} /\ Listed(x, y)'
         \/ granted' = granted \ {<<x, y>>} /\ ~Listed(x, y)'
  <2>1. CASE ConnectEvent(x, y)
    <3>1. /\ DestinationsOK'
          /\ \A w \in Source : \A z : Listed(w, z)' <=> Listed(w, z) \/ (w = x /\ z = y)
      BY <1>0, <1>1, <2>1, AddStep DEF ConnectEvent
    <3>2. granted' = granted \cup {<<x, y>>}
      BY <2>1 DEF ConnectEvent, Grant
    <3>3. \A w, z : <<w, z>> # <<x, y>> => ~(w = x /\ z = y)
      OBVIOUS
    <3>4. Listed(x, y)'
      BY <1>1, <3>1
    <3> QED BY <3>1, <3>2, <3>3, <3>4
  <2>2. CASE DisconnectEvent(x, y)
    <3>1. /\ DestinationsOK'
          /\ \A w \in Source : \A z : Listed(w, z)' <=> Listed(w, z) /\ ~(w = x /\ z = y)
      BY <1>0, <1>1, <2>2, RemoveStep DEF DisconnectEvent
    <3>2. granted' = granted \ {<<x, y>>}
      BY <2>2 DEF DisconnectEvent, Revoke
    <3>3. \A w, z : <<w, z>> # <<x, y>> => ~(w = x /\ z = y)
      OBVIOUS
    <3>4. ~Listed(x, y)'
      BY <1>1, <3>1
    <3> QED BY <3>1, <3>2, <3>3, <3>4
  <2> QED BY <2>1, <2>2
<1>3. TypeOK'
  BY <1>0, <1>1, <1>2 DEF TypeOK, DestinationsOK, Unique
<1>4. NoRollback' <=> NoRollback
  BY <1>1 DEF NoRollback
<1>5. PointersAreGranted'
  BY <1>0, <1>1, <1>2, <1>4, Kinds DEF Inv, PointersAreGranted, PointsTo, PointsBack, TypeOK
<1>6. GrantedIsConnected'
  BY <1>0, <1>1, <1>2, <1>4, Kinds DEF Inv, GrantedIsConnected
<1>7. ReadsConverted'
  BY <1>1, <1>4 DEF Inv, ReadsConverted
<1>8. SocketsAgree' /\ InputsUntyped'
  BY <1>1 DEF Inv, SocketsAgree, InputsUntyped
<1>9. OneSocket'
  BY <1>1, <1>2, Kinds DEF Inv, OneSocket
<1> QED BY <1>3, <1>5, <1>6, <1>7, <1>8, <1>9 DEF Inv

LEMMA ConnectAdapterStep ==
  ASSUME Inv, NEW p \in Plug, NEW s \in Socket, ConnectAdapter(p, s)
  PROVE  Inv'
<1> USE DEF dataVars, adapterVars
<1>0. TypeOK /\ SocketsAgree /\ OneSocket
  BY DEF Inv
<1>1. /\ UNCHANGED <<plan, alive, source, valueType, inputType, special, faults>>
      /\ <<p, s>> \in plan
      /\ peer' = [peer EXCEPT ![p] = s, ![s] = p]
      /\ conn' = [conn EXCEPT ![s] = p]
      /\ socketOf' = [socketOf EXCEPT ![p] = s]
      /\ granted' = granted \cup {<<p, s>>}
      /\ peer[p] = None /\ peer[s] = None
      /\ \A z : ~Listed(p, z)
  BY EmptyListsNothing DEF ConnectAdapter, Named, Grant
<1>2. /\ DestinationsOK'
      /\ \A w \in Source : \A z : Listed(w, z)' <=> Listed(w, z) \/ (w = p /\ z = s)
  BY <1>0, <1>1, Kinds, AddStep DEF ConnectAdapter
<1>3. /\ peer \in [Plug \cup Socket -> Plug \cup Socket \cup {None}]
      /\ conn \in [Socket -> Plug \cup {None}] /\ socketOf \in [Plug -> Socket \cup {None}]
      /\ p \notin Socket /\ s \notin Plug /\ p # None /\ s # None
  BY <1>0, Kinds DEF TypeOK
<1>4. /\ peer'[p] = s /\ peer'[s] = p /\ conn'[s] = p /\ socketOf'[p] = s
      /\ \A z \in Plug \cup Socket : z \notin {p, s} => peer'[z] = peer[z]
      /\ \A z \in Socket : z # s => conn'[z] = conn[z]
      /\ \A z \in Plug : z # p => socketOf'[z] = socketOf[z]
      /\ peer' \in [Plug \cup Socket -> Plug \cup Socket \cup {None}]
      /\ conn' \in [Socket -> Plug \cup {None}] /\ socketOf' \in [Plug -> Socket \cup {None}]
  BY <1>1, <1>3
<1>5. conn[s] = None /\ socketOf[p] = None /\ \A z \in Socket : conn[z] # p
  BY <1>0, <1>1, <1>3, Kinds DEF SocketsAgree, OneSocket
<1>6. TypeOK'
  BY <1>0, <1>1, <1>2, <1>4 DEF TypeOK, DestinationsOK, Unique
<1>7. NoRollback' <=> NoRollback
  BY <1>1 DEF NoRollback
<1>8. PointersAreGranted'
  <2> SUFFICES ASSUME NEW w \in Source, NEW z \in Port, (PointsTo(w, z) \/ PointsBack(w, z))',
                      w \in Output => NoRollback
               PROVE  <<w, z>> \in granted'
    BY <1>7 DEF PointersAreGranted
  <2>1. <<w, z>> = <<p, s>> \/ PointsTo(w, z) \/ PointsBack(w, z)
    BY <1>1, <1>2, <1>3, <1>4, Kinds DEF PointsTo, PointsBack
  <2> QED BY <2>1, <1>1 DEF Inv, PointersAreGranted
<1>9. GrantedIsConnected'
  <2> SUFFICES ASSUME NEW w \in Source, NEW z \in Port, <<w, z>> \in granted',
                      {Owner[w], Owner[z]} \subseteq alive, w \in Output => NoRollback
               PROVE  /\ Listed(w, z)'
                      /\ w \in Output => source'[z] = w
                      /\ w \in Plug => /\ peer'[w] = z /\ socketOf'[w] = z
                                       /\ (peer'[z] = w /\ conn'[z] = w) \/ <<"cut", w>> \in faults'
    BY <1>1, <1>7 DEF GrantedIsConnected
  <2>1. CASE <<w, z>> = <<p, s>>
    BY <2>1, <1>2, <1>4, Kinds
  <2>2. CASE <<w, z>> \in granted
    <3>1. /\ Listed(w, z)
          /\ w \in Output => source[z] = w
          /\ w \in Plug => /\ peer[w] = z /\ socketOf[w] = z
                           /\ (peer[z] = w /\ conn[z] = w) \/ <<"cut", w>> \in faults
      BY <2>2 DEF Inv, GrantedIsConnected
    <3>2. w # p
      BY <3>1, <1>1
    <3>3. w \in Plug => z \in Socket
      BY <3>1, <1>0, <1>3, Kinds DEF TypeOK
    <3>4. peer[s] # w
      BY <1>1, Kinds
    <3> QED BY <3>1, <3>2, <3>3, <3>4, <1>1, <1>2, <1>3, <1>4
  <2> QED BY <2>1, <2>2, <1>1
<1>10. ReadsConverted'
  BY <1>1, <1>7 DEF Inv, ReadsConverted
<1>11. SocketsAgree' /\ InputsUntyped'
  <2>1. SocketsAgree'
    BY <1>0, <1>3, <1>4, <1>5 DEF SocketsAgree
  <2>2. InputsUntyped'
    BY <1>1 DEF Inv, InputsUntyped
  <2> QED BY <2>1, <2>2
<1>12. OneSocket'
  BY <1>0, <1>1, <1>2, <1>4, Kinds DEF OneSocket
<1> QED BY <1>6, <1>8, <1>9, <1>10, <1>11, <1>12 DEF Inv

LEMMA RefuseAdapterStep ==
  ASSUME Inv, NEW p \in Plug, NEW s \in Socket, RefuseAdapter(p, s)
  PROVE  Inv'
<1> USE DEF dataVars, adapterVars
<1>0. TypeOK /\ SocketsAgree /\ OneSocket
  BY DEF Inv
<1>1. /\ UNCHANGED <<plan, alive, destinations, source, valueType, inputType, special,
                      socketOf, granted>>
      /\ peer' = [peer EXCEPT ![p] = None, ![s] = None]
      /\ conn' = [conn EXCEPT ![s] = None]
      /\ \A z : ~Listed(p, z)
  BY EmptyListsNothing DEF RefuseAdapter
<1>2. /\ peer \in [Plug \cup Socket -> Plug \cup Socket \cup {None}]
      /\ conn \in [Socket -> Plug \cup {None}] /\ socketOf \in [Plug -> Socket \cup {None}]
      /\ p \notin Socket /\ s \notin Plug /\ p # None /\ s # None
  BY <1>0, Kinds DEF TypeOK
<1>3. /\ peer'[p] = None /\ peer'[s] = None /\ conn'[s] = None
      /\ \A z \in Plug \cup Socket : z \notin {p, s} => peer'[z] = peer[z]
      /\ \A z \in Socket : z # s => conn'[z] = conn[z]
      /\ peer' \in [Plug \cup Socket -> Plug \cup Socket \cup {None}]
      /\ conn' \in [Socket -> Plug \cup {None}]
  BY <1>1, <1>2
<1>4. /\ faults \subseteq faults'
      /\ peer[s] # None => <<"cut", peer[s]>> \in faults'
      /\ \A o \in Output : <<"rolledBack", o>> \in faults' <=> <<"rolledBack", o>> \in faults
      /\ peer[s] \in Plug \cup {None}
      /\ faults' \subseteq faults \cup {<<"cut", w>> : w \in Plug}
  <2>1. peer[s] \in Plug \cup {None}
    BY <1>0, <1>2 DEF SocketsAgree
  <2>2. CASE peer[s] = None
    BY <2>1, <2>2 DEF RefuseAdapter
  <2>3. CASE peer[s] # None
    <3>1. faults' = faults \cup {<<"cut", peer[s]>>}
      BY <2>3 DEF RefuseAdapter
    <3> QED BY <2>1, <2>3, <3>1
  <2> QED BY <2>2, <2>3
<1>5. TypeOK'
  <2>1. faults' \subseteq {"uncast", "rolledBack", "cut", "undefined"} \X (Source \cup {None})
    BY <1>0, <1>4, Kinds DEF TypeOK
  <2> QED BY <2>1, <1>0, <1>1, <1>3 DEF TypeOK
<1>6. NoRollback' <=> NoRollback
  BY <1>4 DEF NoRollback
<1>7. PointersAreGranted'
  <2> SUFFICES ASSUME NEW w \in Source, NEW z \in Port, (PointsTo(w, z) \/ PointsBack(w, z))',
                      w \in Output => NoRollback
               PROVE  <<w, z>> \in granted'
    BY <1>6 DEF PointersAreGranted
  <2>1. PointsTo(w, z) \/ PointsBack(w, z)
    BY <1>1, <1>2, <1>3, Kinds DEF PointsTo, PointsBack, Listed
  <2> QED BY <2>1, <1>1 DEF Inv, PointersAreGranted
<1>8. GrantedIsConnected'
  <2> SUFFICES ASSUME NEW w \in Source, NEW z \in Port, <<w, z>> \in granted,
                      {Owner[w], Owner[z]} \subseteq alive, w \in Output => NoRollback
               PROVE  /\ Listed(w, z)'
                      /\ w \in Output => source'[z] = w
                      /\ w \in Plug => /\ peer'[w] = z /\ socketOf'[w] = z
                                       /\ (peer'[z] = w /\ conn'[z] = w) \/ <<"cut", w>> \in faults'
    BY <1>1, <1>6 DEF GrantedIsConnected
  <2>1. /\ Listed(w, z)
        /\ w \in Output => source[z] = w
        /\ w \in Plug => /\ peer[w] = z /\ socketOf[w] = z
                         /\ (peer[z] = w /\ conn[z] = w) \/ <<"cut", w>> \in faults
    BY DEF Inv, GrantedIsConnected
  <2>2. w # p
    BY <2>1, <1>1
  <2>3. w \in Plug => z \in Socket
    BY <2>1, <1>2, Kinds
  <2>4. Listed(w, z)' <=> Listed(w, z)
    BY <1>1 DEF Listed
  <2>5. CASE z = s
    BY <2>1, <2>2, <2>3, <2>4, <2>5, <1>1, <1>2, <1>3, <1>4, Kinds
  <2>6. CASE z # s
    BY <2>1, <2>2, <2>3, <2>4, <2>6, <1>1, <1>2, <1>3, <1>4, Kinds
  <2> QED BY <2>5, <2>6
<1>9. ReadsConverted'
  BY <1>1, <1>4, <1>6 DEF Inv, ReadsConverted
<1>10. SocketsAgree'
  BY <1>0, <1>1, <1>2, <1>3 DEF SocketsAgree
<1>11. InputsUntyped' /\ OneSocket'
  BY <1>1 DEF Inv, InputsUntyped, OneSocket, Listed
<1> QED BY <1>5, <1>7, <1>8, <1>9, <1>10, <1>11 DEF Inv

LEMMA DisconnectAdapterStep ==
  ASSUME Inv, NEW p \in Plug, NEW s \in Socket, DisconnectAdapter(p, s)
  PROVE  Inv'
<1> USE DEF dataVars, adapterVars
<1>0. TypeOK /\ SocketsAgree /\ OneSocket
  BY DEF Inv
<1>1. /\ UNCHANGED <<plan, alive, source, valueType, inputType, special>>
      /\ <<p, s>> \in plan /\ Listed(p, s)
      /\ peer' = [x \in Plug \cup Socket |->
                    IF x \in {p} \cup Released({p}) THEN None ELSE peer[x]]
      /\ conn' = [x \in Socket |-> IF x \in Released({p}) THEN None ELSE conn[x]]
      /\ socketOf' = [socketOf EXCEPT ![p] = None]
      /\ granted' = granted \ {<<p, s>>}
      /\ faults' = faults \ {<<"cut", p>>}
  BY DEF DisconnectAdapter, Named, Revoke
<1>2. /\ DestinationsOK'
      /\ \A w \in Source : \A z : Listed(w, z)' <=> Listed(w, z) /\ ~(w = p /\ z = s)
  BY <1>0, <1>1, Kinds, RemoveStep DEF DisconnectAdapter
<1>3. /\ peer \in [Plug \cup Socket -> Plug \cup Socket \cup {None}]
      /\ conn \in [Socket -> Plug \cup {None}] /\ socketOf \in [Plug -> Socket \cup {None}]
      /\ p \notin Socket /\ s \notin Plug /\ p # None /\ s # None
  BY <1>0, Kinds DEF TypeOK
(* the socket that is released is the one that points to this connection   *)
<1>4. \A x \in Socket : x \in Released({p}) <=> conn[x] = p
  BY <1>0, <1>3 DEF Released, SocketsAgree
<1>5. /\ peer'[p] = None /\ socketOf'[p] = None
      /\ \A z \in Plug : z # p => peer'[z] = peer[z] /\ socketOf'[z] = socketOf[z]
      /\ \A z \in Socket : conn[z] = p => conn'[z] = None /\ peer'[z] = None
      /\ \A z \in Socket : conn[z] # p => conn'[z] = conn[z] /\ peer'[z] = peer[z]
      /\ peer' \in [Plug \cup Socket -> Plug \cup Socket \cup {None}]
      /\ conn' \in [Socket -> Plug \cup {None}] /\ socketOf' \in [Plug -> Socket \cup {None}]
  <2>1. Released({p}) \subseteq Socket
    BY DEF Released
  <2>2. \A z \in Plug : z \notin Released({p})
    BY <2>1, Kinds
  <2> HIDE DEF Released
  <2> QED BY <1>1, <1>3, <1>4, <2>2
<1>6. TypeOK'
  BY <1>0, <1>1, <1>2, <1>5 DEF TypeOK, DestinationsOK, Unique
<1>7. NoRollback' <=> NoRollback
  BY <1>1 DEF NoRollback
<1>8. PointersAreGranted'
  <2> SUFFICES ASSUME NEW w \in Source, NEW z \in Port, (PointsTo(w, z) \/ PointsBack(w, z))',
                      w \in Output => NoRollback
               PROVE  <<w, z>> \in granted'
    BY <1>7 DEF PointersAreGranted
  <2>1. PointsTo(w, z) \/ PointsBack(w, z)
    BY <1>1, <1>2, <1>3, <1>5, Kinds DEF PointsTo, PointsBack
  <2>2. <<w, z>> \in granted
    BY <2>1 DEF Inv, PointersAreGranted
  <2>3. <<w, z>> # <<p, s>>
    <3> SUFFICES ASSUME w = p, z = s PROVE FALSE
      OBVIOUS
    <3>1. ~PointsTo(p, s)'
      BY <1>2, <1>3, <1>5, Kinds DEF PointsTo
    <3>2. peer'[s] # p /\ conn'[s] # p
      BY <1>0, <1>3, <1>5 DEF SocketsAgree
    <3>3. ~PointsBack(p, s)'
      BY <3>2, Kinds DEF PointsBack
    <3> QED BY <3>1, <3>3
  <2> QED BY <2>2, <2>3, <1>1
<1>9. GrantedIsConnected'
  <2> SUFFICES ASSUME NEW w \in Source, NEW z \in Port, <<w, z>> \in granted',
                      {Owner[w], Owner[z]} \subseteq alive, w \in Output => NoRollback
               PROVE  /\ Listed(w, z)'
                      /\ w \in Output => source'[z] = w
                      /\ w \in Plug => /\ peer'[w] = z /\ socketOf'[w] = z
                                       /\ (peer'[z] = w /\ conn'[z] = w) \/ <<"cut", w>> \in faults'
    BY <1>1, <1>7 DEF GrantedIsConnected
  <2>1. /\ Listed(w, z)
        /\ w \in Output => source[z] = w
        /\ w \in Plug => /\ peer[w] = z /\ socketOf[w] = z
                         /\ (peer[z] = w /\ conn[z] = w) \/ <<"cut", w>> \in faults
    BY <1>1 DEF Inv, GrantedIsConnected
  <2>2. w # p
    BY <2>1, <1>0, <1>1, Kinds DEF OneSocket
  <2>3. w \in Plug => z \in Socket
    BY <2>1, <1>3, Kinds
  <2>4. Listed(w, z)'
    BY <2>1, <2>2, <1>2
  <2>5. <<"cut", w>> \in faults => <<"cut", w>> \in faults'
    BY <2>2, <1>1
  <2>6. CASE w \notin Plug
    BY <2>1, <2>4, <2>6, <1>1
  <2>7. CASE w \in Plug
    <3>1. peer'[w] = z /\ socketOf'[w] = z
      BY <2>1, <2>2, <2>7, <1>5
    <3>2. peer[z] = w /\ conn[z] = w => peer'[z] = w /\ conn'[z] = w
      BY <2>2, <2>3, <2>7, <1>5
    <3> QED BY <2>1, <2>4, <2>5, <2>7, <3>1, <3>2, Kinds
  <2> QED BY <2>6, <2>7
<1>10. ReadsConverted'
  BY <1>1, <1>7, Kinds DEF Inv, ReadsConverted
<1>11. SocketsAgree'
  BY <1>0, <1>3, <1>5 DEF SocketsAgree
<1>12. InputsUntyped'
  BY <1>1 DEF Inv, InputsUntyped
<1>13. OneSocket'
  BY <1>0, <1>1, <1>2, <1>3, <1>5, Kinds DEF OneSocket
<1> QED BY <1>6, <1>8, <1>9, <1>10, <1>11, <1>12, <1>13 DEF Inv

LEMMA HandedOnAre ==
  ASSUME TypeOK, NEW o \in Output, NEW i
  PROVE  \A d : d \in HandedOn(o, i) <=>
           Listed(o, d) /\ valueType[o] = "ANY" /\ inputType[i] # "ANY"
<1>1. Len(destinations[o]) \in Nat /\ DOMAIN destinations[o] = 1 .. Len(destinations[o])
  BY TypeGivesDestinations, Kinds, LenProperties DEF DestinationsOK
<1>2. \A d : d \in ToSet(destinations[o]) <=> Listed(o, d)
  BY <1>1 DEF ToSet, Listed, Contains
<1> QED BY <1>2 DEF HandedOn

(* What configuring the types for a command on o and i leaves behind: ds   *)
(* are the inputs connectDI() is called for.                               *)
LEMMA ConfigureStep ==
  ASSUME Inv, NEW o \in Output, NEW i \in Input, NEW ds,
         Named(o, i), Connectable(o, i), Configurable(o, i),
         Configure(o, i), ConnectDI(ds, o, TypeAfter(o, i)),
         ds = HandedOn(o, i) \/ (ds = HandedOn(o, i) \cup {i} /\ Accepts(i, o))
  PROVE  /\ source' \in [Input -> Output \cup {None}]
         /\ valueType' \in [Output -> DataType] /\ inputType' \in [Input -> DataType]
         /\ special' \in [Output -> BOOLEAN]
         /\ \A d \in Input : source'[d] # source[d] =>
              source[d] = None /\ source'[d] = o /\ (d = i \/ Listed(o, d))
         /\ i \in ds /\ Accepts(i, o) => source'[i] = o
         /\ \A d \in Input : source'[d] # None =>
              /\ Owner[d] \in alive
              /\ valueType'[source'[d]] = "ANY" => inputType'[d] = "ANY"
         /\ NoRollback => \A d \in Input : source'[d] # None =>
              /\ valueType'[source'[d]] # "ANY" =>
                   /\ inputType'[d] # "ANY"
                   /\ Castable(valueType'[source'[d]], inputType'[d])
              /\ valueType'[source'[d]] \in Float \ {inputType'[d]} =>
                   \/ special'[source'[d]]
                   \/ /\ <<"uncast", source'[d]>> \in faults
                      /\ source'[d] = o => ~SpecialAfter(o, i)
<1>0. /\ TypeOK /\ PointersAreGranted /\ GrantedIsConnected /\ ReadsConverted /\ InputsUntyped
      /\ source \in [Input -> Output \cup {None}]
      /\ valueType \in [Output -> DataType] /\ inputType \in [Input -> DataType]
      /\ special \in [Output -> BOOLEAN]
      /\ o # None /\ o \in Source /\ i \in Port
      /\ Owner[o] \in alive /\ Owner[i] \in alive
  BY Kinds DEF Inv, TypeOK, Named
<1>1. \A d \in HandedOn(o, i) :
        /\ Listed(o, d) /\ Owner[d] \in alive
        /\ valueType[o] = "ANY" /\ inputType[i] # "ANY"
  BY <1>0, HandedOnAre DEF Configurable
<1>2. TypeAfter(o, i) \in DataType
  BY <1>0 DEF TypeAfter
<1>3. SpecialAfter(o, i) \in BOOLEAN
  <2>1. special[o] \in BOOLEAN
    BY <1>0
  <2> QED BY <2>1 DEF SpecialAfter, Castable
<1>4. /\ valueType' \in [Output -> DataType] /\ special' \in [Output -> BOOLEAN]
      /\ valueType'[o] = TypeAfter(o, i) /\ special'[o] = SpecialAfter(o, i)
      /\ \A x \in Output : x # o => valueType'[x] = valueType[x] /\ special'[x] = special[x]
  BY <1>0, <1>2, <1>3 DEF Configure
<1>5. /\ source' \in [Input -> Output \cup {None}] /\ inputType' \in [Input -> DataType]
      /\ \A d \in Input : d \in ds /\ source[d] \in {None, o} =>
           /\ source'[d] = o
           /\ inputType'[d] = IF inputType[d] = "ANY" THEN TypeAfter(o, i) ELSE inputType[d]
      /\ \A d \in Input : ~(d \in ds /\ source[d] \in {None, o}) =>
           source'[d] = source[d] /\ inputType'[d] = inputType[d]
  <2> DEFINE taken == {d \in ds : Accepts(d, o)}
  <2>1. \A d \in Input : d \in taken <=> d \in ds /\ source[d] \in {None, o}
    BY DEF Accepts
  <2>2. /\ source' = [d \in Input |-> IF d \in taken THEN o ELSE source[d]]
        /\ inputType' = [d \in Input |-> IF d \in taken /\ inputType[d] = "ANY"
                                          THEN TypeAfter(o, i) ELSE inputType[d]]
    BY DEF ConnectDI
  <2> HIDE DEF taken
  <2> QED BY <1>0, <1>2, <2>1, <2>2
<1>6. \A d \in Input : d \in ds => d = i \/ Listed(o, d)
  BY <1>1
<1>7. \A d \in Input : source'[d] # source[d] =>
        source[d] = None /\ source'[d] = o /\ (d = i \/ Listed(o, d))
  BY <1>5, <1>6
<1>8. i \in ds /\ Accepts(i, o) => source'[i] = o
  BY <1>5 DEF Accepts
<1>9. ASSUME NEW d \in Input, source'[d] # None
      PROVE  /\ Owner[d] \in alive
             /\ valueType'[source'[d]] = "ANY" => inputType'[d] = "ANY"
  <2>1. Owner[d] \in alive
    BY <1>0, <1>1, <1>5, <1>9 DEF InputsUntyped
  <2>2. CASE source'[d] # o
    BY <1>0, <1>4, <1>5, <1>9, <2>1, <2>2 DEF InputsUntyped
  <2>3. CASE source'[d] = o /\ valueType'[o] = "ANY"
    <3>1. valueType[o] = "ANY" /\ inputType[i] = "ANY" /\ TypeAfter(o, i) = "ANY"
      BY <1>4, <2>3 DEF TypeAfter
    <3>2. d \in ds => d = i
      BY <1>1, <3>1
    <3>3. inputType[d] = "ANY"
      BY <1>0, <1>5, <2>3, <3>1, <3>2 DEF InputsUntyped
    <3> QED BY <1>5, <2>1, <3>1, <3>3
  <2> QED BY <2>1, <2>2, <2>3
<1>10. ASSUME NoRollback, NEW d \in Input, source'[d] # None
       PROVE  /\ valueType'[source'[d]] # "ANY" =>
                   /\ inputType'[d] # "ANY"
                   /\ Castable(valueType'[source'[d]], inputType'[d])
              /\ valueType'[source'[d]] \in Float \ {inputType'[d]} =>
                   \/ special'[source'[d]]
                   \/ /\ <<"uncast", source'[d]>> \in faults
                      /\ source'[d] = o => ~SpecialAfter(o, i)
  <2>0. source[d] # None =>
          /\ valueType[source[d]] # "ANY" =>
               inputType[d] # "ANY" /\ Castable(valueType[source[d]], inputType[d])
          /\ valueType[source[d]] \in Float \ {inputType[d]} =>
               special[source[d]] \/ <<"uncast", source[d]>> \in faults
    BY <1>0, <1>10 DEF ReadsConverted
  <2>1. CASE source'[d] # o
    BY <1>0, <1>4, <1>5, <1>10, <2>0, <2>1
  <2>2. CASE source'[d] = o /\ valueType[o] = "ANY" /\ inputType[i] = "ANY"
    BY <1>4, <2>2 DEF TypeAfter, Float
  <2>3. CASE source'[d] = o /\ valueType[o] = "ANY" /\ inputType[i] # "ANY"
    <3>1. TypeAfter(o, i) = inputType[i]
      BY <2>3 DEF TypeAfter
    <3>2. ASSUME source[d] = o PROVE d \in ds /\ inputType[d] = "ANY"
      <4>1. <<o, d>> \in granted /\ Owner[d] \in alive /\ inputType[d] = "ANY"
        BY <1>0, <1>10, <2>3, <3>2, Kinds DEF PointersAreGranted, PointsBack, InputsUntyped
      <4>2. d \in Port /\ o \in Source /\ {Owner[o], Owner[d]} \subseteq alive
        BY <1>0, <4>1, Kinds
      <4>3. Listed(o, d)
        BY <1>0, <1>10, <4>1, <4>2 DEF GrantedIsConnected
      <4> QED BY <1>0, <2>3, <4>1, <4>3, HandedOnAre
    <3>3. ASSUME source[d] = None, d # i PROVE FALSE
      <4>1. Listed(o, d) /\ Owner[d] \in alive
        BY <1>0, <1>1, <1>5, <2>3, <3>3
      <4>2. <<o, d>> \in granted
        BY <1>0, <1>10, <4>1, Kinds DEF PointersAreGranted, PointsTo
      <4>3. d \in Port /\ o \in Source /\ {Owner[o], Owner[d]} \subseteq alive
        BY <1>0, <4>1, Kinds
      <4>4. source[d] = o
        BY <1>0, <1>10, <4>2, <4>3 DEF GrantedIsConnected
      <4> QED BY <1>0, <3>3, <4>4
    <3>4. inputType'[d] = inputType[i]
      BY <1>0, <1>5, <2>3, <3>1, <3>2, <3>3
    <3> QED BY <1>4, <2>3, <3>1, <3>4 DEF Castable
  <2>4. CASE source'[d] = o /\ valueType[o] # "ANY"
    <3>1. TypeAfter(o, i) = valueType[o] /\ valueType'[o] = valueType[o]
      BY <1>4, <2>4 DEF TypeAfter
    <3>2. d \in ds => d = i
      BY <1>1, <2>4
    <3>3. inputType[i] # "ANY" => Castable(valueType[o], inputType[i])
      BY <2>4 DEF Connectable
    <3>4. /\ inputType[i] # "ANY" /\ valueType[o] # inputType[i] /\ valueType[o] \in Float
             => SpecialAfter(o, i)
          /\ ~(inputType[i] # "ANY" /\ valueType[o] # inputType[i])
             => SpecialAfter(o, i) = special[o]
          /\ valueType[o] \in Float /\ special[o] => SpecialAfter(o, i)
      BY <2>4, <3>3 DEF SpecialAfter
    <3>5. CASE source[d] = o
      <4>1. /\ inputType[d] # "ANY" /\ inputType'[d] = inputType[d]
            /\ Castable(valueType[o], inputType[d])
        BY <1>0, <1>5, <2>0, <2>4, <3>5
      <4>2. valueType[o] \in Float \ {inputType[d]} => special[o] \/ <<"uncast", o>> \in faults
        BY <1>0, <2>0, <3>5
      <4> QED BY <1>4, <2>4, <3>1, <3>4, <4>1, <4>2
    <3>6. CASE source[d] # o
      <4>1. d = i /\ d \in ds /\ source[d] = None
        BY <1>5, <1>7, <2>4, <3>2, <3>6
      <4>2. inputType'[i] = IF inputType[i] = "ANY" THEN valueType[o] ELSE inputType[i]
        BY <1>5, <3>1, <4>1
      <4>3. CASE inputType[i] = "ANY"
        BY <2>4, <3>1, <4>1, <4>2, <4>3 DEF Castable
      <4>4. CASE inputType[i] # "ANY"
        BY <1>4, <2>4, <3>1, <3>3, <3>4, <4>1, <4>2, <4>4
      <4> QED BY <4>3, <4>4
    <3> QED BY <3>5, <3>6
  <2> QED BY <2>1, <2>2, <2>3, <2>4
<1> QED BY <1>4, <1>5, <1>7, <1>8, <1>9, <1>10

(* The commands that configure types leave all but data connections alone. *)
LEMMA AdaptersStand ==
  ASSUME Inv, UNCHANGED <<alive, peer, conn, socketOf>>,
         \A x \in Plug : \A z : Listed(x, z)' <=> Listed(x, z)
  PROVE  SocketsAgree' /\ OneSocket'
BY DEF Inv, SocketsAgree, OneSocket

LEMMA MendedFaults ==
  ASSUME NEW o, NEW i
  PROVE  /\ Mended(o, i) \subseteq faults
         /\ \A x : <<"cut", x>> \in Mended(o, i) <=> <<"cut", x>> \in faults
         /\ \A x : <<"rolledBack", x>> \in Mended(o, i) <=> <<"rolledBack", x>> \in faults
         /\ \A x : <<"uncast", x>> \in faults /\ <<"uncast", x>> \notin Mended(o, i)
              => x = o /\ SpecialAfter(o, i)
<1>1. CASE SpecialAfter(o, i)
  <2>1. Mended(o, i) = faults \ {<<"uncast", o>>}
    BY <1>1 DEF Mended
  <2> QED BY <1>1, <2>1
<1>2. CASE ~SpecialAfter(o, i)
  BY <1>2 DEF Mended
<1> QED BY <1>1, <1>2

LEMMA UncastableStep ==
  ASSUME Inv, NEW o \in Output, NEW i \in Input, RefuseUncastable(o, i)
  PROVE  Inv'
<1> USE DEF dataVars, adapterVars
<1>0. TypeOK
  BY DEF Inv
<1>1. /\ UNCHANGED <<plan, alive, destinations, source, inputType, peer, conn, socketOf, granted>>
      /\ ~Connectable(o, i) /\ Configure(o, i)
      /\ faults' = IF special[o] THEN faults \cup {<<"uncast", o>>} ELSE faults
  BY DEF RefuseUncastable
<1>2. /\ valueType \in [Output -> DataType] /\ special \in [Output -> BOOLEAN]
      /\ inputType[i] # "ANY" /\ valueType[o] # "ANY" /\ ~Castable(valueType[o], inputType[i])
      /\ valueType[o] # inputType[i]
  BY <1>0, <1>1 DEF TypeOK, Connectable, Castable
<1>3. valueType' = valueType /\ special' = [special EXCEPT ![o] = FALSE]
  <2>1. TypeAfter(o, i) = valueType[o] /\ ~SpecialAfter(o, i) /\ SpecialAfter(o, i) \in BOOLEAN
    BY <1>2, Zenon DEF TypeAfter, SpecialAfter, Castable
  <2>2. SpecialAfter(o, i) = FALSE
    BY <2>1
  <2> QED BY <1>1, <1>2, <2>1, <2>2 DEF Configure
<1>4. /\ faults \subseteq faults' /\ (special[o] => <<"uncast", o>> \in faults')
      /\ faults' \subseteq faults \cup {<<"uncast", o>>}
  BY <1>1
<1>5. TypeOK'
  <2>1. faults' \subseteq {"uncast", "rolledBack", "cut", "undefined"} \X (Source \cup {None})
    BY <1>0, <1>4, Kinds DEF TypeOK
  <2>2. special' \in [Output -> BOOLEAN]
    BY <1>2, <1>3
  <2> QED BY <2>1, <2>2, <1>0, <1>1, <1>3 DEF TypeOK
<1>6. /\ NoRollback' <=> NoRollback
      /\ \A w, z : Listed(w, z)' <=> Listed(w, z)
  BY <1>1, <1>4 DEF NoRollback, Listed
<1>7. PointersAreGranted'
  BY <1>1, <1>6 DEF Inv, PointersAreGranted, PointsTo, PointsBack
<1>8. GrantedIsConnected'
  BY <1>1, <1>4, <1>6 DEF Inv, GrantedIsConnected
<1>9. ReadsConverted'
  <2> SUFFICES ASSUME NoRollback, NEW d \in Input, source[d] # None
               PROVE  /\ valueType[source[d]] # "ANY" =>
                           /\ inputType[d] # "ANY"
                           /\ Castable(valueType[source[d]], inputType[d])
                      /\ valueType[source[d]] \in Float \ {inputType[d]} =>
                           special'[source[d]] \/ <<"uncast", source[d]>> \in faults'
    BY <1>1, <1>3, <1>6 DEF ReadsConverted
  <2>1. source[d] \in Output
    BY <1>0 DEF TypeOK
  <2> QED BY <2>1, <1>2, <1>3, <1>4 DEF Inv, ReadsConverted
<1>10. SocketsAgree' /\ OneSocket'
  BY <1>1, <1>6, AdaptersStand
<1>11. InputsUntyped'
  BY <1>1, <1>3 DEF Inv, InputsUntyped
<1> QED BY <1>5, <1>7, <1>8, <1>9, <1>10, <1>11 DEF Inv

LEMMA ConnectDataStep ==
  ASSUME Inv, NEW o \in Output, NEW i \in Input,
         RefuseListed(o, i) \/ ConnectData(o, i)
  PROVE  Inv'
<1> USE DEF dataVars, adapterVars
<1>0. TypeOK /\ PointersAreGranted /\ GrantedIsConnected
  BY DEF Inv
<1>1. /\ UNCHANGED <<plan, alive, peer, conn, socketOf>>
      /\ Named(o, i) /\ Connectable(o, i) /\ Configurable(o, i) /\ Configure(o, i)
      /\ faults' = Mended(o, i)
      /\ <<o, i>> \in plan /\ o \in Source /\ i \in Port /\ o \notin Plug /\ o # None
  BY Kinds DEF RefuseListed, ConnectData, Named
<1>2. PICK ds :
        /\ ConnectDI(ds, o, TypeAfter(o, i))
        /\ \/ /\ RefuseListed(o, i) /\ ds = HandedOn(o, i)
           \/ /\ ConnectData(o, i) /\ ds = HandedOn(o, i) \cup {i} /\ Accepts(i, o)
  BY DEF RefuseListed, ConnectData
<1>3. /\ source' \in [Input -> Output \cup {None}]
      /\ valueType' \in [Output -> DataType] /\ inputType' \in [Input -> DataType]
      /\ special' \in [Output -> BOOLEAN]
      /\ \A d \in Input : source'[d] # source[d] =>
           source[d] = None /\ source'[d] = o /\ (d = i \/ Listed(o, d))
      /\ i \in ds /\ Accepts(i, o) => source'[i] = o
      /\ InputsUntyped'
      /\ NoRollback => \A d \in Input : source'[d] # None =>
           /\ valueType'[source'[d]] # "ANY" =>
                /\ inputType'[d] # "ANY"
                /\ Castable(valueType'[source'[d]], inputType'[d])
           /\ valueType'[source'[d]] \in Float \ {inputType'[d]} =>
                \/ special'[source'[d]]
                \/ /\ <<"uncast", source'[d]>> \in faults
                   /\ source'[d] = o => ~SpecialAfter(o, i)
  BY <1>1, <1>2, ConfigureStep DEF InputsUntyped
<1>4. /\ DestinationsOK'
      /\ granted' \subseteq granted \cup {<<o, i>>} /\ granted \subseteq granted'
      /\ (Listed(o, i)' /\ <<o, i>> \in granted') \/ ~NoRollback
      /\ \A w \in Source : \A z : <<w, z>> # <<o, i>> => (Listed(w, z)' <=> Listed(w, z))
      /\ Listed(o, i) => Listed(o, i)'
      /\ <<o, i>> \in granted' => Listed(o, i)'
      /\ <<o, i>> \in granted' => <<o, i>> \in granted \/ source'[i] = o
  <2>1. CASE RefuseListed(o, i)
    <3>1. UNCHANGED <<destinations, granted>> /\ Listed(o, i)
      BY <2>1 DEF RefuseListed
    <3>2. <<o, i>> \in granted \/ ~NoRollback
      BY <1>0, <1>1, <3>1 DEF PointersAreGranted, PointsTo
    <3> QED BY <1>0, <3>1, <3>2, TypeGivesDestinations DEF Listed, DestinationsOK
  <2>2. CASE ConnectData(o, i)
    <3>1. ~Listed(o, i) /\ granted' = granted \cup {<<o, i>>}
      BY <2>2 DEF ConnectData, Grant
    <3>2. /\ DestinationsOK'
          /\ \A w \in Source : \A z : Listed(w, z)' <=> Listed(w, z) \/ (w = o /\ z = i)
      BY <1>0, <1>1, <2>2, AddStep DEF ConnectData
    <3>3. \A w, z : <<w, z>> # <<o, i>> => ~(w = o /\ z = i)
      OBVIOUS
    <3>4. source'[i] = o
      BY <1>2, <1>3, <2>2, <3>1 DEF RefuseListed
    <3> QED BY <1>1, <3>1, <3>2, <3>3, <3>4
  <2> QED BY <2>1, <2>2, <1>2
<1>5. /\ NoRollback' <=> NoRollback
      /\ faults' \subseteq faults
      /\ \A x : <<"cut", x>> \in faults => <<"cut", x>> \in faults'
      /\ \A x : <<"uncast", x>> \in faults /\ ~(x = o /\ SpecialAfter(o, i))
                => <<"uncast", x>> \in faults'
  BY <1>1, MendedFaults DEF NoRollback
<1>6. TypeOK'
  BY <1>0, <1>1, <1>3, <1>4, <1>5 DEF TypeOK, DestinationsOK, Unique
<1>7. PointersAreGranted'
  <2> SUFFICES ASSUME NEW w \in Source, NEW z \in Port, (PointsTo(w, z) \/ PointsBack(w, z))',
                      w \in Output => NoRollback
               PROVE  <<w, z>> \in granted'
    BY <1>5 DEF PointersAreGranted
  <2>1. CASE <<w, z>> = <<o, i>>
    BY <2>1, <1>4
  <2>2. CASE <<w, z>> # <<o, i>>
    <3>1. PointsTo(w, z)' => PointsTo(w, z)
      BY <1>1, <1>4, <2>2 DEF PointsTo
    <3>2. PointsBack(w, z)' => PointsBack(w, z) \/ PointsTo(w, z)
      BY <1>1, <1>3, <2>2, Kinds DEF PointsTo, PointsBack
    <3> QED BY <1>0, <1>4, <3>1, <3>2 DEF PointersAreGranted
  <2> QED BY <2>1, <2>2
<1>8. GrantedIsConnected'
  <2> SUFFICES ASSUME NEW w \in Source, NEW z \in Port, <<w, z>> \in granted',
                      {Owner[w], Owner[z]} \subseteq alive, w \in Output => NoRollback
               PROVE  /\ Listed(w, z)'
                      /\ w \in Output => source'[z] = w
                      /\ w \in Plug => /\ peer'[w] = z /\ socketOf'[w] = z
                                       /\ (peer'[z] = w /\ conn'[z] = w) \/ <<"cut", w>> \in faults'
    BY <1>1, <1>5 DEF GrantedIsConnected
  <2>1. CASE <<w, z>> = <<o, i>> /\ <<o, i>> \notin granted
    BY <2>1, <1>1, <1>4
  <2>2. CASE <<w, z>> \in granted
    <3>1. /\ Listed(w, z)
          /\ w \in Output => source[z] = w
          /\ w \in Plug => /\ peer[w] = z /\ socketOf[w] = z
                           /\ (peer[z] = w /\ conn[z] = w) \/ <<"cut", w>> \in faults
      BY <1>0, <2>2 DEF GrantedIsConnected
    <3>2. w \in Output => source'[z] = w
      <4> SUFFICES ASSUME w \in Output PROVE source'[z] = w
        OBVIOUS
      <4>1. z \in Input
        BY <1>0, <2>2, PortAssumption, Kinds DEF TypeOK
      <4> QED BY <1>3, <3>1, <4>1, Kinds
    <3> QED BY <1>1, <1>4, <1>5, <3>1, <3>2
  <2> QED BY <2>1, <2>2, <1>4
<1>9. ReadsConverted'
  BY <1>3, <1>5 DEF ReadsConverted
<1>10. SocketsAgree' /\ OneSocket'
  <2>1. \A x \in Plug : \A z : Listed(x, z)' <=> Listed(x, z)
    BY <1>1, <1>4, Kinds
  <2> QED BY <1>1, <2>1, AdaptersStand
<1> QED BY <1>3, <1>6, <1>7, <1>8, <1>9, <1>10 DEF Inv

LEMMA RefuseOccupiedStep ==
  ASSUME Inv, NEW o \in Output, NEW i \in Input, RefuseOccupied(o, i)
  PROVE  Inv'
<1> USE DEF dataVars, adapterVars
<1>0. TypeOK /\ PointersAreGranted /\ GrantedIsConnected
  BY DEF Inv
<1>1. /\ UNCHANGED <<plan, alive, peer, conn, socketOf, granted>>
      /\ Named(o, i) /\ Connectable(o, i) /\ Configurable(o, i) /\ Configure(o, i)
      /\ ConnectDI(HandedOn(o, i), o, TypeAfter(o, i))
      /\ ~Listed(o, i)
      /\ destinations' = [destinations EXCEPT ![o] = Tail(Added(o, i))]
      /\ faults' = IF destinations[o] = <<>> THEN Mended(o, i)
                   ELSE Mended(o, i) \cup {<<"rolledBack", o>>}
      /\ o \in Source /\ i \in Port /\ o \notin Plug /\ o # None
  BY Kinds DEF RefuseOccupied
<1>2. /\ source' \in [Input -> Output \cup {None}]
      /\ valueType' \in [Output -> DataType] /\ inputType' \in [Input -> DataType]
      /\ special' \in [Output -> BOOLEAN]
      /\ \A d \in Input : source'[d] # source[d] => Listed(o, d) \/ d = i
      /\ InputsUntyped'
      /\ NoRollback => \A d \in Input : source'[d] # None =>
           /\ valueType'[source'[d]] # "ANY" =>
                /\ inputType'[d] # "ANY"
                /\ Castable(valueType'[source'[d]], inputType'[d])
           /\ valueType'[source'[d]] \in Float \ {inputType'[d]} =>
                \/ special'[source'[d]]
                \/ /\ <<"uncast", source'[d]>> \in faults
                   /\ source'[d] = o => ~SpecialAfter(o, i)
  BY <1>1, ConfigureStep DEF InputsUntyped
<1>3. /\ DestinationsOK'
      /\ \A w \in Source \ {o} : \A z : Listed(w, z)' <=> Listed(w, z)
      /\ destinations[o] = <<>> => \A w \in Source : \A z : Listed(w, z)' <=> Listed(w, z)
  BY <1>0, <1>1, RollbackStep
<1>4. destinations[o] = <<>> => source' = source
  <2> SUFFICES ASSUME destinations[o] = <<>> PROVE source' = source
    OBVIOUS
  <2>1. \A d : d \notin HandedOn(o, i)
    BY <1>0, HandedOnAre, EmptyListsNothing
  <2>2. source' = [d \in Input |-> source[d]]
    BY <1>1, <2>1 DEF ConnectDI
  <2> QED BY <1>0, <2>2 DEF TypeOK
<1>5. /\ NoRollback' => NoRollback /\ destinations[o] = <<>>
      /\ \A x : <<"cut", x>> \in faults => <<"cut", x>> \in faults'
      /\ \A x : <<"uncast", x>> \in faults /\ ~(x = o /\ SpecialAfter(o, i))
                => <<"uncast", x>> \in faults'
      /\ faults' \subseteq faults \cup {<<"rolledBack", o>>}
  <2>1. /\ Mended(o, i) \subseteq faults'
        /\ faults' \subseteq Mended(o, i) \cup {<<"rolledBack", o>>}
        /\ destinations[o] # <<>> => <<"rolledBack", o>> \in faults'
    BY <1>1
  <2>2. NoRollback' => NoRollback /\ destinations[o] = <<>>
    BY <2>1, MendedFaults DEF NoRollback
  <2> QED BY <2>1, <2>2, MendedFaults
<1>6. TypeOK'
  <2>1. faults' \subseteq {"uncast", "rolledBack", "cut", "undefined"} \X (Source \cup {None})
    BY <1>0, <1>1, <1>5 DEF TypeOK
  <2> QED BY <2>1, <1>0, <1>1, <1>2, <1>3 DEF TypeOK, DestinationsOK, Unique
<1>7. PointersAreGranted'
  <2> SUFFICES ASSUME NEW w \in Source, NEW z \in Port, (PointsTo(w, z) \/ PointsBack(w, z))',
                      w \in Output => NoRollback'
               PROVE  <<w, z>> \in granted
    BY <1>1 DEF PointersAreGranted
  <2>1. CASE w \in Output
    <3>1. PointsTo(w, z) \/ PointsBack(w, z)
      BY <1>1, <1>3, <1>4, <1>5, <2>1, Kinds DEF PointsTo, PointsBack
    <3> QED BY <3>1, <2>1, <1>0, <1>5 DEF PointersAreGranted
  <2>2. CASE w \notin Output
    <3>1. PointsTo(w, z)' => PointsTo(w, z)
      BY <1>1, <1>3, <2>2, Kinds DEF PointsTo
    <3>2. PointsBack(w, z)' => PointsBack(w, z)
      <4>1. z \in Input => source'[z] # w
        BY <1>2, <2>2, Kinds
      <4> QED BY <1>1, <4>1, Kinds DEF PointsBack
    <3> QED BY <3>1, <3>2, <2>2, <1>0 DEF PointersAreGranted
  <2> QED BY <2>1, <2>2
<1>8. GrantedIsConnected'
  <2> SUFFICES ASSUME NEW w \in Source, NEW z \in Port, <<w, z>> \in granted,
                      {Owner[w], Owner[z]} \subseteq alive, w \in Output => NoRollback'
               PROVE  /\ Listed(w, z)'
                      /\ w \in Output => source'[z] = w
                      /\ w \in Plug => /\ peer'[w] = z /\ socketOf'[w] = z
                                       /\ (peer'[z] = w /\ conn'[z] = w) \/ <<"cut", w>> \in faults'
    BY <1>1 DEF GrantedIsConnected
  <2>1. /\ Listed(w, z)
        /\ w \in Output => source[z] = w
        /\ w \in Plug => /\ peer[w] = z /\ socketOf[w] = z
                         /\ (peer[z] = w /\ conn[z] = w) \/ <<"cut", w>> \in faults
    BY <1>0, <1>5 DEF GrantedIsConnected
  <2>2. w \in Output => source'[z] = w
    BY <2>1, <1>4, <1>5
  <2>3. Listed(w, z)'
    BY <2>1, <1>1, <1>3, <1>5
  <2> QED BY <2>1, <2>2, <2>3, <1>1, <1>5
<1>9. ReadsConverted'
  BY <1>2, <1>5 DEF ReadsConverted
<1>10. SocketsAgree' /\ OneSocket'
  <2>1. \A x \in Plug : \A z : Listed(x, z)' <=> Listed(x, z)
    BY <1>1, <1>3, Kinds
  <2> QED BY <1>1, <2>1, AdaptersStand
<1> QED BY <1>2, <1>6, <1>7, <1>8, <1>9, <1>10 DEF Inv

LEMMA DisconnectDataStep ==
  ASSUME Inv, NEW o \in Output, NEW i \in Input, DisconnectData(o, i)
  PROVE  Inv'
<1> USE DEF dataVars, adapterVars
<1>0. TypeOK /\ PointersAreGranted /\ GrantedIsConnected
  BY DEF Inv
<1>1. /\ UNCHANGED <<plan, alive, valueType, inputType, special, peer, conn, socketOf, faults>>
      /\ {Owner[o], Owner[i]} \subseteq alive /\ Listed(o, i)
      /\ source' = [source EXCEPT ![i] = None]
      /\ granted' = granted \ {<<o, i>>}
      /\ o \in Source /\ i \in Port /\ o \notin Plug /\ o # None /\ i \notin Socket
  BY Kinds DEF DisconnectData, Named, Revoke
<1>2. /\ DestinationsOK'
      /\ \A w \in Source : \A z : Listed(w, z)' <=> Listed(w, z) /\ ~(w = o /\ z = i)
  BY <1>0, <1>1, RemoveStep DEF DisconnectData
<1>3. /\ source' \in [Input -> Output \cup {None}]
      /\ source'[i] = None /\ \A d \in Input : d # i => source'[d] = source[d]
  BY <1>0, <1>1 DEF TypeOK
<1>4. TypeOK'
  BY <1>0, <1>1, <1>2, <1>3 DEF TypeOK, DestinationsOK, Unique
<1>5. NoRollback' <=> NoRollback
  BY <1>1 DEF NoRollback
<1>6. PointersAreGranted'
  <2> SUFFICES ASSUME NEW w \in Source, NEW z \in Port, (PointsTo(w, z) \/ PointsBack(w, z))',
                      w \in Output => NoRollback
               PROVE  <<w, z>> \in granted'
    BY <1>5 DEF PointersAreGranted
  <2>1. PointsTo(w, z) \/ PointsBack(w, z)
    BY <1>1, <1>2, <1>3, Kinds DEF PointsTo, PointsBack
  <2>2. <<w, z>> \in granted
    BY <2>1, <1>0 DEF PointersAreGranted
  <2>3. <<w, z>> # <<o, i>>
    <3> SUFFICES ASSUME w = o, z = i PROVE FALSE
      OBVIOUS
    <3>1. ~PointsTo(o, i)' /\ ~PointsBack(o, i)'
      BY <1>1, <1>2, <1>3 DEF PointsTo, PointsBack
    <3> QED BY <3>1
  <2> QED BY <2>2, <2>3, <1>1
<1>7. GrantedIsConnected'
  <2> SUFFICES ASSUME NEW w \in Source, NEW z \in Port, <<w, z>> \in granted',
                      {Owner[w], Owner[z]} \subseteq alive, w \in Output => NoRollback
               PROVE  /\ Listed(w, z)'
                      /\ w \in Output => source'[z] = w
                      /\ w \in Plug => /\ peer'[w] = z /\ socketOf'[w] = z
                                       /\ (peer'[z] = w /\ conn'[z] = w) \/ <<"cut", w>> \in faults'
    BY <1>1, <1>5 DEF GrantedIsConnected
  <2>1. <<w, z>> \in granted /\ ~(w = o /\ z = i)
    BY <1>1
  <2>2. /\ Listed(w, z)
        /\ w \in Output => source[z] = w
        /\ w \in Plug => /\ peer[w] = z /\ socketOf[w] = z
                         /\ (peer[z] = w /\ conn[z] = w) \/ <<"cut", w>> \in faults
    BY <1>0, <2>1 DEF GrantedIsConnected
  (* an input that reads another output is not one of o's destinations *)
  <2>3. w \in Output => source'[z] = w
    <3> SUFFICES ASSUME w \in Output PROVE source'[z] = w
      OBVIOUS
    <3>1. z \in Input
      BY <1>0, <2>1, PortAssumption, Kinds DEF TypeOK
    <3>2. <<o, i>> \in granted
      BY <1>0, <1>1 DEF PointersAreGranted, PointsTo
    <3>3. source[i] = o
      BY <1>0, <1>1, <3>2 DEF GrantedIsConnected
    <3>4. z # i
      BY <2>1, <2>2, <3>3
    <3> QED BY <1>3, <2>2, <3>1, <3>4
  <2>4. Listed(w, z)'
    BY <1>2, <2>1, <2>2
  <2> QED BY <1>1, <2>2, <2>3, <2>4
<1>8. ReadsConverted'
  BY <1>1, <1>3, <1>5, <1>0 DEF Inv, ReadsConverted
<1>9. SocketsAgree' /\ OneSocket'
  <2>1. \A x \in Plug : \A z : Listed(x, z)' <=> Listed(x, z)
    BY <1>1, <1>2, Kinds
  <2> QED BY <1>1, <2>1, AdaptersStand
<1>10. InputsUntyped'
  BY <1>1, <1>3 DEF Inv, InputsUntyped
<1> QED BY <1>4, <1>6, <1>7, <1>8, <1>9, <1>10 DEF Inv

(* A block that is deleted takes its own ports' pointers with it, and of   *)
(* the others' those between plug and socket.                              *)
LEMMA DeleteFBStep ==
  ASSUME Inv, NEW b \in Block, DeleteFB(b)
  PROVE  Inv'
<1> USE DEF dataVars, adapterVars
<1>0. TypeOK /\ SocketsAgree /\ OneSocket
  BY DEF Inv
<1> DEFINE sockets == Ports(Socket, b)
           plugs   == Ports(Plug, b)
           left    == sockets \cup Released(plugs)
<1>1. /\ UNCHANGED <<plan, valueType, inputType, special, granted, faults>>
      /\ alive' = alive \ {b}
      /\ destinations' = [x \in Source |-> IF Owner[x] = b THEN <<>> ELSE destinations[x]]
      /\ source' = [i \in Input |-> IF Owner[i] = b THEN None ELSE source[i]]
      /\ peer' = [x \in Plug \cup Socket |-> IF x \in plugs \cup left THEN None ELSE peer[x]]
      /\ conn' = [s \in Socket |-> IF s \in left THEN None ELSE conn[s]]
      /\ socketOf' = [p \in Plug |-> IF p \in plugs \/ \E s \in sockets : conn[s] = p
                                      THEN None ELSE socketOf[p]]
  BY DEF DeleteFB
<1>2. /\ \A s \in Socket : s \in sockets <=> Owner[s] = b
      /\ \A p \in Plug : p \in plugs <=> Owner[p] = b
      /\ \A s \in Socket : s \in left <=> Owner[s] = b \/ (conn[s] # None /\ Owner[conn[s]] = b)
      /\ \A p \in Plug : p \notin left
      /\ \A s \in Socket : s \notin plugs
      /\ sockets \subseteq Socket
  <2>1. conn \in [Socket -> Plug \cup {None}] /\ \A p \in Plug : p # None /\ p \notin Socket
    BY <1>0, Kinds DEF TypeOK
  <2>2. \A s \in Socket : s \in Released(plugs) <=> conn[s] # None /\ Owner[conn[s]] = b
    BY <1>0, <2>1 DEF Released, Ports, SocketsAgree
  <2>3. Released(plugs) \subseteq Socket
    BY DEF Released
  <2> QED BY <2>1, <2>2, <2>3 DEF Ports
<1> HIDE DEF sockets, plugs, left
<1>3. /\ peer \in [Plug \cup Socket -> Plug \cup Socket \cup {None}]
      /\ conn \in [Socket -> Plug \cup {None}] /\ socketOf \in [Plug -> Socket \cup {None}]
      /\ source \in [Input -> Output \cup {None}]
      /\ \A p \in Plug : p \notin Socket /\ p # None
      /\ \A s \in Socket : s # None
  BY <1>0, Kinds DEF TypeOK
<1>4. /\ source' \in [Input -> Output \cup {None}]
      /\ peer' \in [Plug \cup Socket -> Plug \cup Socket \cup {None}]
      /\ conn' \in [Socket -> Plug \cup {None}] /\ socketOf' \in [Plug -> Socket \cup {None}]
  BY <1>1, <1>3
<1>5. /\ \A i \in Input : source'[i] = IF Owner[i] = b THEN None ELSE source[i]
      /\ \A p \in Plug : peer'[p] = IF Owner[p] = b THEN None ELSE peer[p]
      /\ \A p \in Plug : socketOf'[p] =
           IF Owner[p] = b \/ \E s \in Socket : Owner[s] = b /\ conn[s] = p
           THEN None ELSE socketOf[p]
      /\ \A s \in Socket : peer'[s] = IF s \in left THEN None ELSE peer[s]
      /\ \A s \in Socket : conn'[s] = IF s \in left THEN None ELSE conn[s]
  BY <1>1, <1>2
<1>6. /\ DestinationsOK'
      /\ \A w \in Source : \A z : Listed(w, z)' <=> Listed(w, z) /\ Owner[w] # b
  BY <1>0, <1>1, DeleteStep
<1>7. TypeOK'
  BY <1>0, <1>1, <1>4, <1>6 DEF TypeOK, DestinationsOK, Unique
<1>8. NoRollback' <=> NoRollback
  BY <1>1 DEF NoRollback
<1>9. PointersAreGranted'
  <2> SUFFICES ASSUME NEW w \in Source, NEW z \in Port, (PointsTo(w, z) \/ PointsBack(w, z))',
                      w \in Output => NoRollback
               PROVE  <<w, z>> \in granted
    BY <1>1, <1>8 DEF PointersAreGranted
  <2>1. w # None /\ z # None
    BY Kinds
  <2>2. PointsTo(w, z)' => PointsTo(w, z)
    BY <1>5, <1>6, <2>1 DEF PointsTo
  <2>3. PointsBack(w, z)' => PointsBack(w, z)
    BY <1>5, <2>1 DEF PointsBack
  <2> QED BY <2>2, <2>3 DEF Inv, PointersAreGranted
<1>10. GrantedIsConnected'
  <2> SUFFICES ASSUME NEW w \in Source, NEW z \in Port, <<w, z>> \in granted,
                      {Owner[w], Owner[z]} \subseteq alive \ {b}, w \in Output => NoRollback
               PROVE  /\ Listed(w, z)'
                      /\ w \in Output => source'[z] = w
                      /\ w \in Plug => /\ peer'[w] = z /\ socketOf'[w] = z
                                       /\ (peer'[z] = w /\ conn'[z] = w) \/ <<"cut", w>> \in faults
    BY <1>1, <1>8 DEF GrantedIsConnected
  <2>1. Owner[w] # b /\ Owner[z] # b
    OBVIOUS
  <2>2. /\ Listed(w, z)
        /\ w \in Output => source[z] = w
        /\ w \in Plug => /\ peer[w] = z /\ socketOf[w] = z
                         /\ (peer[z] = w /\ conn[z] = w) \/ <<"cut", w>> \in faults
    BY DEF Inv, GrantedIsConnected
  <2>3. w \in Output => source'[z] = w
    <3>1. <<w, z>> \in plan
      BY <1>0 DEF TypeOK
    <3>2. w \in Output => z \in Input
      BY <1>0, <3>1, PortAssumption, Kinds DEF TypeOK
    <3> QED BY <1>5, <2>1, <2>2, <3>2
  <2>4. ASSUME w \in Plug
        PROVE  /\ peer'[w] = z /\ socketOf'[w] = z
               /\ peer[z] = w /\ conn[z] = w => peer'[z] = w /\ conn'[z] = w
    <3>1. z \in Socket
      BY <1>3, <2>2, <2>4, Kinds
    <3>2. \A s \in Socket : conn[s] = w => s = z
      BY <1>0, <1>3, <2>2, <2>4 DEF SocketsAgree
    <3>3. peer'[w] = z /\ socketOf'[w] = z
      BY <1>5, <2>1, <2>2, <2>4, <3>2
    <3>4. conn[z] = w => z \notin left
      BY <1>2, <2>1, <3>1
    <3> QED BY <1>5, <3>1, <3>3, <3>4
  <2> QED BY <1>6, <2>1, <2>2, <2>3, <2>4
<1>11. ReadsConverted'
  BY <1>1, <1>3, <1>5, <1>8 DEF Inv, ReadsConverted
<1>12. SocketsAgree'
  <2> SUFFICES ASSUME NEW s \in Socket
               PROVE  peer'[s] = conn'[s] /\ (conn'[s] # None => socketOf'[conn'[s]] = s)
    BY DEF SocketsAgree
  <2>1. CASE s \in left
    BY <1>5, <2>1
  <2>2. CASE s \notin left
    <3>1. peer'[s] = conn[s] /\ conn'[s] = conn[s] /\ (conn[s] # None => socketOf[conn[s]] = s)
      BY <1>0, <1>5, <2>2 DEF SocketsAgree
    <3>2. ASSUME conn[s] # None PROVE socketOf'[conn[s]] = s
      <4>1. conn[s] \in Plug /\ Owner[conn[s]] # b /\ Owner[s] # b
        BY <1>2, <1>3, <2>2, <3>2
      <4>2. \A t \in Socket : conn[t] = conn[s] => t = s
        BY <1>0, <3>1, <3>2 DEF SocketsAgree
      <4> QED BY <1>5, <3>1, <3>2, <4>1, <4>2
    <3> QED BY <3>1, <3>2
  <2> QED BY <2>1, <2>2
<1>13. OneSocket'
  <2>1. \A p \in Plug : socketOf'[p] # None => socketOf'[p] = socketOf[p] /\ Owner[p] # b
    BY <1>5
  <2> QED BY <1>0, <1>6, <2>1, Kinds DEF OneSocket
<1>14. InputsUntyped'
  BY <1>1, <1>3, <1>5 DEF Inv, InputsUntyped
<1> QED BY <1>7, <1>9, <1>10, <1>11, <1>12, <1>13, <1>14 DEF Inv

LEMMA UndefinedStep ==
  ASSUME Inv, Undefined
  PROVE  Inv'
<1> USE DEF dataVars, adapterVars
<1>1. /\ UNCHANGED <<plan, alive, destinations, source, valueType, inputType, special,
                      peer, conn, socketOf, granted>>
      /\ faults' = faults \cup {<<"undefined", None>>}
  BY DEF Undefined
<1>2. /\ \A w, z : Listed(w, z)' <=> Listed(w, z)
      /\ NoRollback' <=> NoRollback
  BY <1>1 DEF Listed, NoRollback
<1>3. TypeOK' /\ PointersAreGranted'
  BY <1>1, <1>2 DEF Inv, TypeOK, PointersAreGranted, PointsTo, PointsBack
<1>4. GrantedIsConnected'
  BY <1>1, <1>2 DEF Inv, GrantedIsConnected
<1>5. ReadsConverted'
  BY <1>1, <1>2 DEF Inv, ReadsConverted
<1>6. SocketsAgree' /\ OneSocket'
  BY <1>1, <1>2, AdaptersStand
<1>7. InputsUntyped'
  BY <1>1 DEF Inv, InputsUntyped
<1> QED BY <1>3, <1>4, <1>5, <1>6, <1>7 DEF Inv

LEMMA StutterStep ==
  ASSUME Inv, UNCHANGED vars
  PROVE  Inv'
<1>1. UNCHANGED <<plan, alive, destinations, source, valueType, inputType, special,
                  peer, conn, socketOf, granted, faults>>
  BY DEF vars, dataVars, adapterVars
<1>2. /\ \A w, z : Listed(w, z)' <=> Listed(w, z)
      /\ NoRollback' <=> NoRollback
  BY <1>1 DEF Listed, NoRollback
<1>3. TypeOK' /\ PointersAreGranted'
  BY <1>1, <1>2 DEF Inv, TypeOK, PointersAreGranted, PointsTo, PointsBack
<1>4. GrantedIsConnected'
  BY <1>1, <1>2 DEF Inv, GrantedIsConnected
<1>5. ReadsConverted'
  BY <1>1, <1>2 DEF Inv, ReadsConverted
<1>6. SocketsAgree' /\ OneSocket'
  BY <1>1, <1>2, AdaptersStand
<1>7. InputsUntyped'
  BY <1>1 DEF Inv, InputsUntyped
<1> QED BY <1>3, <1>4, <1>5, <1>6, <1>7 DEF Inv

-----------------------------------------------------------------------------
LEMMA InitInv == Init => Inv
<1> SUFFICES ASSUME Init PROVE Inv
  OBVIOUS
<1> USE DEF Init
<1>0. <<>> \in Seq(Port) /\ Len(<<>>) = 0 /\ DOMAIN <<>> = {}
  BY EmptySeq
<1>1. \A x \in Source : \A z : ~Listed(x, z)
  BY EmptyListsNothing
<1>2. TypeOK
  <2>1. valueType \in [Output -> DataType] /\ inputType \in [Input -> DataType]
    BY PortAssumption
  <2> QED BY <1>0, <2>1 DEF TypeOK
<1>3. PointersAreGranted
  BY <1>1, Kinds DEF PointersAreGranted, PointsTo, PointsBack
<1>4. GrantedIsConnected /\ ReadsConverted
  BY DEF GrantedIsConnected, ReadsConverted
<1>5. SocketsAgree /\ InputsUntyped
  BY DEF SocketsAgree, InputsUntyped
<1>6. OneSocket
  BY <1>1, Kinds DEF OneSocket
<1> QED BY <1>2, <1>3, <1>4, <1>5, <1>6 DEF Inv

LEMMA NextInv == Inv /\ [Next]_vars => Inv'
<1> SUFFICES ASSUME Inv, [Next]_vars PROVE Inv'
  OBVIOUS
<1>1. ASSUME NEW x \in EventOutput, NEW y \in EventInput,
             ConnectEvent(x, y) \/ DisconnectEvent(x, y)
      PROVE  Inv'
  BY <1>1, EventStep
<1>2. ASSUME NEW o \in Output, NEW i \in Input,
             \/ RefuseUncastable(o, i) \/ RefuseListed(o, i) \/ RefuseOccupied(o, i)
             \/ ConnectData(o, i) \/ DisconnectData(o, i) \/ ConfiguresDeletedBlock(o, i)
      PROVE  Inv'
  <2>1. ConfiguresDeletedBlock(o, i) => Undefined
    BY DEF ConfiguresDeletedBlock
  <2> QED BY <1>2, <2>1, UncastableStep, ConnectDataStep, RefuseOccupiedStep,
             DisconnectDataStep, UndefinedStep
<1>3. ASSUME NEW p \in Plug, NEW s \in Socket,
             ConnectAdapter(p, s) \/ RefuseAdapter(p, s) \/ DisconnectAdapter(p, s)
      PROVE  Inv'
  BY <1>3, ConnectAdapterStep, RefuseAdapterStep, DisconnectAdapterStep
<1>4. ASSUME NEW p \in Plug, DisconnectsDeletedSocket(p) PROVE Inv'
  BY <1>4, UndefinedStep DEF DisconnectsDeletedSocket
<1>5. ASSUME NEW b \in Block, DeleteFB(b) PROVE Inv'
  BY <1>5, DeleteFBStep
<1> QED BY <1>1, <1>2, <1>3, <1>4, <1>5, StutterStep DEF Next

(* Whatever ports an application has and names, and in whatever order its  *)
(* connections are made, refused, removed and its blocks deleted, all that *)
(* the properties say of connection.cpp, dataconn.cpp, adapterconn.cpp and *)
(* the destructors of blocks and adapters holds, and the strengthening it  *)
(* rests on.                                                               *)
THEOREM InvHolds == Spec => []Inv
<1> QED BY InitInv, NextInv, PTL DEF Spec

(* No destination is listed twice (dstExists(), removeDestination()), and  *)
(* connections point to inputs of their own kind.                          *)
THEOREM TypeCorrect == Spec => []TypeOK
<1>1. Inv => TypeOK
  BY DEF Inv
<1> QED BY InvHolds, <1>1, PTL

(* After a block's connections have been removed nothing points to it any  *)
(* more, so that its destructor leaves no pointer to freed memory behind.  *)
THEOREM PointersGranted == Spec => []PointersAreGranted
<1>1. Inv => PointersAreGranted
  BY DEF Inv
<1> QED BY InvHolds, <1>1, PTL

(* What connect() has answered ready stays connected, on both sides, until *)
(* disconnect() answers ready or a block is deleted.                       *)
THEOREM GrantedConnected == Spec => []GrantedIsConnected
<1>1. Inv => GrantedIsConnected
  BY DEF Inv
<1> QED BY InvHolds, <1>1, PTL

(* readData() converts what it copies to the type of the input.            *)
THEOREM ReadsAreConverted == Spec => []ReadsConverted
<1>1. Inv => ReadsConverted
  BY DEF Inv
<1> QED BY InvHolds, <1>1, PTL
=============================================================================
