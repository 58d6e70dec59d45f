-------------------------- MODULE FBLifecycleProofs --------------------------
(* Theorems about the life cycle of FBs, for every tree of names, every set *)
(* of creations and commands, and every limit.                             *)
EXTENDS FBLifecycle, WellFoundedInduction, SequenceTheorems, TLAPS

Name == UNION {Range(p) : p \in Path}
Item == {ToFB(b) : b \in Block} \cup {ToContainer(p) : p \in Path}
State == {"none", "IDLE", "RUNNING", "STOPPED", "KILLED"}
Sendable == {"none", "COLD", "WARM", "STOP"}

(* The records and sequences of TypeOK, component by component. *)
Shapes ==
  /\ subs \in [Path -> Seq(Name)] /\ fbs \in [Path -> Seq(Name)]
  /\ type \in [Path -> Type] /\ fbState \in [Block -> State]
  /\ event \in [Path -> Sendable] /\ sent \in [Path -> Sendable]
  /\ posts \in [Path -> 0 .. PostLimit] /\ ecet \in {"new", "runs", "ending", "ended"}
  /\ ext \in Seq(Path \cup {Gone}) /\ Len(ext) <= ExternalLimit
  /\ thread \in [at : {"idle", "send", "test", "post"}, block : Path \cup {Gone}]
  /\ command \in [at : {"idle", "walk", "store", "rerun", "queue", "wait"},
                  cmd : Command \cup {"none"}, todo : Seq(Item), whole : BOOLEAN]
  /\ last \in {"none"} \cup Command
  /\ faults \subseteq {"lost", "raced", "undefined"}

(* The names in a container's lists are paths of the application. *)
NamesArePaths ==
  \A p \in Path : \A n \in Range(subs[p]) \cup Range(fbs[p]) : Append(p, n) \in Path

(* A name is once in a container's lists. *)
NamesDiffer ==
  \A p \in Path :
    IsInjective(subs[p]) /\ IsInjective(fbs[p]) /\ Range(subs[p]) \cap Range(fbs[p]) = {}

(* p is the resource or a container that exists. *)
IsChain(p) == \A i \in 1 .. Len(p) : IsContainer(p, i)

(* Only containers that exist have something in them. *)
Rooted == \A p \in Path : subs[p] # <<>> \/ fbs[p] # <<>> => IsChain(p)

(* An FB has a state as long as its container has its name. *)
StatesOfFBs ==
  /\ Exists(<<>>) /\ type[<<>>] = "plain"
  /\ \A b \in Path \ {<<>>} :
       /\ Exists(b) <=> IsFB(b, Len(b))
       /\ Exists(Append(b, Internal)) <=> IsFB(b, Len(b)) /\ type[b] = "composite"

(* Where E_RESTART's own part of a command can be. *)
InRestart == command.at \in {"store", "rerun", "queue", "wait"}

(* Within E_RESTART's part the command is at an E_RESTART. *)
AtRestart ==
  /\ command.at # "idle" => command.cmd \in Command
  /\ InRestart =>
       /\ command.todo # <<>> /\ Current \in Path \ {<<>>} /\ Head(command.todo).kind = "FB"
       /\ type[Current] = "E_RESTART" /\ Exists(Current)
  /\ At("queue") => command.cmd \in {"Start", "Stop"}
  /\ At("rerun") \/ At("wait") => command.cmd = "Stop"

(* While a command is under way, the last answer does not count. *)
NoAnswer == command.at # "idle" => last = "none"

(* Only an E_RESTART that exists has an event. *)
EventsOfRestarts ==
  \A b \in Path : event[b] # "none" => type[b] = "E_RESTART" /\ Exists(b)

(* The Stop of E_RESTART b has stored STOP, or waits for its post. *)
Stopping(b) == command.cmd = "Stop" /\ command.at \in {"rerun", "queue", "wait"} /\ Current = b
Waiting(b) == command.cmd = "Stop" /\ command.at \in {"queue", "wait"} /\ Current = b
Restarting(b) == command.cmd = "Start" /\ At("store") /\ Current = b

(* What the parts of an E_RESTART have to do with each other, as long as   *)
(* its two threads have not raced. *)
PostOnce ==
  \A b \in Path : posts[b] > 0 =>
    posts[b] = 1 /\ Waiting(b) /\ fbState[b] = "STOPPED" /\ sent[b] = "STOP"
      /\ (thread.at = "idle" \/ thread.block # b)

ThreadStops ==
  \A b \in Path : thread.at # "idle" /\ thread.block = b =>
    /\ thread.at = "post" => fbState[b] = "STOPPED" /\ sent[b] = "STOP" /\ Waiting(b)
    /\ event[b] = "STOP" => Waiting(b) /\ (thread.at = "test" => sent[b] = "STOP")

StopIsSent == \A b \in Path : event[b] = "STOP" => sent[b] = "STOP" \/ Stopping(b)
WarmIsSent == \A b \in Path : event[b] = "WARM" => sent[b] \in {"STOP", "WARM"}
StopIsWaited ==
  \A b \in Path : event[b] = "STOP" /\ fbState[b] = "RUNNING" => Waiting(b) \/ Restarting(b)

StateAtRestart ==
  /\ At("store") \/ (At("queue") /\ command.cmd = "Start") => fbState[Current] = To(command.cmd)
  /\ At("rerun") => fbState[Current] = "STOPPED"
  /\ command.cmd = "Stop" /\ command.at \in {"queue", "wait"} => fbState[Current] \in {"RUNNING", "STOPPED"}

(* an FB, or the composite that has the internal FB b *)
Outer(b) == IF b \in Path THEN b ELSE Front(b)

(* v, which a command is to go to, is b or leads to b. *)
LeadsTo(v, b) ==
  \/ v = ToFB(b)
  \/ v.kind = "FB" /\ v.path \in {<<>>, Outer(b)}
  \/ v.kind = "container" /\ Len(v.path) < Len(Outer(b)) /\ SubSeq(Outer(b), 1, Len(v.path)) = v.path

(* A command to the resource has changed each FB, or will still come to it. *)
Covered ==
  command.at # "idle" /\ command.whole =>
    \A b \in Contained \cup {<<>>} :
      fbState[b] = To(command.cmd) \/ \E i \in DOMAIN command.todo : LeadsTo(command.todo[i], b)

Restarts ==
  PostOnce /\ ThreadStops /\ StopIsSent /\ WarmIsSent /\ StopIsWaited /\ StateAtRestart

Orderly == "raced" \notin faults => Restarts /\ Covered

Inv == /\ Shapes /\ NamesArePaths /\ NamesDiffer /\ Rooted /\ StatesOfFBs
       /\ AtRestart /\ EventsOfRestarts /\ NoAnswer /\ Orderly /\ Agreement
-----------------------------------------------------------------------------
(* Sequences.                                                              *)

LEMMA LeastNumber ==
  ASSUME NEW T \in SUBSET Nat, T # {}
  PROVE  \E n \in T : \A m \in T : n <= m
<1>1. IsWellFoundedOn({ss \in Nat \X Nat : ss[1] < ss[2]}, Nat)
  BY NatLessThanWellFounded DEF OpToRel
<1>2. PICK n \in T : \A m \in T : ~(<<m, n>> \in {ss \in Nat \X Nat : ss[1] < ss[2]})
  BY <1>1, WFMin
<1>3. ASSUME NEW m \in T PROVE n <= m
  <2>1. <<m, n>> \in Nat \X Nat /\ m \in Nat /\ n \in Nat
    OBVIOUS
  <2> QED
    BY <1>2, <2>1
<1> QED
  BY <1>3

LEMMA InRange ==
  ASSUME NEW S, NEW s \in Seq(S)
  PROVE  /\ Range(s) \subseteq S
         /\ \A n : n \in Range(s) <=> \E i \in 1 .. Len(s) : s[i] = n
BY DEF Range

LEMMA RangeOfAppend ==
  ASSUME NEW S, NEW s \in Seq(S), NEW n \in S
  PROVE  /\ Append(s, n) \in Seq(S) /\ Append(s, n) # <<>>
         /\ Range(Append(s, n)) = Range(s) \cup {n}
         /\ IsInjective(s) /\ n \notin Range(s) => IsInjective(Append(s, n))
<1>1. /\ Append(s, n) \in Seq(S) /\ Len(Append(s, n)) = Len(s) + 1 /\ Len(s) \in Nat
      /\ \A i \in 1 .. Len(s) : Append(s, n)[i] = s[i]
      /\ Append(s, n)[Len(s) + 1] = n
  BY AppendProperties
<1>2. DOMAIN s = 1 .. Len(s) /\ DOMAIN Append(s, n) = 1 .. Len(s) + 1
  BY <1>1
<1>3. Range(Append(s, n)) = Range(s) \cup {n}
  BY <1>1, <1>2 DEF Range
<1>4. ASSUME IsInjective(s), n \notin Range(s) PROVE IsInjective(Append(s, n))
  <2>1. \A i \in 1 .. Len(s) : s[i] # n
    BY <1>2, <1>4 DEF Range
  <2> QED
    BY <1>1, <1>2, <1>4, <2>1 DEF IsInjective
<1> QED
  BY <1>1, <1>3, <1>4

(* What deleteFB() leaves of a list of names.                              *)
LEMMA RangeOfRemoveFirst ==
  ASSUME NEW S, NEW s \in Seq(S), NEW n \in Range(s), IsInjective(s)
  PROVE  /\ RemoveFirst(s, n) \in Seq(S)
         /\ Range(RemoveFirst(s, n)) = Range(s) \ {n}
         /\ IsInjective(RemoveFirst(s, n))
<1> DEFINE m == Len(s)
           I == {i \in 1 .. m : s[i] = n}
<1>1. m \in Nat /\ DOMAIN s = 1 .. m /\ \A i \in 1 .. m : s[i] \in S
  OBVIOUS
<1>2. PICK k \in 1 .. m : s[k] = n
  BY <1>1 DEF Range
<1>3. \A i \in 1 .. m : s[i] = n <=> i = k
  BY <1>1, <1>2 DEF IsInjective
<1>4. I = {k}
  BY <1>2, <1>3
<1>5. SelectInSeq(s, LAMBDA v : v = n) = k
  <2>1. Min({k}) = k
    BY <1>2 DEF Min
  <2> QED
    BY <1>1, <1>4, <2>1 DEF SelectInSeq
<1>6. RemoveFirst(s, n) = SubSeq(s, 1, k - 1) \o SubSeq(s, k + 1, m)
  BY <1>2, <1>5 DEF RemoveFirst, RemoveAt
<1> DEFINE r == RemoveFirst(s, n)
<1>7. /\ r \in Seq(S) /\ Len(r) = m - 1
      /\ \A i \in 1 .. m - 1 : r[i] = IF i < k THEN s[i] ELSE s[i + 1]
  <2> HIDE DEF r
  <2> DEFINE a == SubSeq(s, 1, k - 1)
             b == SubSeq(s, k + 1, m)
  <2>1. a \in Seq(S) /\ Len(a) = k - 1 /\ \A i \in 1 .. k - 1 : a[i] = s[i]
    BY <1>1, <1>2, SubSeqProperties
  <2>2. b \in Seq(S) /\ Len(b) = m - k /\ \A i \in 1 .. m - k : b[i] = s[k + i]
    <3>1. CASE k = m
      <4>1. b = <<>>
        BY <1>1, <1>2, <3>1
      <4> QED
        BY <1>1, <3>1, <4>1
    <3>2. CASE k # m
      <4>1. k + 1 \in 1 .. m /\ m \in 1 .. m /\ k + 1 <= m
        <5>1. m \in Nat /\ k \in 1 .. m /\ k # m
          BY <1>1, <1>2, <3>2
        <5> HIDE DEF m, b
        <5> QED
          BY <5>1
      <4>2. /\ b \in Seq(S) /\ Len(b) = m - (k + 1) + 1
            /\ \A i \in 1 .. m - (k + 1) + 1 : b[i] = s[(k + 1) + i - 1]
        BY <4>1, SubSeqProperties
      <4>3. m - (k + 1) + 1 = m - k /\ \A i \in 1 .. m - k : (k + 1) + i - 1 = k + i
        BY <1>1, <1>2
      <4> HIDE DEF b, m
      <4> QED
        BY <4>2, <4>3
    <3> QED
      BY <3>1, <3>2
  <2>3. r = a \o b
    BY <1>6 DEF r
  <2> HIDE DEF a, b, m
  <2>4. r \in Seq(S) /\ Len(r) = m - 1
    <3>1. r \in Seq(S) /\ Len(r) = Len(a) + Len(b)
      BY <2>1, <2>2, <2>3, ConcatProperties
    <3> QED
      BY <1>1, <1>2, <2>1, <2>2, <3>1
  <2>5. ASSUME NEW i \in 1 .. m - 1 PROVE r[i] = IF i < k THEN s[i] ELSE s[i + 1]
    <3>1. r[i] = IF i <= k - 1 THEN a[i] ELSE b[i - (k - 1)]
      BY <1>1, <1>2, <2>1, <2>2, <2>3, ConcatProperties
    <3>2. CASE i < k
      BY <1>1, <1>2, <2>1, <3>1, <3>2
    <3>3. CASE i >= k
      <4>1. i - (k - 1) \in 1 .. m - k /\ k + (i - (k - 1)) = i + 1
        BY <1>1, <1>2, <3>3
      <4> QED
        BY <1>1, <1>2, <2>2, <3>1, <3>3, <4>1
    <3> QED
      BY <1>1, <1>2, <3>2, <3>3
  <2> QED
    BY <2>4, <2>5
<1> HIDE DEF r, m, I
<1>8. DOMAIN r = 1 .. m - 1
  BY <1>1, <1>7
<1>9. Range(r) \subseteq Range(s) \ {n}
  <2>1. \A i \in 1 .. m - 1 : r[i] \in Range(s) \ {n}
    <3> TAKE i \in 1 .. m - 1
    <3>2. CASE i < k
      <4>1. i \in 1 .. m /\ i # k /\ r[i] = s[i]
        BY <1>1, <1>2, <1>7, <3>2
      <4> QED
        BY <1>1, <1>3, <4>1 DEF Range
    <3>3. CASE i >= k
      <4>1. i + 1 \in 1 .. m /\ i + 1 # k /\ r[i] = s[i + 1]
        BY <1>1, <1>2, <1>7, <3>3
      <4> QED
        BY <1>1, <1>3, <4>1 DEF Range
    <3> QED
      BY <1>1, <1>2, <3>2, <3>3
  <2> QED
    BY <1>8, <2>1 DEF Range
<1>10. Range(s) \ {n} \subseteq Range(r)
  <2>1. ASSUME NEW i \in 1 .. m, i # k PROVE \E j \in 1 .. m - 1 : r[j] = s[i]
    <3>1. CASE i < k
      <4>1. i \in 1 .. m - 1 /\ r[i] = s[i]
        BY <1>1, <1>2, <1>7, <3>1
      <4> QED
        BY <4>1
    <3>2. CASE i > k
      <4>1. i - 1 \in 1 .. m - 1 /\ ~(i - 1 < k) /\ (i - 1) + 1 = i
        BY <1>1, <1>2, <3>2
      <4>2. r[i - 1] = s[i]
        BY <1>7, <4>1
      <4> QED
        BY <4>1, <4>2
    <3> QED
      BY <1>1, <1>2, <2>1, <3>1, <3>2
  <2> QED
    BY <1>1, <1>2, <1>3, <1>8, <2>1 DEF Range
<1>11. IsInjective(r)
  <2>1. \A i \in 1 .. m, j \in 1 .. m : s[i] = s[j] => i = j
    BY <1>1 DEF IsInjective
  <2>2. ASSUME NEW i \in 1 .. m - 1, NEW j \in 1 .. m - 1, r[i] = r[j] PROVE i = j
    <3>1. i \in 1 .. m /\ j \in 1 .. m /\ i + 1 \in 1 .. m /\ j + 1 \in 1 .. m
      BY <1>1
    <3> QED
      BY <1>1, <1>2, <1>7, <2>1, <2>2, <3>1
  <2> QED
    BY <1>8, <2>2 DEF IsInjective
<1> QED
  BY <1>7, <1>9, <1>10, <1>11 DEF r

(* Two lists with different names make one.                                *)
LEMMA InjectiveConcat ==
  ASSUME NEW S, NEW s \in Seq(S), NEW u \in Seq(S),
         IsInjective(s), IsInjective(u), Range(s) \cap Range(u) = {}
  PROVE  IsInjective(s \o u)
<1>1. /\ Len(s) \in Nat /\ Len(u) \in Nat /\ DOMAIN s = 1 .. Len(s) /\ DOMAIN u = 1 .. Len(u)
      /\ DOMAIN (s \o u) = 1 .. Len(s) + Len(u)
      /\ \A i \in 1 .. Len(s) + Len(u) :
           (s \o u)[i] = IF i <= Len(s) THEN s[i] ELSE u[i - Len(s)]
  BY ConcatProperties
<1> DEFINE c == s \o u
<1> HIDE DEF c
<1>2. \A i \in 1 .. Len(s), j \in 1 .. Len(u) : s[i] # u[j]
  BY <1>1 DEF Range
<1>3. ASSUME NEW i \in 1 .. Len(s) + Len(u), NEW j \in 1 .. Len(s) + Len(u), c[i] = c[j]
      PROVE  i = j
  <2>1. /\ c[i] = IF i <= Len(s) THEN s[i] ELSE u[i - Len(s)]
        /\ c[j] = IF j <= Len(s) THEN s[j] ELSE u[j - Len(s)]
    BY <1>1 DEF c
  <2>2. CASE i <= Len(s) /\ j <= Len(s)
    <3>1. i \in DOMAIN s /\ j \in DOMAIN s
      BY <1>1, <2>2
    <3>2. s[i] = s[j]
      BY <1>3, <2>1, <2>2
    <3> QED
      BY <3>1, <3>2 DEF IsInjective
  <2>3. CASE i > Len(s) /\ j > Len(s)
    <3>1. i - Len(s) \in 1 .. Len(u) /\ j - Len(s) \in 1 .. Len(u)
      BY <1>1, <2>3
    <3>2. u[i - Len(s)] = u[j - Len(s)]
      <4>1. ~(i <= Len(s)) /\ ~(j <= Len(s))
        BY <1>1, <2>3
      <4> QED
        BY <1>3, <2>1, <4>1
    <3>3. i - Len(s) = j - Len(s)
      BY <1>1, <3>1, <3>2 DEF IsInjective
    <3> QED
      BY <1>1, <3>3
  <2>4. CASE i <= Len(s) /\ j > Len(s)
    <3>1. i \in 1 .. Len(s) /\ j - Len(s) \in 1 .. Len(u)
      BY <1>1, <2>4
    <3>2. ~(j <= Len(s)) /\ c[i] = s[i]
      BY <1>1, <2>1, <2>4
    <3>3. c[j] = u[j - Len(s)]
      BY <2>1, <3>2
    <3> QED
      BY <1>2, <1>3, <3>1, <3>2, <3>3
  <2>5. CASE i > Len(s) /\ j <= Len(s)
    <3>1. j \in 1 .. Len(s) /\ i - Len(s) \in 1 .. Len(u)
      BY <1>1, <2>5
    <3>2. ~(i <= Len(s)) /\ c[j] = s[j]
      BY <1>1, <2>1, <2>5
    <3>3. c[i] = u[i - Len(s)]
      BY <2>1, <3>2
    <3> QED
      BY <1>2, <1>3, <3>1, <3>2, <3>3
  <2> QED
    BY <1>1, <2>2, <2>3, <2>4, <2>5
<1>4. DOMAIN c = 1 .. Len(s) + Len(u)
  BY <1>1 DEF c
<1>5. IsInjective(c)
  BY <1>3, <1>4 DEF IsInjective
<1> QED
  BY <1>5 DEF c

-----------------------------------------------------------------------------
(* Paths.                                                                  *)

LEMMA PathSeq ==
  ASSUME NEW p \in Path
  PROVE  p \in Seq(Name) /\ Len(p) \in Nat /\ \A i \in 1 .. Len(p) : p[i] \in Name
<1>1. p \in Seq(UNION {Range(q) : q \in Path})
  BY LifecycleAssumption
<1>2. p \in Seq(Name)
  BY <1>1 DEF Name
<1> QED
  BY <1>2

LEMMA WithinElements ==
  ASSUME NEW S, NEW p \in Seq(S), NEW i \in 1 .. Len(p) + 1
  PROVE  /\ Within(p, i) \in Seq(S) /\ Len(Within(p, i)) = i - 1
         /\ \A j \in 1 .. i - 1 : Within(p, i)[j] = p[j]
<1>1. Len(p) \in Nat
  OBVIOUS
<1>2. CASE i = 1
  <2>1. Within(p, i) = <<>>
    BY <1>2 DEF Within
  <2>2. 1 .. i - 1 = {}
    BY <1>2
  <2>3. <<>> \in Seq(S) /\ Len(<<>>) = i - 1 /\ \A j \in 1 .. i - 1 : <<>>[j] = p[j]
    BY <1>2, <2>2
  <2> QED
    BY <2>1, <2>3
<1>3. CASE i # 1
  <2>1. 1 \in 1 .. Len(p) /\ i - 1 \in 1 .. Len(p)
    BY <1>1, <1>3
  <2> QED
    BY <2>1, SubSeqProperties DEF Within
<1> QED
  BY <1>2, <1>3

LEMMA WithinProperties ==
  ASSUME NEW S, NEW p \in Seq(S), NEW i \in 1 .. Len(p) + 1
  PROVE  /\ Within(p, i) \in Seq(S) /\ Len(Within(p, i)) = i - 1
         /\ \A j \in 1 .. i - 1 : Within(p, i)[j] = p[j]
         /\ \A j \in 1 .. i : Within(Within(p, i), j) = Within(p, j)
<1>1. Len(p) \in Nat
  OBVIOUS
<1>2. /\ Within(p, i) \in Seq(S) /\ Len(Within(p, i)) = i - 1
      /\ \A j \in 1 .. i - 1 : Within(p, i)[j] = p[j]
  BY WithinElements
<1>3. ASSUME NEW j \in 1 .. i PROVE Within(Within(p, i), j) = Within(p, j)
  <2> DEFINE w == Within(p, i)
  <2>1. /\ w \in Seq(S) /\ Len(w) = i - 1 /\ \A k \in 1 .. i - 1 : w[k] = p[k]
    BY <1>2
  <2> HIDE DEF w
  <2>2. j \in 1 .. Len(w) + 1 /\ j \in 1 .. Len(p) + 1
    BY <1>1, <2>1
  <2>3. Within(w, j) \in Seq(S) /\ Len(Within(w, j)) = j - 1 /\ \A k \in 1 .. j - 1 : Within(w, j)[k] = w[k]
    BY <2>1, <2>2, WithinElements
  <2>4. Within(p, j) \in Seq(S) /\ Len(Within(p, j)) = j - 1 /\ \A k \in 1 .. j - 1 : Within(p, j)[k] = p[k]
    BY <2>2, WithinElements
  <2>5. \A k \in 1 .. j - 1 : Within(w, j)[k] = Within(p, j)[k]
    <3> TAKE k \in 1 .. j - 1
    <3>1. k \in 1 .. i - 1
      BY <1>1
    <3> QED
      BY <2>1, <2>3, <2>4, <3>1
  <2>6. Within(w, j) = Within(p, j)
    BY <2>3, <2>4, <2>5, SeqEqual
  <2> QED
    BY <2>6 DEF w
<1> QED
  BY <1>2, <1>3

LEMMA WithinAll ==
  ASSUME NEW S, NEW p \in Seq(S) PROVE Within(p, Len(p) + 1) = p
<1> DEFINE n == Len(p) + 1
           w == Within(p, n)
<1>1. n \in 1 .. Len(p) + 1 /\ n - 1 = Len(p)
  OBVIOUS
<1>2. w \in Seq(S) /\ Len(w) = Len(p) /\ \A j \in 1 .. Len(p) : w[j] = p[j]
  <2> HIDE DEF n
  <2>1. w \in Seq(S) /\ Len(w) = n - 1 /\ \A j \in 1 .. n - 1 : w[j] = p[j]
    BY <1>1, WithinElements
  <2> QED
    BY <1>1, <2>1
<1> HIDE DEF w
<1>3. w = p
  BY <1>2, SeqEqual
<1> QED
  BY <1>3 DEF w

(* The tree of names is closed: whatever contains a path is a path.        *)
LEMMA WithinInPath ==
  ASSUME NEW p \in Path, NEW i \in 1 .. Len(p) + 1
  PROVE  Within(p, i) \in Path
<1>1. p \in Seq(Name) /\ Len(p) \in Nat
  BY PathSeq
<1> DEFINE T == {k \in 0 .. Len(p) : Within(p, Len(p) + 1 - k) \notin Path}
<1>2. T = {}
  <2> SUFFICES ASSUME T # {} PROVE FALSE
    OBVIOUS
  <2>1. T \in SUBSET Nat
    BY <1>1
  <2>2. PICK k \in T : \A m \in T : k <= m
    BY <2>1, LeastNumber
  <2>3. k \in 0 .. Len(p) /\ Within(p, Len(p) + 1 - k) \notin Path
    OBVIOUS
  <2>4. Within(p, Len(p) + 1) = p
    BY <1>1, WithinAll
  <2>5. k # 0
    BY <1>1, <2>3, <2>4
  <2>6. k - 1 \in 0 .. Len(p) /\ k - 1 \notin T
    BY <1>1, <2>2, <2>3, <2>5
  <2> DEFINE q == Within(p, Len(p) + 1 - (k - 1))
  <2>7. q \in Path
    BY <2>6
  <2>8. Len(p) + 1 - (k - 1) \in 1 .. Len(p) + 1 /\ Len(p) + 1 - k \in 1 .. Len(p) + 1 - (k - 1)
    BY <1>1, <2>3, <2>5
  <2>9. Len(q) = Len(p) + 1 - k /\ Within(q, Len(p) + 1 - k) = Within(p, Len(p) + 1 - k)
    <3> DEFINE i0 == Len(p) + 1 - (k - 1)
               j0 == Len(p) + 1 - k
    <3>1. i0 \in 1 .. Len(p) + 1 /\ j0 \in 1 .. i0 /\ i0 - 1 = j0
      BY <1>1, <2>3, <2>8
    <3> HIDE DEF i0, j0
    <3>2. Len(Within(p, i0)) = i0 - 1 /\ Within(Within(p, i0), j0) = Within(p, j0)
      BY <1>1, <3>1, WithinProperties
    <3> QED
      BY <3>1, <3>2 DEF i0, j0
  <2>10. Front(q) = Within(p, Len(p) + 1 - k)
    BY <2>9 DEF Front, Within
  <2>11. q # <<>>
    BY <1>1, <2>3, <2>9
  <2> QED
    BY <2>3, <2>7, <2>10, <2>11, LifecycleAssumption
<1>3. i = Len(p) + 1 - (Len(p) + 1 - i) /\ Len(p) + 1 - i \in 0 .. Len(p)
  BY <1>1
<1> HIDE DEF T
<1>4. Len(p) + 1 - i \notin T
  BY <1>2
<1> QED
  BY <1>3, <1>4 DEF T

(* A path is its container's path and a last name.                         *)
LEMMA LastName ==
  ASSUME NEW p \in Path \ {<<>>}
  PROVE  /\ Len(p) \in Nat \ {0} /\ Front(p) = Within(p, Len(p)) /\ Front(p) \in Path
         /\ p = Append(Front(p), p[Len(p)]) /\ p[Len(p)] \in Name /\ Len(Front(p)) = Len(p) - 1
<1>1. p \in Seq(Name) /\ Len(p) \in Nat \ {0} /\ p[Len(p)] \in Name
  BY PathSeq
<1>2. Front(p) = Within(p, Len(p))
  BY <1>1 DEF Front, Within
<1>3. Within(p, Len(p)) \in Path
  BY <1>1, WithinInPath
<1>4. /\ Within(p, Len(p)) \in Seq(Name) /\ Len(Within(p, Len(p))) = Len(p) - 1
      /\ \A j \in 1 .. Len(p) - 1 : Within(p, Len(p))[j] = p[j]
  BY <1>1, WithinProperties
<1> DEFINE f == Within(p, Len(p))
           a == Append(f, p[Len(p)])
<1> HIDE DEF f
<1>5. /\ a \in Seq(Name) /\ Len(a) = Len(p) /\ \A j \in 1 .. Len(p) - 1 : a[j] = p[j]
      /\ a[Len(p)] = p[Len(p)]
  <2>1. f \in Seq(Name) /\ Len(f) = Len(p) - 1 /\ \A j \in 1 .. Len(p) - 1 : f[j] = p[j]
    BY <1>4 DEF f
  <2> QED
    BY <1>1, <2>1, AppendProperties
<1>6. a = p
  <2> HIDE DEF a
  <2>1. \A j \in 1 .. Len(p) : a[j] = p[j]
    BY <1>1, <1>5
  <2> QED
    BY <1>1, <1>5, <2>1, SeqEqual
<1> QED
  BY <1>1, <1>2, <1>3, <1>4, <1>6 DEF f

LEMMA AppendToPath ==
  ASSUME NEW S, NEW q \in Seq(S), NEW n \in S
  PROVE  /\ Append(q, n) \in Seq(S) /\ Append(q, n) # <<>> /\ Len(Append(q, n)) = Len(q) + 1
         /\ Append(q, n)[Len(q) + 1] = n
         /\ \A i \in 1 .. Len(q) : Append(q, n)[i] = q[i]
         /\ \A i \in 1 .. Len(q) + 1 : Within(Append(q, n), i) = Within(q, i)
         /\ Within(q, Len(q) + 1) = q
<1> DEFINE a == Append(q, n)
<1>1. /\ a \in Seq(S) /\ a # <<>> /\ Len(a) = Len(q) + 1 /\ Len(q) \in Nat
      /\ a[Len(q) + 1] = n /\ \A i \in 1 .. Len(q) : a[i] = q[i]
  BY AppendProperties
<1> HIDE DEF a
<1>2. ASSUME NEW i \in 1 .. Len(q) + 1 PROVE Within(a, i) = Within(q, i)
  <2>1. /\ Within(q, i) \in Seq(S) /\ Len(Within(q, i)) = i - 1
        /\ \A j \in 1 .. i - 1 : Within(q, i)[j] = q[j]
    BY WithinProperties
  <2>2. i \in 1 .. Len(a) + 1
    BY <1>1
  <2>3. /\ Within(a, i) \in Seq(S) /\ Len(Within(a, i)) = i - 1
        /\ \A j \in 1 .. i - 1 : Within(a, i)[j] = a[j]
    BY <1>1, <2>2, WithinProperties
  <2>4. \A j \in 1 .. i - 1 : Within(a, i)[j] = Within(q, i)[j]
    <3> TAKE j \in 1 .. i - 1
    <3>1. j \in 1 .. Len(q)
      BY <1>1
    <3> QED
      BY <1>1, <2>1, <2>3, <3>1
  <2> QED
    BY <2>1, <2>3, <2>4, SeqEqual
<1>3. Within(q, Len(q) + 1) = q
  BY WithinAll
<1> QED
  BY <1>1, <1>2, <1>3 DEF a

(* The internal FBs of composites are no paths, and each is of one FB.     *)
LEMMA Internals ==
  ASSUME NEW b \in Path \ {<<>>}
  PROVE  /\ Append(b, Internal) \in Block \ Path /\ Append(b, Internal) # <<>>
         /\ Front(Append(b, Internal)) = b
         /\ \A c \in Path \ {<<>>} : Append(b, Internal) = Append(c, Internal) => b = c
<1>1. b \in Seq(Name) /\ Len(b) \in Nat
  BY PathSeq
<1> DEFINE S == Name \cup {Internal}
           a == Append(b, Internal)
<1>2. b \in Seq(S) /\ Internal \in S
  BY <1>1
<1>3. /\ a \in Seq(S) /\ a # <<>> /\ Len(a) = Len(b) + 1 /\ a[Len(b) + 1] = Internal
      /\ Within(a, Len(b) + 1) = b
  <2> HIDE DEF S, a
  <2>1. /\ a # <<>> /\ Len(a) = Len(b) + 1 /\ a[Len(b) + 1] = Internal /\ a \in Seq(S)
    BY <1>2, AppendToPath DEF a
  <2>2. Within(a, Len(b) + 1) = Within(b, Len(b) + 1) /\ Within(b, Len(b) + 1) = b
    <3>1. Len(b) + 1 \in 1 .. Len(b) + 1
      BY <1>1
    <3> QED
      BY <1>2, <3>1, AppendToPath DEF a
  <2> QED
    BY <2>1, <2>2
<1>4. a \notin Path
  <2> SUFFICES ASSUME a \in Path PROVE FALSE
    OBVIOUS
  <2>1. Internal \notin Range(a)
    BY <1>3, LifecycleAssumption
  <2> HIDE DEF a
  <2>2. Len(b) + 1 \in DOMAIN a
    BY <1>1, <1>3
  <2> QED
    BY <1>3, <2>1, <2>2 DEF Range
<1>5. Front(a) = b
  <2> HIDE DEF a
  <2>1. Front(a) = Within(a, Len(b) + 1)
    BY <1>1, <1>3 DEF Front, Within
  <2> QED
    BY <1>3, <2>1
<1>6. ASSUME NEW c \in Path \ {<<>>}, a = Append(c, Internal) PROVE b = c
  <2>1. c \in Seq(S)
    BY PathSeq
  <2> HIDE DEF S
  <2> QED
    BY <1>2, <1>6, <2>1, AppendInjective
<1>7. a \in Block
  BY DEF Block
<1> QED
  BY <1>3, <1>4, <1>5, <1>6, <1>7

LEMMA WithinStep ==
  ASSUME NEW p \in Path, NEW i \in 1 .. Len(p)
  PROVE  /\ Within(p, i) \in Path /\ Within(p, i + 1) \in Path \ {<<>>}
         /\ Append(Within(p, i), p[i]) = Within(p, i + 1)
         /\ Len(Within(p, i)) = i - 1 /\ Len(Within(p, i + 1)) = i
         /\ \A j \in 1 .. i - 1 : Within(p, i)[j] = p[j] /\ Within(Within(p, i), j) = Within(p, j)
<1>1. p \in Seq(Name) /\ Len(p) \in Nat
  BY PathSeq
<1> DEFINE k == i + 1
           q == Within(p, k)
<1>2. k \in 1 .. Len(p) + 1 /\ i \in 1 .. Len(p) + 1 /\ i \in 1 .. k /\ i \in 1 .. k - 1 /\ k - 1 = i
  BY <1>1
<1>3. q \in Path /\ Within(p, i) \in Path
  <2> HIDE DEF k
  <2> QED
    BY <1>2, WithinInPath
<1>4. q \in Seq(Name) /\ Len(q) = i /\ q[i] = p[i] /\ Within(q, i) = Within(p, i)
  <2> HIDE DEF k
  <2> QED
    BY <1>1, <1>2, WithinProperties
<1>5. /\ Len(Within(p, i)) = i - 1 /\ \A j \in 1 .. i - 1 : Within(p, i)[j] = p[j]
      /\ \A j \in 1 .. i : Within(Within(p, i), j) = Within(p, j)
  BY <1>1, <1>2, WithinProperties
<1>6. \A j \in 1 .. i - 1 : j \in 1 .. i
  BY <1>1
<1> HIDE DEF q
<1>7. q # <<>>
  BY <1>1, <1>4
<1>8. q = Append(Within(q, i), q[i])
  BY <1>3, <1>4, <1>7, LastName
<1> QED
  BY <1>3, <1>4, <1>5, <1>6, <1>7, <1>8 DEF q, k

LEMMA Constants ==
  /\ <<>> \in Path /\ Start \in Path \ {<<>>} /\ Len(Start) = 1 /\ Path \subseteq Block
  /\ Gone \notin Path /\ ExternalLimit \in Nat /\ PostLimit \in Nat
  /\ \A c \in Creations : c.path \in Path \ {<<>>} /\ c.type \in Type
  /\ \A c \in Commands : c.cmd \in Command /\ c.path \in Path
  /\ \A b \in Block : b \in Path \/ \E c \in Path \ {<<>>} : b = Append(c, Internal)
BY LifecycleAssumption DEF Block

-----------------------------------------------------------------------------
(* Containers.                                                             *)

Names == Shapes /\ NamesArePaths /\ NamesDiffer /\ Rooted

(* What findOrCreateContainer() does to the lists of sub-containers.       *)
LEMMA MadeContainers ==
  ASSUME Names, NEW p \in Path \ {<<>>}, MakeContainers(p)
  PROVE  /\ subs' \in [Path -> Seq(Name)]
         /\ \A q \in Path : /\ Range(subs[q]) \subseteq Range(subs'[q])
                            /\ IsInjective(subs'[q]) /\ Range(subs'[q]) \cap Range(fbs[q]) = {}
                            /\ \A n \in Range(subs'[q]) : Append(q, n) \in Path
                            /\ subs'[q] # <<>> \/ fbs[q] # <<>> => IsChain(q)'
         /\ subs'[Front(p)] = subs[Front(p)]
         /\ ~Blocked(p) => IsChain(Front(p))'
<1> USE DEF Names
<1>1. p \in Seq(Name) /\ Len(p) \in Nat /\ \A i \in 1 .. Len(p) : p[i] \in Name
  BY PathSeq
<1> DEFINE Makes(q, i) == ~Blocked(p) /\ q = Within(p, i) /\ ~IsContainer(p, i)
           Made(q) == \E i \in 1 .. Len(p) - 1 : Makes(q, i)
<1>2. subs \in [Path -> Seq(Name)] /\ fbs \in [Path -> Seq(Name)]
  BY DEF Shapes
<1>3. \A q \in Path : subs'[q] = IF Made(q) THEN Append(subs[q], p[Len(q) + 1]) ELSE subs[q]
  BY DEF MakeContainers
<1>4. ASSUME NEW q \in Path, NEW i \in 1 .. Len(p) - 1, Makes(q, i)
      PROVE  /\ Len(q) = i - 1 /\ p[i] \in Name
             /\ p[i] \notin Range(subs[q]) /\ p[i] \notin Range(fbs[q])
             /\ Append(q, p[i]) \in Path
             /\ subs'[q] = Append(subs[q], p[i])
  <2>1. i \in 1 .. Len(p) /\ (i - 1) + 1 = i
    BY <1>1
  <2>2. q = Within(p, i) /\ Len(q) = i - 1 /\ Append(q, p[i]) \in Path
    BY <1>4, <2>1, WithinStep
  <2>3. p[i] \notin Range(subs[q])
    BY <1>4 DEF IsContainer
  <2>4. p[i] \notin Range(fbs[q])
    BY <1>4 DEF Blocked, IsFB
  <2>5. subs'[q] = Append(subs[q], p[i])
    BY <1>3, <1>4, <2>1, <2>2
  <2> QED
    BY <1>1, <2>1, <2>2, <2>3, <2>4, <2>5
<1>5. ASSUME NEW q \in Path
      PROVE  /\ subs'[q] \in Seq(Name)
             /\ Range(subs[q]) \subseteq Range(subs'[q])
             /\ IsInjective(subs'[q]) /\ Range(subs'[q]) \cap Range(fbs[q]) = {}
             /\ \A n \in Range(subs'[q]) : Append(q, n) \in Path
  <2>1. CASE Made(q)
    <3>1. PICK i \in 1 .. Len(p) - 1 : Makes(q, i)
      BY <2>1
    <3>2. /\ p[i] \in Name /\ p[i] \notin Range(subs[q]) /\ p[i] \notin Range(fbs[q])
          /\ Append(q, p[i]) \in Path /\ subs'[q] = Append(subs[q], p[i])
      BY <1>4, <3>1
    <3> HIDE DEF Made, Makes
    <3>3. subs[q] \in Seq(Name) /\ IsInjective(subs[q]) /\ Range(subs[q]) \cap Range(fbs[q]) = {}
      BY <1>2 DEF NamesDiffer
    <3>4. \A n \in Range(subs[q]) : Append(q, n) \in Path
      BY DEF NamesArePaths
    <3>5. /\ subs'[q] \in Seq(Name) /\ Range(subs'[q]) = Range(subs[q]) \cup {p[i]}
          /\ IsInjective(subs'[q])
      BY <3>2, <3>3, RangeOfAppend
    <3> QED
      BY <3>2, <3>3, <3>4, <3>5
  <2>2. CASE ~Made(q)
    <3> HIDE DEF Made
    <3> QED
      BY <1>2, <1>3, <2>2 DEF NamesDiffer, NamesArePaths
  <2> QED
    BY <2>1, <2>2
<1> HIDE DEF Made
<1>6. subs' \in [Path -> Seq(Name)]
  <2>1. subs' = [q \in Path |-> subs'[q]]
    BY DEF MakeContainers
  <2> QED
    BY <1>5, <2>1
<1>7. ASSUME ~Blocked(p), NEW i \in 1 .. Len(p) - 1
      PROVE  p[i] \in Range(subs'[Within(p, i)])
  <2>1. i \in 1 .. Len(p)
    BY <1>1
  <2>2. Within(p, i) \in Path
    BY <2>1, WithinStep
  <2>3. CASE IsContainer(p, i)
    BY <1>5, <2>2, <2>3 DEF IsContainer
  <2>4. CASE ~IsContainer(p, i)
    <3>1. Makes(Within(p, i), i)
      BY <1>7, <2>4
    <3> HIDE DEF Makes
    <3>2. subs'[Within(p, i)] = Append(subs[Within(p, i)], p[i]) /\ p[i] \in Name
      BY <1>4, <2>2, <3>1
    <3> QED
      BY <1>2, <2>2, <3>2, RangeOfAppend
  <2> QED
    BY <2>3, <2>4
<1>8. ASSUME NEW q \in Path, IsChain(q) PROVE IsChain(q)'
  <2> SUFFICES ASSUME NEW j \in 1 .. Len(q) PROVE q[j] \in Range(subs'[Within(q, j)])
    BY DEF IsChain, IsContainer
  <2>1. q[j] \in Range(subs[Within(q, j)]) /\ Within(q, j) \in Path
    BY <1>8, WithinStep DEF IsChain, IsContainer
  <2> QED
    BY <1>5, <2>1
<1>9. ASSUME ~Blocked(p), NEW i \in 1 .. Len(p) PROVE IsChain(Within(p, i))'
  <2> SUFFICES ASSUME NEW j \in 1 .. Len(Within(p, i))
               PROVE  Within(p, i)[j] \in Range(subs'[Within(Within(p, i), j)])
    BY DEF IsChain, IsContainer
  <2>1. Len(Within(p, i)) = i - 1
    BY WithinStep
  <2>2. j \in 1 .. i - 1 /\ j \in 1 .. Len(p) - 1
    BY <1>1, <2>1
  <2>3. Within(p, i)[j] = p[j] /\ Within(Within(p, i), j) = Within(p, j)
    BY <2>2, WithinStep
  <2> QED
    BY <1>7, <1>9, <2>2, <2>3
<1>10. ASSUME NEW q \in Path, subs'[q] # <<>> \/ fbs[q] # <<>> PROVE IsChain(q)'
  <2>1. CASE subs[q] # <<>> \/ fbs[q] # <<>>
    BY <1>8, <2>1 DEF Rooted
  <2>2. CASE subs[q] = <<>> /\ fbs[q] = <<>>
    <3>1. Made(q)
      BY <1>3, <1>10, <2>2
    <3>2. PICK i \in 1 .. Len(p) - 1 : Makes(q, i)
      BY <3>1 DEF Made
    <3>3. i \in 1 .. Len(p)
      BY <1>1
    <3> QED
      BY <1>9, <3>2, <3>3
  <2> QED
    BY <2>1, <2>2
<1>11. /\ Front(p) = Within(p, Len(p)) /\ Front(p) \in Path /\ Len(Front(p)) = Len(p) - 1
       /\ Len(p) \in 1 .. Len(p)
  BY <1>1, LastName
<1>12. ~Made(Front(p))
  <2> SUFFICES ASSUME NEW i \in 1 .. Len(p) - 1, Makes(Front(p), i) PROVE FALSE
    BY DEF Made
  <2>1. Len(Front(p)) = i - 1
    BY <1>4, <1>11
  <2> QED
    BY <1>1, <1>11, <2>1
<1>13. subs'[Front(p)] = subs[Front(p)]
  BY <1>3, <1>11, <1>12
<1>14. ~Blocked(p) => IsChain(Front(p))'
  BY <1>9, <1>11
<1> QED
  BY <1>5, <1>6, <1>10, <1>13, <1>14

LEMMA LastIsFB ==
  ASSUME NEW b \in Path \ {<<>>}
  PROVE  IsFB(b, Len(b)) <=> b[Len(b)] \in Range(fbs[Front(b)])
BY LastName DEF IsFB

LEMMA SamePath ==
  ASSUME NEW b \in Path \ {<<>>}, NEW p \in Path \ {<<>>}
  PROVE  b = p <=> Front(b) = Front(p) /\ b[Len(b)] = p[Len(p)]
<1>1. b = Append(Front(b), b[Len(b)]) /\ p = Append(Front(p), p[Len(p)])
  BY LastName
<1> QED
  BY <1>1

(* createFB() adds p to the FBs there are, or leaves them as they are.     *)
LEMMA CreateNames ==
  ASSUME Names, StatesOfFBs, NEW p \in Path \ {<<>>}, NEW t \in Type, CreateFB(p, t)
  PROVE  Names' /\ StatesOfFBs'
<1> DEFINE f == Front(p)
           n == p[Len(p)]
           free == ~Blocked(p) /\ n \notin Range(fbs[f]) \cup Range(subs[f])
<1>1. /\ f \in Path /\ p = Append(f, n) /\ n \in Name /\ p \in Block /\ Append(p, Internal) \in Block
  BY LastName, Internals, Constants
<1>2. Shapes /\ NamesArePaths /\ NamesDiffer /\ Rooted
  BY DEF Names
<1>3. MakeContainers(p)
  BY DEF CreateFB
<1>4. /\ subs' \in [Path -> Seq(Name)]
      /\ \A q \in Path : /\ IsInjective(subs'[q]) /\ Range(subs'[q]) \cap Range(fbs[q]) = {}
                         /\ \A m \in Range(subs'[q]) : Append(q, m) \in Path
                         /\ subs'[q] # <<>> \/ fbs[q] # <<>> => IsChain(q)'
      /\ subs'[f] = subs[f]
      /\ ~Blocked(p) => IsChain(f)'
  BY <1>3, MadeContainers
<1>5. /\ last' = "none" /\ UNCHANGED <<posts, ecet, command, faults, event, ext, thread, sent>>
  BY DEF CreateFB, Manages
<1>6. ASSUME ~(free /\ t # "unknown") PROVE Names' /\ StatesOfFBs'
  <2>1. UNCHANGED <<fbs, type, fbState>>
    BY <1>6 DEF CreateFB
  <2>2. Shapes'
    BY <1>2, <1>4, <1>5, <2>1 DEF Shapes
  <2>3. NamesArePaths' /\ NamesDiffer'
    BY <1>2, <1>4, <2>1 DEF NamesArePaths, NamesDiffer
  <2>4. Rooted'
    BY <1>4, <2>1 DEF Rooted
  <2>5. StatesOfFBs'
    BY <2>1 DEF StatesOfFBs, Exists, IsFB
  <2> QED
    BY <2>2, <2>3, <2>4, <2>5 DEF Names
<1>7. ASSUME free /\ t # "unknown" PROVE Names' /\ StatesOfFBs'
  <2>1. /\ fbs' = [fbs EXCEPT ![f] = Append(@, n)]
        /\ type' = [type EXCEPT ![p] = t]
        /\ fbState' = [b \in Block |-> IF b = p \/ (t = "composite" /\ b = Append(p, Internal))
                                       THEN "IDLE" ELSE fbState[b]]
    BY <1>7 DEF CreateFB
  <2>2. fbs[f] \in Seq(Name) /\ IsInjective(fbs[f]) /\ n \notin Range(fbs[f])
    BY <1>1, <1>2, <1>7 DEF Shapes, NamesDiffer
  <2>3. /\ fbs'[f] \in Seq(Name) /\ IsInjective(fbs'[f])
        /\ Range(fbs'[f]) = Range(fbs[f]) \cup {n}
    <3>1. fbs'[f] = Append(fbs[f], n)
      BY <1>1, <1>2, <2>1 DEF Shapes
    <3> QED
      BY <1>1, <2>2, <3>1, RangeOfAppend
  <2>4. fbs' \in [Path -> Seq(Name)] /\ \A q \in Path : q # f => fbs'[q] = fbs[q]
    BY <1>1, <1>2, <2>1, <2>3 DEF Shapes
  <2>5. type' \in [Path -> Type] /\ fbState' \in [Block -> State]
    BY <1>1, <1>2, <2>1 DEF Shapes, State
  <2>6. Shapes'
    BY <1>2, <1>4, <1>5, <2>4, <2>5 DEF Shapes
  <2>7. NamesArePaths'
    BY <1>1, <1>2, <1>4, <2>3, <2>4 DEF NamesArePaths
  <2>8. NamesDiffer'
    <3>1. IsInjective(subs'[f]) /\ IsInjective(fbs'[f]) /\ Range(subs'[f]) \cap Range(fbs'[f]) = {}
      BY <1>1, <1>4, <1>7, <2>3
    <3>2. \A q \in Path : q # f =>
            IsInjective(subs'[q]) /\ IsInjective(fbs'[q]) /\ Range(subs'[q]) \cap Range(fbs'[q]) = {}
      BY <1>2, <1>4, <2>4 DEF NamesDiffer
    <3> QED
      BY <3>1, <3>2 DEF NamesDiffer
  <2>9. Rooted'
    BY <1>4, <1>7, <2>4 DEF Rooted
  <2>10. \A b \in Path \ {<<>>} : IsFB(b, Len(b))' <=> IsFB(b, Len(b)) \/ b = p
    <3> TAKE b \in Path \ {<<>>}
    <3>1. IsFB(b, Len(b))' <=> b[Len(b)] \in Range(fbs'[Front(b)])
      BY LastName DEF IsFB
    <3>2. IsFB(b, Len(b)) <=> b[Len(b)] \in Range(fbs[Front(b)])
      BY LastIsFB
    <3>3. Front(b) \in Path
      BY LastName
    <3> QED
      BY <2>3, <2>4, <3>1, <3>2, <3>3, SamePath
  <2>11. ~IsFB(p, Len(p))
    BY <1>7, LastIsFB
  <2>12. StatesOfFBs'
    <3>1. Exists(<<>>)' /\ type'[<<>>] = "plain"
      BY <1>1, <1>2, <2>1, Internals, Constants DEF StatesOfFBs, Exists, Shapes
    <3>2. ASSUME NEW b \in Path \ {<<>>}
          PROVE  /\ Exists(b)' <=> IsFB(b, Len(b))'
                 /\ Exists(Append(b, Internal))' <=> IsFB(b, Len(b))' /\ type'[b] = "composite"
      <4> DEFINE i == Append(b, Internal)
      <4>1. b \in Block /\ i \in Block \ Path /\ b # Append(p, Internal) /\ i # p
        <5>1. Append(p, Internal) \notin Path
          BY Internals
        <5>2. i \in Block \ Path
          BY Internals
        <5> QED
          BY <5>1, <5>2, Constants
      <4>2. i = Append(p, Internal) <=> b = p
        BY Internals
      <4>3. /\ Exists(b) <=> IsFB(b, Len(b))
            /\ Exists(i) <=> IsFB(b, Len(b)) /\ type[b] = "composite"
        BY DEF StatesOfFBs
      <4> HIDE DEF i
      <4>4. fbState'[b] = IF b = p THEN "IDLE" ELSE fbState[b]
        BY <2>1, <4>1
      <4>5. fbState'[i] = IF b = p /\ t = "composite" THEN "IDLE" ELSE fbState[i]
        BY <2>1, <4>1, <4>2
      <4>6. type'[b] = IF b = p THEN t ELSE type[b]
        BY <1>2, <2>1 DEF Shapes
      <4>7. CASE b = p
        BY <2>10, <2>11, <4>3, <4>4, <4>5, <4>6, <4>7 DEF Exists, i
      <4>8. CASE b # p
        BY <2>10, <4>3, <4>4, <4>5, <4>6, <4>8 DEF Exists, i
      <4> QED
        BY <4>7, <4>8
    <3> QED
      BY <3>1, <3>2 DEF StatesOfFBs
  <2> QED
    BY <2>6, <2>7, <2>8, <2>9, <2>12 DEF Names
<1> QED
  BY <1>6, <1>7

(* deleteFB() takes p from the FBs there are, or leaves them as they are.  *)
LEMMA DeleteNames ==
  ASSUME Names, StatesOfFBs, NEW p \in Path \ {<<>>}, DeleteFB(p)
  PROVE  Names' /\ StatesOfFBs'
<1> DEFINE f == Front(p)
           n == p[Len(p)]
           deletes == ~Blocked(p) /\ n \in Range(fbs[f]) /\ fbState[p] # "RUNNING"
<1>1. /\ f \in Path /\ p = Append(f, n) /\ n \in Name /\ p \in Block /\ Append(p, Internal) \in Block
  BY LastName, Internals, Constants
<1>2. Shapes /\ NamesArePaths /\ NamesDiffer /\ Rooted
  BY DEF Names
<1>3. MakeContainers(p)
  BY DEF DeleteFB
<1>4. /\ subs' \in [Path -> Seq(Name)]
      /\ \A q \in Path : /\ IsInjective(subs'[q]) /\ Range(subs'[q]) \cap Range(fbs[q]) = {}
                         /\ \A m \in Range(subs'[q]) : Append(q, m) \in Path
                         /\ subs'[q] # <<>> \/ fbs[q] # <<>> => IsChain(q)'
      /\ subs'[f] = subs[f]
      /\ ~Blocked(p) => IsChain(f)'
  BY <1>3, MadeContainers
<1>5. last' = "none" /\ UNCHANGED <<ecet, command, faults, type>>
  BY DEF DeleteFB, Manages
<1>6. ASSUME ~deletes PROVE Names' /\ StatesOfFBs'
  <2>1. UNCHANGED <<fbs, fbState, event, posts, sent, ext, thread>>
    BY <1>6 DEF DeleteFB
  <2>2. Shapes'
    BY <1>2, <1>4, <1>5, <2>1 DEF Shapes
  <2>3. NamesArePaths' /\ NamesDiffer'
    BY <1>2, <1>4, <2>1 DEF NamesArePaths, NamesDiffer
  <2>4. Rooted'
    BY <1>4, <2>1 DEF Rooted
  <2>5. StatesOfFBs'
    BY <1>5, <2>1 DEF StatesOfFBs, Exists, IsFB
  <2> QED
    BY <2>2, <2>3, <2>4, <2>5 DEF Names
<1>7. ASSUME deletes PROVE Names' /\ StatesOfFBs'
  <2>1. /\ fbs' = [fbs EXCEPT ![f] = RemoveFirst(@, n)]
        /\ fbState' = [b \in Block |-> IF b \in {p, Append(p, Internal)} THEN "none" ELSE fbState[b]]
        /\ event' = [event EXCEPT ![p] = "none"] /\ sent' = [sent EXCEPT ![p] = "none"]
        /\ posts' = [posts EXCEPT ![p] = 0]
        /\ ext' = [i \in DOMAIN ext |-> IF ext[i] = p THEN Gone ELSE ext[i]]
        /\ thread' = IF thread.block = p THEN [thread EXCEPT !.block = Gone] ELSE thread
    BY <1>7 DEF DeleteFB
  <2>2. fbs[f] \in Seq(Name) /\ IsInjective(fbs[f]) /\ n \in Range(fbs[f])
    BY <1>1, <1>2, <1>7 DEF Shapes, NamesDiffer
  <2>3. /\ fbs'[f] \in Seq(Name) /\ IsInjective(fbs'[f])
        /\ Range(fbs'[f]) = Range(fbs[f]) \ {n}
    <3>1. fbs'[f] = RemoveFirst(fbs[f], n)
      BY <1>1, <1>2, <2>1 DEF Shapes
    <3> QED
      BY <1>1, <2>2, <3>1, RangeOfRemoveFirst
  <2>4. fbs' \in [Path -> Seq(Name)] /\ \A q \in Path : q # f => fbs'[q] = fbs[q]
    BY <1>1, <1>2, <2>1, <2>3 DEF Shapes
  <2>5. fbState' \in [Block -> State]
    BY <1>1, <1>2, <2>1 DEF Shapes, State
  <2>6. event' \in [Path -> Sendable] /\ sent' \in [Path -> Sendable] /\ posts' \in [Path -> 0 .. PostLimit]
    BY <1>2, <2>1, Constants DEF Shapes, Sendable
  <2>7. ext' \in Seq(Path \cup {Gone}) /\ Len(ext') <= ExternalLimit
    <3>1. ext \in Seq(Path \cup {Gone}) /\ Len(ext) <= ExternalLimit
      BY <1>2 DEF Shapes
    <3> QED
      BY <2>1, <3>1
  <2>8. thread' \in [at : {"idle", "send", "test", "post"}, block : Path \cup {Gone}]
    BY <1>2, <2>1 DEF Shapes
  <2>9. Shapes'
    BY <1>2, <1>4, <1>5, <2>4, <2>5, <2>6, <2>7, <2>8 DEF Shapes
  <2>10. NamesArePaths'
    BY <1>1, <1>2, <1>4, <2>3, <2>4 DEF NamesArePaths
  <2>11. NamesDiffer'
    <3>1. IsInjective(subs'[f]) /\ IsInjective(fbs'[f]) /\ Range(subs'[f]) \cap Range(fbs'[f]) = {}
      BY <1>1, <1>4, <2>3
    <3>2. \A q \in Path : q # f =>
            IsInjective(subs'[q]) /\ IsInjective(fbs'[q]) /\ Range(subs'[q]) \cap Range(fbs'[q]) = {}
      BY <1>2, <1>4, <2>4 DEF NamesDiffer
    <3> QED
      BY <3>1, <3>2 DEF NamesDiffer
  <2>12. Rooted'
    BY <1>4, <1>7, <2>4 DEF Rooted
  <2>13. \A b \in Path \ {<<>>} : IsFB(b, Len(b))' <=> IsFB(b, Len(b)) /\ b # p
    <3> TAKE b \in Path \ {<<>>}
    <3>1. IsFB(b, Len(b))' <=> b[Len(b)] \in Range(fbs'[Front(b)])
      BY LastName DEF IsFB
    <3>2. IsFB(b, Len(b)) <=> b[Len(b)] \in Range(fbs[Front(b)])
      BY LastIsFB
    <3>3. Front(b) \in Path
      BY LastName
    <3> QED
      BY <2>3, <2>4, <3>1, <3>2, <3>3, SamePath
  <2>14. StatesOfFBs'
    <3>1. Exists(<<>>)' /\ type'[<<>>] = "plain"
      BY <1>1, <1>2, <1>5, <2>1, Internals, Constants DEF StatesOfFBs, Exists, Shapes
    <3>2. ASSUME NEW b \in Path \ {<<>>}
          PROVE  /\ Exists(b)' <=> IsFB(b, Len(b))'
                 /\ Exists(Append(b, Internal))' <=> IsFB(b, Len(b))' /\ type'[b] = "composite"
      <4> DEFINE i == Append(b, Internal)
      <4>1. b \in Block /\ i \in Block \ Path /\ b # Append(p, Internal) /\ i # p
        <5>1. Append(p, Internal) \notin Path
          BY Internals
        <5>2. i \in Block \ Path
          BY Internals
        <5> QED
          BY <5>1, <5>2, Constants
      <4>2. i = Append(p, Internal) <=> b = p
        BY Internals
      <4>3. /\ Exists(b) <=> IsFB(b, Len(b))
            /\ Exists(i) <=> IsFB(b, Len(b)) /\ type[b] = "composite"
        BY DEF StatesOfFBs
      <4> HIDE DEF i
      <4>4. fbState'[b] = IF b = p THEN "none" ELSE fbState[b]
        BY <2>1, <4>1
      <4>5. fbState'[i] = IF b = p THEN "none" ELSE fbState[i]
        BY <2>1, <4>1, <4>2
      <4>6. CASE b = p
        BY <2>13, <4>3, <4>4, <4>5, <4>6 DEF Exists, i
      <4>7. CASE b # p
        BY <1>5, <2>13, <4>3, <4>4, <4>5, <4>7 DEF Exists, i
      <4> QED
        BY <4>6, <4>7
    <3> QED
      BY <3>1, <3>2 DEF StatesOfFBs
  <2> QED
    BY <2>9, <2>10, <2>11, <2>12, <2>14 DEF Names
<1> QED
  BY <1>6, <1>7

-----------------------------------------------------------------------------
(* Types.                                                                  *)

At6 == {"idle", "walk", "store", "rerun", "queue", "wait"}

LEMMA ListsKept ==
  ASSUME Names, StatesOfFBs, UNCHANGED lists, Shapes',
         \A b \in Block : fbState'[b] = "none" <=> fbState[b] = "none"
  PROVE  Names' /\ StatesOfFBs'
<1>1. UNCHANGED <<subs, fbs, type>>
  BY DEF lists
<1>2. NamesArePaths' /\ NamesDiffer' /\ Rooted'
  BY <1>1 DEF Names, NamesArePaths, NamesDiffer, Rooted, IsChain, IsContainer
<1>3. \A b \in Block : Exists(b)' <=> Exists(b)
  BY DEF Exists
<1>4. \A b \in Path : IsFB(b, Len(b))' <=> IsFB(b, Len(b))
  BY <1>1 DEF IsFB
<1>5. StatesOfFBs'
  <2>1. Exists(<<>>)' /\ type'[<<>>] = "plain"
    BY <1>1, <1>3, Constants DEF StatesOfFBs
  <2>2. ASSUME NEW b \in Path \ {<<>>}
        PROVE  /\ Exists(b)' <=> IsFB(b, Len(b))'
               /\ Exists(Append(b, Internal))' <=> IsFB(b, Len(b))' /\ type'[b] = "composite"
    <3>1. b \in Block /\ Append(b, Internal) \in Block
      BY Internals, Constants
    <3> QED
      BY <1>1, <1>3, <1>4, <3>1 DEF StatesOfFBs
  <2> QED
    BY <2>1, <2>2 DEF StatesOfFBs
<1> QED
  BY <1>2, <1>5 DEF Names

LEMMA EntersStep ==
  ASSUME Shapes, NEW b \in Block, NEW cmd \in Command, Enters(b, cmd)
  PROVE  /\ fbState' \in [Block -> State]
         /\ \A c \in Block : fbState'[c] = IF c = b /\ Accepts(b, cmd) THEN To(cmd) ELSE fbState[c]
         /\ \A c \in Block : fbState'[c] = "none" <=> fbState[c] = "none"
         /\ To(cmd) # "none" /\ (Accepts(b, cmd) => fbState[b] # "none")
<1>1. To(cmd) \in State \ {"none"} /\ "none" \notin From(cmd)
  BY DEF To, From, Command, State
<1>2. fbState \in [Block -> State]
  BY DEF Shapes
<1>3. CASE Accepts(b, cmd)
  <2>1. fbState' = [fbState EXCEPT ![b] = To(cmd)]
    BY <1>3 DEF Enters
  <2>2. fbState[b] # "none"
    BY <1>1, <1>3 DEF Accepts
  <2> QED
    BY <1>1, <1>2, <1>3, <2>1, <2>2
<1>4. CASE ~Accepts(b, cmd)
  <2>1. fbState' = fbState
    BY <1>4 DEF Enters
  <2> QED
    BY <1>1, <1>2, <1>4, <2>1
<1> QED
  BY <1>3, <1>4

LEMMA ItemParts ==
  ASSUME NEW v \in Item
  PROVE  /\ v.path \in Block /\ v.kind \in {"FB", "container"}
         /\ v.kind = "FB" => v = ToFB(v.path)
         /\ v.kind = "container" => v.path \in Path /\ v = ToContainer(v.path)
BY Constants DEF Item, ToFB, ToContainer

LEMMA TodoParts ==
  ASSUME Shapes, command.todo # <<>>
  PROVE  /\ command.todo \in Seq(Item) /\ Len(command.todo) \in Nat \ {0}
         /\ Head(command.todo) = command.todo[1] /\ Head(command.todo) \in Item
         /\ Tail(command.todo) \in Seq(Item) /\ Len(Tail(command.todo)) = Len(command.todo) - 1
         /\ \A i \in 1 .. Len(command.todo) - 1 : Tail(command.todo)[i] = command.todo[i + 1]
         /\ Current \in Block
<1>1. command.todo \in Seq(Item)
  BY DEF Shapes
<1> DEFINE s == command.todo
<1> HIDE DEF s
<1>2. s \in Seq(Item) /\ s # <<>>
  BY <1>1 DEF s
<1>3. /\ Len(s) \in Nat \ {0} /\ Head(s) = s[1] /\ Head(s) \in Item /\ Tail(s) \in Seq(Item)
      /\ Len(Tail(s)) = Len(s) - 1 /\ \A i \in 1 .. Len(s) - 1 : Tail(s)[i] = s[i + 1]
  BY <1>2
<1> QED
  BY <1>2, <1>3, ItemParts DEF s, Current

(* What a command finds in a container.                                    *)
LEMMA InsideType ==
  ASSUME Names, NEW p \in Path
  PROVE  /\ Inside(p) \in Seq(Item)
         /\ \A n \in Range(subs[p]) : \E i \in 1 .. Len(Inside(p)) : Inside(p)[i] = ToContainer(Append(p, n))
         /\ \A n \in Range(fbs[p]) : \E i \in 1 .. Len(Inside(p)) : Inside(p)[i] = ToFB(Append(p, n))
<1> DEFINE s == subs[p]
           u == fbs[p]
           a == [i \in DOMAIN s |-> ToContainer(Append(p, s[i]))]
           b == [i \in DOMAIN u |-> ToFB(Append(p, u[i]))]
<1>1. s \in Seq(Name) /\ u \in Seq(Name)
  BY DEF Names, Shapes
<1>2. \A n \in Range(s) \cup Range(u) : Append(p, n) \in Path /\ Append(p, n) \in Block
  BY Constants DEF Names, NamesArePaths
<1>3. Inside(p) = a \o b
  BY DEF Inside
<1> HIDE DEF s, u
<1>4. /\ DOMAIN s = 1 .. Len(s) /\ DOMAIN u = 1 .. Len(u) /\ Len(s) \in Nat /\ Len(u) \in Nat
  BY <1>1
<1>5. a \in Seq(Item) /\ Len(a) = Len(s) /\ \A i \in 1 .. Len(s) : a[i] = ToContainer(Append(p, s[i]))
  <2>1. \A i \in 1 .. Len(s) : ToContainer(Append(p, s[i])) \in Item
    BY <1>2, <1>4 DEF Item, Range
  <2> QED
    BY <1>4, <2>1
<1>6. b \in Seq(Item) /\ Len(b) = Len(u) /\ \A i \in 1 .. Len(u) : b[i] = ToFB(Append(p, u[i]))
  <2>1. \A i \in 1 .. Len(u) : ToFB(Append(p, u[i])) \in Item
    BY <1>2, <1>4 DEF Item, Range
  <2> QED
    BY <1>4, <2>1
<1> DEFINE c == Inside(p)
<1> HIDE DEF a, b, c
<1>7. /\ c \in Seq(Item) /\ Len(c) = Len(s) + Len(u)
      /\ \A i \in 1 .. Len(s) + Len(u) : c[i] = IF i <= Len(s) THEN a[i] ELSE b[i - Len(s)]
  <2>1. c = a \o b /\ a \in Seq(Item) /\ b \in Seq(Item)
    BY <1>3, <1>5, <1>6 DEF c
  <2>2. /\ c \in Seq(Item) /\ Len(c) = Len(a) + Len(b)
        /\ \A i \in 1 .. Len(a) + Len(b) : c[i] = IF i <= Len(a) THEN a[i] ELSE b[i - Len(a)]
    BY <2>1, ConcatProperties
  <2>3. Len(a) = Len(s) /\ Len(b) = Len(u)
    BY <1>5, <1>6
  <2> QED
    BY <2>2, <2>3
<1>8. ASSUME NEW n \in Range(s) PROVE \E i \in 1 .. Len(c) : c[i] = ToContainer(Append(p, n))
  <2>1. PICK i \in 1 .. Len(s) : s[i] = n
    BY <1>4 DEF Range
  <2>2. i \in 1 .. Len(c) /\ i <= Len(s) /\ i \in 1 .. Len(s) + Len(u)
    BY <1>4, <1>7
  <2>3. c[i] = a[i]
    BY <1>7, <2>2
  <2> QED
    BY <1>5, <2>1, <2>2, <2>3
<1>9. ASSUME NEW n \in Range(u) PROVE \E i \in 1 .. Len(c) : c[i] = ToFB(Append(p, n))
  <2>1. PICK i \in 1 .. Len(u) : u[i] = n
    BY <1>4 DEF Range
  <2> DEFINE j == Len(s) + i
  <2>2. j \in 1 .. Len(s) + Len(u) /\ j \in 1 .. Len(c) /\ ~(j <= Len(s)) /\ j - Len(s) = i
    BY <1>4, <1>7
  <2> HIDE DEF j
  <2>3. c[j] = b[i]
    BY <1>7, <2>2
  <2>4. c[j] = ToFB(Append(p, n))
    BY <1>6, <2>1, <2>3
  <2> QED
    BY <2>2, <2>4
<1> QED
  BY <1>7, <1>8, <1>9 DEF c, s, u

LEMMA PassedToType ==
  ASSUME Names, NEW b \in Block
  PROVE  PassedTo(b) \in Seq(Item)
<1>1. CASE b = <<>>
  BY <1>1, InsideType, Constants DEF PassedTo
<1>2. CASE b # <<>> /\ IsComposite(b)
  <2>1. Append(b, Internal) \in Block
    BY <1>2, Internals DEF IsComposite
  <2>2. ToFB(Append(b, Internal)) \in Item
    BY <2>1 DEF Item
  <2>3. PassedTo(b) = <<ToFB(Append(b, Internal))>>
    BY <1>2 DEF PassedTo
  <2> QED
    BY <2>2, <2>3
<1>3. CASE b # <<>> /\ ~IsComposite(b)
  <2>1. PassedTo(b) = <<>>
    BY <1>3 DEF PassedTo
  <2> QED
    BY <2>1
<1> QED
  BY <1>1, <1>2, <1>3

CommandType ==
  command \in [at : At6, cmd : Command \cup {"none"}, todo : Seq(Item), whole : BOOLEAN]

LEMMA GoesStep ==
  ASSUME CommandType, NEW place \in At6, Goes(place)
  PROVE  /\ CommandType' /\ command'.at = place
         /\ command'.cmd = command.cmd /\ command'.todo = command.todo /\ command'.whole = command.whole
BY DEF CommandType, Goes

LEMMA OnwardStep ==
  ASSUME CommandType, command.todo # <<>>, NEW visits \in Seq(Item), Onward(visits)
  PROVE  /\ CommandType' /\ command'.at = "walk"
         /\ command'.cmd = command.cmd /\ command'.todo = visits \o Tail(command.todo)
         /\ command'.whole = command.whole
<1>1. command' = [command EXCEPT !.at = "walk", !.todo = visits \o Tail(@)]
  BY DEF Onward
<1>2. command.todo \in Seq(Item)
  BY DEF CommandType
<1>3. visits \o Tail(command.todo) \in Seq(Item)
  BY <1>2, HeadTailProperties, ConcatProperties
<1> QED
  BY <1>1, <1>3 DEF CommandType, At6

-----------------------------------------------------------------------------
(* What holds also after a race.                                           *)

Base == Names /\ StatesOfFBs /\ AtRestart /\ EventsOfRestarts

LEMMA InitBase == Init => Base
<1> SUFFICES ASSUME Init PROVE Base
  OBVIOUS
<1>1. Start \in Seq(Name) /\ Len(Start) = 1 /\ DOMAIN Start = {1} /\ Start[1] \in Name
  BY PathSeq, Constants
<1>2. /\ subs = [p \in Path |-> <<>>] /\ fbs = [p \in Path |-> IF p = <<>> THEN Start ELSE <<>>]
      /\ type = [b \in Path |-> IF b = Start THEN "E_RESTART" ELSE "plain"]
      /\ fbState = [b \in Block |-> IF b \in {<<>>, Start} THEN "IDLE" ELSE "none"]
      /\ event = [b \in Path |-> "none"] /\ posts = [b \in Path |-> 0]
      /\ ecet = "new" /\ ext = <<>> /\ thread = NoEvent
      /\ command = NoCommand /\ last = "none" /\ sent = [b \in Path |-> "none"] /\ faults = {}
  BY DEF Init
<1>3. Shapes
  <2>1. subs \in [Path -> Seq(Name)] /\ fbs \in [Path -> Seq(Name)]
    BY <1>1, <1>2
  <2>2. type \in [Path -> Type] /\ fbState \in [Block -> State]
    BY <1>2 DEF Type, State
  <2>3. event \in [Path -> Sendable] /\ sent \in [Path -> Sendable] /\ posts \in [Path -> 0 .. PostLimit]
    BY <1>2, Constants DEF Sendable
  <2>4. /\ ext \in Seq(Path \cup {Gone}) /\ Len(ext) <= ExternalLimit
    BY <1>2, Constants
  <2>5. /\ thread \in [at : {"idle", "send", "test", "post"}, block : Path \cup {Gone}]
        /\ command \in [at : {"idle", "walk", "store", "rerun", "queue", "wait"},
                        cmd : Command \cup {"none"}, todo : Seq(Item), whole : BOOLEAN]
    BY <1>2, Constants DEF NoEvent, NoCommand
  <2> QED
    BY <1>2, <2>1, <2>2, <2>3, <2>4, <2>5 DEF Shapes
<1>4. Front(Start) = <<>> /\ Start = Append(<<>>, Start[1])
  <2>1. Front(Start) \in Path /\ Len(Front(Start)) = 0 /\ Start = Append(Front(Start), Start[1])
    BY <1>1, LastName, Constants
  <2> QED
    BY <2>1, PathSeq
<1>5. Range(Start) = {Start[1]} /\ IsInjective(Start)
  BY <1>1 DEF Range, IsInjective
<1>6. /\ \A p \in Path : Range(subs[p]) = {} /\ subs[p] = <<>>
      /\ \A p \in Path : p # <<>> => Range(fbs[p]) = {} /\ fbs[p] = <<>>
      /\ Range(fbs[<<>>]) = {Start[1]}
  <2>1. \A x : <<>> # x => TRUE
    OBVIOUS
  <2>2. DOMAIN <<>> = {}
    OBVIOUS
  <2>3. Range(<<>>) = {}
    BY <2>2 DEF Range
  <2> QED
    BY <1>2, <1>5, <2>3, Constants
<1>7. NamesArePaths
  BY <1>4, <1>6, Constants DEF NamesArePaths
<1>8. NamesDiffer
  <2>1. IsInjective(<<>>)
    BY DEF IsInjective
  <2> QED
    BY <1>2, <1>5, <1>6, <2>1 DEF NamesDiffer
<1>9. Rooted
  <2>1. IsChain(<<>>)
    BY DEF IsChain
  <2> QED
    BY <1>6, <2>1 DEF Rooted
<1>10. StatesOfFBs
  <2>1. Exists(<<>>) /\ type[<<>>] = "plain"
    BY <1>2, Constants DEF Exists
  <2>2. ASSUME NEW b \in Path \ {<<>>}
        PROVE  /\ Exists(b) <=> IsFB(b, Len(b))
               /\ Exists(Append(b, Internal)) <=> IsFB(b, Len(b)) /\ type[b] = "composite"
    <3>1. Front(b) \in Path /\ b \in Block
      BY LastName, Constants
    <3>2. IsFB(b, Len(b)) <=> b = Start
      <4>1. IsFB(b, Len(b)) <=> b[Len(b)] \in Range(fbs[Front(b)])
        BY LastIsFB
      <4>2. b = Start <=> Front(b) = <<>> /\ b[Len(b)] = Start[1]
        BY <1>1, <1>4, SamePath, Constants
      <4> QED
        BY <1>6, <3>1, <4>1, <4>2
    <3>3. Exists(b) <=> b = Start
      BY <1>2, <3>1 DEF Exists
    <3>4. ~Exists(Append(b, Internal))
      <4>1. Append(b, Internal) \in Block /\ Append(b, Internal) \notin Path
        BY Internals
      <4>2. Append(b, Internal) # <<>> /\ Append(b, Internal) # Start
        BY <4>1, Constants
      <4> HIDE DEF Init
      <4> QED
        BY <1>2, <4>1, <4>2 DEF Exists
    <3>5. type[b] # "composite"
      BY <1>2
    <3> QED
      BY <3>2, <3>3, <3>4, <3>5
  <2> QED
    BY <2>1, <2>2 DEF StatesOfFBs
<1>11. AtRestart
  BY <1>2 DEF AtRestart, InRestart, At, NoCommand
<1>12. EventsOfRestarts
  BY <1>2 DEF EventsOfRestarts
<1> QED
  BY <1>3, <1>7, <1>8, <1>9, <1>10, <1>11, <1>12 DEF Base, Names

(* The event chain thread leaves the command and the events alone.         *)
LEMMA ChainKeeps ==
  ASSUME Base, Shapes', UNCHANGED <<lists, command, event>>,
         \A b \in Block : fbState'[b] = "none" <=> fbState[b] = "none"
  PROVE  Base'
<1>1. Names' /\ StatesOfFBs'
  BY ListsKept DEF Base
<1>2. UNCHANGED <<subs, fbs, type>>
  BY DEF lists
<1>3. \A b \in Path : Exists(b)' <=> Exists(b)
  BY Constants DEF Exists
<1>4. AtRestart'
  BY <1>2, <1>3 DEF Base, AtRestart, InRestart, At, Current
<1>5. EventsOfRestarts'
  BY <1>2, <1>3 DEF Base, EventsOfRestarts
<1> QED
  BY <1>1, <1>4, <1>5 DEF Base

LEMMA ThreadTypes ==
  ASSUME Shapes
  PROVE  LET T == [at : {"idle", "send", "test", "post"}, block : Path \cup {Gone}]
         IN  NoEvent \in T /\ [thread EXCEPT !.at = "test"] \in T /\ [thread EXCEPT !.at = "post"] \in T
<1>1. NoEvent \in [at : {"idle", "send", "test", "post"}, block : Path \cup {Gone}]
  BY Constants DEF NoEvent
<1>2. thread \in [at : {"idle", "send", "test", "post"}, block : Path \cup {Gone}]
  BY DEF Shapes
<1> QED
  BY <1>1, <1>2

LEMMA ChainBase ==
  ASSUME Base, EventChain
  PROVE  Base'
<1> USE DEF Base, Names
<1>1. CASE TakeEvent
  <2>1. UNCHANGED <<lists, command, last, fbState, event, posts, sent>> /\ ecet' \in {ecet, "ended"}
    BY <1>1 DEF TakeEvent, Executes
  <2>2. ext \in Seq(Path \cup {Gone}) /\ ext # <<>> /\ Head(ext) # Gone /\ Len(ext) <= ExternalLimit
    BY <1>1 DEF TakeEvent, MayTake, Shapes
  <2>3. /\ Head(ext) \in Path /\ Tail(ext) \in Seq(Path \cup {Gone}) /\ Len(Tail(ext)) <= ExternalLimit
    BY <2>2, Constants
  <2>4. /\ ext' = Tail(ext) /\ faults' \subseteq faults \cup {"raced"}
        /\ thread' \in {thread, [at |-> "send", block |-> Head(ext)]}
    BY <1>1 DEF TakeEvent
  <2>5. Shapes'
    BY <2>1, <2>3, <2>4 DEF Shapes, lists
  <2> QED
    BY <2>1, <2>5, ChainKeeps
<1>2. CASE SendEvent
  <2>1. UNCHANGED <<lists, ecet, command, last, fbState, event, posts, ext, faults>>
    BY <1>2 DEF SendEvent, Executes
  <2>2. thread.block \in Path
    BY <1>2 DEF SendEvent, Shapes
  <2>3. /\ thread' = NoEvent \/ thread' = [thread EXCEPT !.at = "test"]
        /\ sent' = sent \/ sent' = [sent EXCEPT ![thread.block] = event[thread.block]]
    BY <1>2 DEF SendEvent
  <2>4. thread' \in [at : {"idle", "send", "test", "post"}, block : Path \cup {Gone}]
    BY <2>3, ThreadTypes
  <2>5. Shapes'
    BY <2>1, <2>2, <2>3, <2>4 DEF Shapes, lists
  <2> QED
    BY <2>1, <2>5, ChainKeeps
<1>3. CASE TestStop
  <2>1. UNCHANGED <<lists, ecet, command, last, event, posts, ext, sent, faults>>
    BY <1>3 DEF TestStop, Executes
  <2>2. thread.block \in Block
    BY <1>3, Constants DEF TestStop, Shapes
  <2>3. thread' = NoEvent \/ thread' = [thread EXCEPT !.at = "post"]
    BY <1>3 DEF TestStop
  <2>4. thread' \in [at : {"idle", "send", "test", "post"}, block : Path \cup {Gone}]
    BY <2>3, ThreadTypes
  <2>5. Enters(thread.block, "Stop") \/ fbState' = fbState
    BY <1>3 DEF TestStop
  <2>6. fbState' \in [Block -> State] /\ \A b \in Block : fbState'[b] = "none" <=> fbState[b] = "none"
    <3>1. CASE Enters(thread.block, "Stop")
      <4>1. "Stop" \in Command
        BY DEF Command
      <4> QED
        BY <2>2, <3>1, <4>1, EntersStep
    <3>2. CASE fbState' = fbState
      BY <3>2 DEF Shapes
    <3> QED
      BY <2>5, <3>1, <3>2
  <2>7. Shapes'
    BY <2>1, <2>4, <2>6 DEF Shapes, lists
  <2> QED
    BY <2>1, <2>6, <2>7, ChainKeeps
<1>4. CASE PostStopped
  <2>1. UNCHANGED <<lists, ecet, command, last, fbState, event, ext, sent, faults>>
    BY <1>4 DEF PostStopped, Executes
  <2>2. thread.block \in Path /\ posts[thread.block] < PostLimit
    BY <1>4 DEF PostStopped, Shapes
  <2>3. thread' = NoEvent /\ posts' = [posts EXCEPT ![thread.block] = @ + 1]
    BY <1>4 DEF PostStopped
  <2>4. posts' \in [Path -> 0 .. PostLimit]
    BY <2>2, <2>3, Constants DEF Shapes
  <2>5. thread' \in [at : {"idle", "send", "test", "post"}, block : Path \cup {Gone}]
    BY <2>3, ThreadTypes
  <2>6. Shapes'
    BY <2>1, <2>4, <2>5 DEF Shapes, lists
  <2> QED
    BY <2>1, <2>6, ChainKeeps
<1>5. CASE UsesDeletedFB
  <2>1. UNCHANGED <<lists, fbState, event, posts, ecet, ext, thread, command, last, sent>>
    BY <1>5 DEF UsesDeletedFB
  <2>2. faults' = faults \cup {"undefined"}
    BY <1>5 DEF UsesDeletedFB
  <2>3. Shapes'
    BY <2>1, <2>2 DEF Shapes, lists
  <2> QED
    BY <2>1, <2>3, ChainKeeps
<1>6. CASE ThreadEnds
  <2>1. UNCHANGED <<lists, fbState, event, posts, ext, thread, command, last, sent, faults>> /\ ecet' = "ended"
    BY <1>6 DEF ThreadEnds, Executes
  <2>2. Shapes'
    BY <2>1 DEF Shapes, lists
  <2> QED
    BY <2>1, <2>2, ChainKeeps
<1> QED
  BY <1>1, <1>2, <1>3, <1>4, <1>5, <1>6 DEF EventChain

(* The management thread's part of a command.                              *)
LEMMA ManagementBase ==
  ASSUME Base, Management
  PROVE  Base' /\ CommandType /\ CommandType'
<1> USE DEF Base, Names
<1>1. CommandType
  BY DEF Shapes, CommandType, At6
<1> DEFINE Kept == \A b \in Block : fbState'[b] = "none" <=> fbState[b] = "none"
<1>2. ASSUME Passes PROVE UNCHANGED lists /\ UNCHANGED <<subs, fbs, type, last, thread>>
  BY <1>2 DEF Passes, lists
<1>3. ASSUME NEW place \in At6, Goes(place) PROVE CommandType'
  BY <1>1, <1>3, GoesStep
<1>4. ASSUME NEW visits \in Seq(Item), command.todo # <<>>, Onward(visits)
      PROVE  CommandType' /\ command'.at = "walk" /\ command'.cmd = command.cmd
  BY <1>1, <1>4, OnwardStep
<1>5. <<>> \in Seq(Item)
  OBVIOUS
<1>6. ASSUME Shapes', UNCHANGED lists, Kept, AtRestart', EventsOfRestarts' PROVE Base'
  BY <1>6, ListsKept DEF Kept
<1>7. ASSUME EventsOfRestarts, event' = event, UNCHANGED <<subs, fbs, type>>, Kept PROVE EventsOfRestarts'
  BY <1>7, Constants DEF EventsOfRestarts, Exists, Kept
<1>8. ASSUME command'.at = "walk", command'.cmd \in Command PROVE AtRestart'
  BY <1>8 DEF AtRestart, InRestart, At
<1>9. ASSUME fbState' = fbState PROVE Kept
  BY <1>9 DEF Kept
<1> HIDE DEF Kept
<1>10. CASE EnterContainer
  <2>1. /\ UNCHANGED <<fbState, event, posts, ecet, ext, sent, faults, subs, fbs, type, last, thread>>
        /\ UNCHANGED lists /\ Onward(Inside(Current))
        /\ At("walk") /\ command.todo # <<>> /\ Head(command.todo).kind = "container"
    BY <1>2, <1>10 DEF EnterContainer, Reached
  <2>2. Inside(Current) \in Seq(Item)
    <3>1. Current \in Path
      BY <2>1, TodoParts, ItemParts DEF Current
    <3> QED
      BY <3>1, InsideType
  <2>3. CommandType' /\ command'.at = "walk" /\ command'.cmd = command.cmd
    BY <1>4, <2>1, <2>2
  <2>4. command.cmd \in Command
    BY <2>1 DEF AtRestart, At
  <2>5. Shapes'
    BY <2>1, <2>3 DEF Shapes, CommandType, At6
  <2> QED
    BY <1>1, <1>6, <1>7, <1>8, <1>9, <2>1, <2>3, <2>4, <2>5
<1>11. CASE ChangeState
  <2>1. /\ UNCHANGED <<event, posts, ecet, ext, sent, faults, subs, fbs, type, last, thread>>
        /\ UNCHANGED lists /\ Enters(Current, command.cmd)
        /\ At("walk") /\ command.todo # <<>> /\ Head(command.todo).kind = "FB"
    BY <1>2, <1>11 DEF ChangeState, Reached
  <2>2. command.cmd \in Command
    BY <2>1 DEF AtRestart, At
  <2>3. Current \in Block /\ Current = Head(command.todo).path
    BY <2>1, TodoParts DEF Current
  <2>4. fbState' \in [Block -> State] /\ Kept /\ (Accepts(Current, command.cmd) => fbState[Current] # "none")
    BY <2>1, <2>2, <2>3, EntersStep DEF Kept
  <2>5. CASE ~Accepts(Current, command.cmd)
    <3>1. command' = NoCommand
      BY <1>11, <2>5 DEF ChangeState
    <3>2. CommandType' /\ command'.at = "idle"
      BY <1>5, <3>1 DEF NoCommand, CommandType, At6
    <3>3. Shapes'
      BY <2>1, <2>4, <3>2 DEF Shapes, CommandType, At6
    <3>4. AtRestart'
      BY <3>2 DEF AtRestart, InRestart, At
    <3> QED
      BY <1>1, <1>6, <1>7, <2>1, <2>4, <3>2, <3>3, <3>4
  <2>6. CASE Accepts(Current, command.cmd) /\ IsRestart(Current)
    <3>1. Goes("store")
      BY <1>11, <2>6 DEF ChangeState
    <3>2. /\ CommandType' /\ command'.at = "store" /\ command'.cmd = command.cmd
          /\ command'.todo = command.todo
      BY <1>1, <3>1, GoesStep DEF At6
    <3>3. Shapes'
      BY <2>1, <2>4, <3>2 DEF Shapes, CommandType, At6
    <3>4. Current \in Path \ {<<>>} /\ type[Current] = "E_RESTART" /\ Exists(Current)
      BY <2>4, <2>6 DEF IsRestart, Exists, StatesOfFBs
    <3>5. AtRestart'
      <4>1. Current' = Current
        BY <3>2 DEF Current
      <4>2. type'[Current] = "E_RESTART" /\ Exists(Current)'
        BY <2>1, <2>3, <2>4, <3>4, <4>1 DEF Exists, Kept
      <4> QED
        BY <2>1, <2>2, <3>2, <3>4, <4>1, <4>2 DEF AtRestart, InRestart, At
    <3> QED
      BY <1>1, <1>6, <1>7, <2>1, <2>4, <3>2, <3>3, <3>5
  <2>7. CASE Accepts(Current, command.cmd) /\ ~IsRestart(Current)
    <3>1. Onward(PassedTo(Current))
      BY <1>11, <2>7 DEF ChangeState
    <3>2. PassedTo(Current) \in Seq(Item)
      BY <2>3, PassedToType
    <3>3. CommandType' /\ command'.at = "walk" /\ command'.cmd = command.cmd
      BY <1>4, <2>1, <3>1, <3>2
    <3>4. Shapes'
      BY <2>1, <2>4, <3>3 DEF Shapes, CommandType, At6
    <3> QED
      BY <1>1, <1>6, <1>7, <1>8, <2>1, <2>2, <2>4, <3>3, <3>4
  <2> QED
    BY <2>5, <2>6, <2>7
<1>12. ASSUME InRestart
       PROVE  /\ command.todo # <<>> /\ Current \in Path \ {<<>>} /\ Current \in Block
              /\ Head(command.todo).kind = "FB" /\ type[Current] = "E_RESTART" /\ Exists(Current) /\ command.cmd \in Command
  BY <1>12, Constants DEF AtRestart, InRestart
<1>13. ASSUME InRestart, command'.at \in {"rerun", "queue", "wait"}, command'.cmd = command.cmd,
              command'.todo = command.todo, UNCHANGED <<subs, fbs, type>>, Kept,
              command'.at = "queue" => command.cmd \in {"Start", "Stop"},
              command'.at # "queue" => command.cmd = "Stop"
       PROVE  AtRestart'
  <2>1. Current' = Current
    BY <1>13 DEF Current
  <2>2. Exists(Current)'
    BY <1>12, <1>13, <2>1 DEF Exists, Kept
  <2> QED
    BY <1>12, <1>13, <2>1, <2>2 DEF AtRestart, InRestart, At
<1>14. CASE StoreEvent
  <2>1. /\ UNCHANGED <<fbState, posts, ecet, ext, subs, fbs, type, last, thread>> /\ UNCHANGED lists
        /\ At("store") /\ faults' \subseteq faults \cup {"raced"}
        /\ event' = [event EXCEPT ![Current] =
             CASE command.cmd = "Start" -> IF @ = "STOP" THEN "WARM" ELSE "COLD"
               [] command.cmd = "Stop" -> "STOP" [] OTHER -> "none"]
        /\ sent' = IF command.cmd = "Start" THEN sent ELSE [sent EXCEPT ![Current] = "none"]
        /\ CASE command.cmd = "Start" -> Goes("queue") [] command.cmd = "Stop" -> Goes("rerun")
             [] OTHER -> Onward(<<>>)
    BY <1>2, <1>14 DEF StoreEvent
  <2>2. InRestart
    BY <2>1 DEF InRestart, At
  <2>3. /\ command.todo # <<>> /\ Current \in Path \ {<<>>} /\ Current \in Block
        /\ type[Current] = "E_RESTART" /\ Exists(Current) /\ command.cmd \in Command
    BY <1>12, <2>2
  <2>4. event' \in [Path -> Sendable] /\ sent' \in [Path -> Sendable]
    BY <2>1, <2>3 DEF Shapes, Sendable
  <2>5. CommandType' /\ AtRestart'
    <3>1. CASE command.cmd = "Start"
      <4>1. Goes("queue")
        BY <2>1, <3>1
      <4>2. /\ CommandType' /\ command'.at = "queue" /\ command'.cmd = command.cmd
            /\ command'.todo = command.todo
        BY <1>1, <4>1, GoesStep DEF At6
      <4> QED
        BY <1>9, <1>13, <2>1, <2>2, <3>1, <4>2
    <3>2. CASE command.cmd = "Stop"
      <4>1. Goes("rerun")
        BY <2>1, <3>2
      <4>2. /\ CommandType' /\ command'.at = "rerun" /\ command'.cmd = command.cmd
            /\ command'.todo = command.todo
        BY <1>1, <4>1, GoesStep DEF At6
      <4> QED
        BY <1>9, <1>13, <2>1, <2>2, <3>2, <4>2
    <3>3. CASE command.cmd \notin {"Start", "Stop"}
      <4>1. Onward(<<>>)
        BY <2>1, <3>3
      <4> QED
        BY <1>4, <1>5, <1>8, <2>3, <4>1
    <3> QED
      BY <3>1, <3>2, <3>3
  <2>6. Shapes'
    BY <2>1, <2>4, <2>5 DEF Shapes, CommandType, At6
  <2>7. EventsOfRestarts'
    <3>1. \A b \in Path : b # Current => event'[b] = event[b]
      BY <2>1 DEF Shapes
    <3> QED
      BY <2>1, <2>3, <3>1 DEF EventsOfRestarts, Exists
  <2> QED
    BY <1>1, <1>6, <1>9, <2>1, <2>5, <2>6, <2>7
<1>15. CASE KeepRunning
  <2>1. /\ UNCHANGED <<event, posts, ecet, ext, sent, faults, subs, fbs, type, last, thread>>
        /\ UNCHANGED lists /\ At("rerun") /\ Enters(Current, "Start") /\ Goes("queue")
    BY <1>2, <1>15 DEF KeepRunning
  <2>2. InRestart /\ command.cmd = "Stop"
    BY <2>1 DEF InRestart, At, AtRestart
  <2>3. Current \in Block /\ "Start" \in Command
    BY <1>12, <2>2 DEF Command
  <2>4. fbState' \in [Block -> State] /\ Kept
    BY <2>1, <2>3, EntersStep DEF Kept
  <2>5. /\ CommandType' /\ command'.at = "queue" /\ command'.cmd = command.cmd
        /\ command'.todo = command.todo
    BY <1>1, <2>1, GoesStep DEF At6
  <2>6. Shapes'
    BY <2>1, <2>4, <2>5 DEF Shapes, CommandType, At6
  <2>7. AtRestart'
    BY <1>13, <2>1, <2>2, <2>4, <2>5
  <2> QED
    BY <1>1, <1>6, <1>7, <2>1, <2>4, <2>5, <2>6, <2>7
<1>16. CASE StartNewEventChain
  <2>1. /\ UNCHANGED <<fbState, event, posts, ecet, sent, subs, fbs, type, last, thread>>
        /\ UNCHANGED lists /\ At("queue") /\ faults' \subseteq faults \cup {"lost"}
        /\ (Len(ext) < ExternalLimit /\ ext' = Append(ext, Current)) \/ ext' = ext
        /\ IF command.cmd = "Stop" THEN Goes("wait") ELSE Onward(<<>>)
    BY <1>2, <1>16 DEF StartNewEventChain
  <2>2. InRestart
    BY <2>1 DEF InRestart, At
  <2>3. /\ command.todo # <<>> /\ Current \in Path \ {<<>>} /\ Current \in Block
        /\ type[Current] = "E_RESTART" /\ Exists(Current) /\ command.cmd \in Command
    BY <1>12, <2>2
  <2>4. ext' \in Seq(Path \cup {Gone}) /\ Len(ext') <= ExternalLimit
    <3>1. ext \in Seq(Path \cup {Gone}) /\ Len(ext) <= ExternalLimit /\ Len(ext) \in Nat
      BY DEF Shapes
    <3>2. CASE ext' = ext
      BY <3>1, <3>2
    <3>3. CASE Len(ext) < ExternalLimit /\ ext' = Append(ext, Current)
      <4>1. Current \in Path \cup {Gone}
        BY <2>3
      <4>2. ext' \in Seq(Path \cup {Gone}) /\ Len(ext') = Len(ext) + 1
        BY <3>1, <3>3, <4>1, AppendProperties
      <4> QED
        BY <3>1, <3>3, <4>2, Constants
    <3> QED
      BY <2>1, <3>2, <3>3
  <2>5. CommandType' /\ AtRestart'
    <3>1. CASE command.cmd = "Stop"
      <4>1. Goes("wait")
        BY <2>1, <3>1
      <4>2. /\ CommandType' /\ command'.at = "wait" /\ command'.cmd = command.cmd
            /\ command'.todo = command.todo
        BY <1>1, <4>1, GoesStep DEF At6
      <4> QED
        BY <1>9, <1>13, <2>1, <2>2, <3>1, <4>2
    <3>2. CASE command.cmd # "Stop"
      <4>1. Onward(<<>>)
        BY <2>1, <3>2
      <4> QED
        BY <1>4, <1>5, <1>8, <2>3, <4>1
    <3> QED
      BY <3>1, <3>2
  <2>6. Shapes'
    BY <2>1, <2>4, <2>5 DEF Shapes, CommandType, At6
  <2> QED
    BY <1>1, <1>6, <1>7, <1>9, <2>1, <2>5, <2>6
<1>17. CASE WaitForStop
  <2>1. /\ UNCHANGED <<fbState, event, ecet, ext, sent, faults, subs, fbs, type, last, thread>>
        /\ UNCHANGED lists /\ At("wait") /\ posts[Current] > 0
        /\ posts' = [posts EXCEPT ![Current] = @ - 1] /\ Onward(<<>>)
    BY <1>2, <1>17 DEF WaitForStop
  <2>2. InRestart
    BY <2>1 DEF InRestart, At
  <2>3. command.todo # <<>> /\ Current \in Path /\ command.cmd \in Command
    BY <1>12, <2>2
  <2>4. posts' \in [Path -> 0 .. PostLimit]
    <3>1. posts \in [Path -> 0 .. PostLimit] /\ PostLimit \in Nat
      BY Constants DEF Shapes
    <3> QED
      BY <2>1, <2>3, <3>1
  <2>5. CommandType' /\ command'.at = "walk" /\ command'.cmd = command.cmd
    BY <1>4, <1>5, <2>1, <2>3
  <2>6. Shapes'
    BY <2>1, <2>4, <2>5 DEF Shapes, CommandType, At6
  <2> QED
    BY <1>1, <1>6, <1>7, <1>8, <1>9, <2>1, <2>3, <2>5, <2>6
<1>18. CASE EndCommand
  <2>1. /\ UNCHANGED <<fbState, event, posts, thread, sent, faults>> /\ UNCHANGED lists
        /\ At("walk") /\ command' = NoCommand
        /\ last' \in {last, command.cmd}
        /\ ext' = ext \/ ext' = <<>>
        /\ ecet' \in {ecet, "runs", "ending", "ended"}
    BY <1>18 DEF EndCommand, lists
  <2>2. UNCHANGED <<subs, fbs, type>>
    BY <2>1 DEF lists
  <2>3. command.cmd \in Command
    BY <2>1 DEF AtRestart, At
  <2>4. CommandType' /\ command'.at = "idle"
    BY <1>5, <2>1 DEF NoCommand, CommandType, At6
  <2>5. ext' \in Seq(Path \cup {Gone}) /\ Len(ext') <= ExternalLimit
    <3>1. ext \in Seq(Path \cup {Gone}) /\ Len(ext) <= ExternalLimit /\ ExternalLimit \in Nat
      BY Constants DEF Shapes
    <3>2. <<>> \in Seq(Path \cup {Gone}) /\ Len(<<>>) = 0
      OBVIOUS
    <3>3. CASE ext' = ext
      BY <3>1, <3>3
    <3>4. CASE ext' = <<>>
      BY <3>1, <3>2, <3>4
    <3> QED
      BY <2>1, <3>3, <3>4
  <2>6. Shapes'
    BY <2>1, <2>2, <2>3, <2>4, <2>5 DEF Shapes, CommandType, At6
  <2>7. AtRestart'
    BY <2>4 DEF AtRestart, InRestart, At
  <2> QED
    BY <1>1, <1>6, <1>7, <1>9, <2>1, <2>2, <2>4, <2>6, <2>7
<1> QED
  BY <1>10, <1>11, <1>14, <1>15, <1>16, <1>17, <1>18 DEF Management

LEMMA FoundInPath ==
  ASSUME NEW p \in Path, NEW b \in Found(p)
  PROVE  b \in Path
<1>1. PICK i \in 1 .. Len(p) : b = SubSeq(p, 1, i)
  BY PathSeq DEF Found
<1>2. Within(p, i + 1) \in Path
  BY WithinStep
<1>3. Within(p, i + 1) = SubSeq(p, 1, i)
  <2>1. i + 1 - 1 = i
    OBVIOUS
  <2> QED
    BY <2>1 DEF Within
<1> QED
  BY <1>1, <1>2, <1>3

LEMMA BeginBase ==
  ASSUME Base, NEW cmd \in Command, NEW p \in Path, BeginCommand(cmd, p)
  PROVE  Base' /\ CommandType'
<1> USE DEF Base, Names
<1>1. /\ UNCHANGED lists /\ UNCHANGED <<subs, fbs, type, fbState, event, posts, ecet, ext, thread, sent, faults>>
      /\ last' = "none" /\ At("idle")
  BY DEF BeginCommand, lists, At
<1>2. /\ CommandType'
      /\ command' = command \/ (command'.at = "walk" /\ command'.cmd \in Command)
  <2>1. CASE command' = command
    BY <2>1 DEF CommandType, Shapes, At6
  <2>2. CASE \E b \in IF p = <<>> THEN {p} ELSE Found(p) :
               command' = [at |-> "walk", cmd |-> cmd, todo |-> <<ToFB(b)>>, whole |-> p = <<>>]
    <3>1. PICK b \in IF p = <<>> THEN {p} ELSE Found(p) :
                 command' = [at |-> "walk", cmd |-> cmd, todo |-> <<ToFB(b)>>, whole |-> p = <<>>]
      BY <2>2
    <3>2. b \in Block
      BY <3>1, FoundInPath, Constants
    <3>3. ToFB(b) \in Item
      BY <3>2 DEF Item
    <3>4. <<ToFB(b)>> \in Seq(Item) /\ (p = <<>>) \in BOOLEAN
      BY <3>3
    <3> QED
      BY <3>1, <3>4 DEF CommandType, At6
  <2> QED
    BY <2>1, <2>2 DEF BeginCommand
<1>3. Shapes'
  BY <1>1, <1>2 DEF Shapes, CommandType, At6
<1>4. Names' /\ StatesOfFBs'
  BY <1>1, <1>3, ListsKept
<1>5. AtRestart'
  BY <1>1, <1>2 DEF AtRestart, InRestart, At, Current
<1>6. EventsOfRestarts'
  BY <1>1 DEF EventsOfRestarts, Exists
<1> QED
  BY <1>2, <1>4, <1>5, <1>6

LEMMA ListsBase ==
  ASSUME Base, NEW c \in Creations, CreateFB(c.path, c.type) \/ DeleteFB(c.path)
  PROVE  Base'
<1> DEFINE p == c.path
<1>1. p \in Path \ {<<>>} /\ c.type \in Type
  BY Constants
<1>2. Names' /\ StatesOfFBs'
  BY <1>1, CreateNames, DeleteNames DEF Base
<1>3. command.at = "idle" /\ command' = command
  BY DEF CreateFB, DeleteFB, Manages
<1>4. AtRestart'
  BY <1>3 DEF AtRestart, InRestart, At
<1>5. EventsOfRestarts'
  <2>1. \A b \in Path : Exists(b)' <=> fbState'[b] # "none"
    BY DEF Exists
  <2>2. CASE CreateFB(p, c.type)
    <3>1. /\ event' = event
          /\ \/ UNCHANGED <<type, fbState>>
             \/ /\ p[Len(p)] \notin Range(fbs[Front(p)])
                /\ type' = [type EXCEPT ![p] = c.type]
                /\ fbState' = [b \in Block |-> IF b = p \/ (c.type = "composite" /\ b = Append(p, Internal))
                                               THEN "IDLE" ELSE fbState[b]]
      BY <2>2 DEF CreateFB
    <3>2. CASE UNCHANGED <<type, fbState>>
      BY <3>1, <3>2 DEF Base, EventsOfRestarts, Exists
    <3>3. CASE /\ p[Len(p)] \notin Range(fbs[Front(p)])
               /\ type' = [type EXCEPT ![p] = c.type]
               /\ fbState' = [b \in Block |-> IF b = p \/ (c.type = "composite" /\ b = Append(p, Internal))
                                              THEN "IDLE" ELSE fbState[b]]
      <4>1. ~Exists(p)
        BY <1>1, <3>3, LastIsFB DEF Base, StatesOfFBs
      <4>2. event[p] = "none"
        BY <1>1, <4>1 DEF Base, EventsOfRestarts
      <4>3. \A b \in Path : b # p => type'[b] = type[b]
        BY <3>3 DEF Base, Names, Shapes
      <4>4. \A b \in Path : fbState[b] # "none" => fbState'[b] # "none"
        BY <3>3, Constants
      <4> QED
        BY <3>1, <4>2, <4>3, <4>4 DEF Base, EventsOfRestarts, Exists
    <3> QED
      BY <3>1, <3>2, <3>3
  <2>3. CASE DeleteFB(p)
    <3>1. /\ type' = type
          /\ \/ UNCHANGED <<event, fbState>>
             \/ /\ event' = [event EXCEPT ![p] = "none"]
                /\ fbState' = [b \in Block |-> IF b \in {p, Append(p, Internal)} THEN "none" ELSE fbState[b]]
      BY <2>3 DEF DeleteFB
    <3>2. CASE UNCHANGED <<event, fbState>>
      BY <3>1, <3>2 DEF Base, EventsOfRestarts, Exists
    <3>3. CASE /\ event' = [event EXCEPT ![p] = "none"]
               /\ fbState' = [b \in Block |-> IF b \in {p, Append(p, Internal)} THEN "none" ELSE fbState[b]]
      <4>1. Append(p, Internal) \notin Path
        BY <1>1, Internals
      <4>2. \A b \in Path : b # p => fbState'[b] = fbState[b] /\ event'[b] = event[b]
        BY <3>3, <4>1, Constants DEF Base, Names, Shapes
      <4>3. event'[p] = "none"
        BY <1>1, <3>3 DEF Base, Names, Shapes
      <4> QED
        BY <3>1, <4>2, <4>3 DEF Base, EventsOfRestarts, Exists
    <3> QED
      BY <3>1, <3>2, <3>3
  <2> QED
    BY <2>2, <2>3
<1> QED
  BY <1>2, <1>4, <1>5 DEF Base

LEMMA BaseNext == Base /\ [Next]_vars => Base'
<1> SUFFICES ASSUME Base, [Next]_vars PROVE Base'
  OBVIOUS
<1>1. CASE EventChain
  BY <1>1, ChainBase
<1>2. CASE Management
  BY <1>2, ManagementBase
<1>3. CASE \E c \in Creations : CreateFB(c.path, c.type) \/ DeleteFB(c.path)
  BY <1>3, ListsBase
<1>4. CASE \E c \in Commands : BeginCommand(c.cmd, c.path)
  BY <1>4, BeginBase, Constants
<1>5. CASE UNCHANGED vars
  <2>1. UNCHANGED <<subs, fbs, type, fbState, event, posts, ecet, ext, thread, command, last, sent, faults>>
    BY <1>5 DEF vars
  <2>2. Shapes'
    BY <2>1 DEF Base, Names, Shapes
  <2> QED
    BY <2>1, <2>2, ChainKeeps DEF lists
<1> QED
  BY <1>1, <1>2, <1>3, <1>4, <1>5 DEF Next

-----------------------------------------------------------------------------
(* E_RESTART and its two threads.                                          *)

LEMMA FaultsGrow ==
  ASSUME [Next]_vars, "raced" \notin faults' PROVE "raced" \notin faults
<1>1. faults \subseteq faults'
  <2>1. CASE EventChain
    BY <2>1 DEF EventChain, TakeEvent, ThreadEnds, SendEvent, TestStop, PostStopped, UsesDeletedFB
  <2>2. CASE Management
    BY <2>2 DEF Management, EnterContainer, ChangeState, StoreEvent, KeepRunning, StartNewEventChain,
                WaitForStop, EndCommand
  <2>3. CASE \E c \in Creations : CreateFB(c.path, c.type) \/ DeleteFB(c.path)
    BY <2>3 DEF CreateFB, DeleteFB, Manages
  <2>4. CASE \E c \in Commands : BeginCommand(c.cmd, c.path)
    BY <2>4 DEF BeginCommand
  <2>5. CASE UNCHANGED vars
    BY <2>5 DEF vars
  <2> QED
    BY <2>1, <2>2, <2>3, <2>4, <2>5 DEF Next
<1> QED
  BY <1>1

(* While no command is in E_RESTART's part, nothing is posted, and a STOP  *)
(* has been sent and obeyed.                                               *)
Quiet ==
  \A b \in Path :
    /\ posts[b] = 0
    /\ thread.at # "idle" /\ thread.block = b => thread.at # "post" /\ event[b] # "STOP"
    /\ event[b] = "STOP" => sent[b] = "STOP" /\ fbState[b] # "RUNNING"
    /\ event[b] = "WARM" => sent[b] \in {"STOP", "WARM"}

LEMMA RestartsAreQuiet ==
  ASSUME Base, Restarts, ~InRestart
  PROVE  Quiet
<1>1. \A b \in Path : ~Waiting(b) /\ ~Stopping(b) /\ ~Restarting(b)
  BY DEF InRestart, Waiting, Stopping, Restarting, At
<1>2. \A b \in Path : posts[b] \in Nat
  BY DEF Base, Names, Shapes
<1>3. \A b \in Path : posts[b] = 0
  BY <1>1, <1>2 DEF Restarts, PostOnce
<1> QED
  BY <1>1, <1>3 DEF Quiet, Restarts, ThreadStops, StopIsSent, WarmIsSent, StopIsWaited

LEMMA QuietRestarts ==
  ASSUME Quiet, ~InRestart
  PROVE  Restarts
<1>1. PostOnce /\ ThreadStops /\ StopIsSent /\ WarmIsSent /\ StopIsWaited
  BY DEF Quiet, PostOnce, ThreadStops, StopIsSent, WarmIsSent, StopIsWaited
<1>2. StateAtRestart
  BY DEF StateAtRestart, InRestart, At
<1> QED
  BY <1>1, <1>2 DEF Restarts

LEMMA OutsideRestarts ==
  ASSUME Base, Restarts, ~InRestart, ~InRestart', UNCHANGED <<event, sent, posts, thread>>,
         \A b \in Path : event[b] = "STOP" /\ fbState'[b] = "RUNNING" => fbState[b] = "RUNNING"
  PROVE  Restarts'
<1>1. Quiet
  BY RestartsAreQuiet
<1>2. Quiet'
  BY <1>1 DEF Quiet
<1> QED
  BY <1>2, QuietRestarts, PTL

LEMMA ChainRestarts ==
  ASSUME Base, Restarts, EventChain, "raced" \notin faults'
  PROVE  Restarts'
<1> USE DEF Base, Names
<1>1. /\ UNCHANGED <<event, command>>
      /\ \A b \in Path : (Waiting(b)' <=> Waiting(b)) /\ (Stopping(b)' <=> Stopping(b)) /\ (Restarting(b)' <=> Restarting(b))
  <2>1. UNCHANGED <<event, command>>
    BY DEF EventChain, TakeEvent, ThreadEnds, SendEvent, TestStop, PostStopped, UsesDeletedFB, Executes
  <2> QED
    BY <2>1 DEF Waiting, Stopping, Restarting, At, Current
<1>2. PostOnce /\ ThreadStops /\ StopIsSent /\ WarmIsSent /\ StopIsWaited /\ StateAtRestart
  BY DEF Restarts
<1>3. ASSUME fbState' = fbState PROVE StateAtRestart'
  BY <1>1, <1>2, <1>3 DEF StateAtRestart, At, Current
<1>4. CASE TakeEvent
  <2>1. UNCHANGED <<fbState, posts, sent>>
    BY <1>4 DEF TakeEvent
  <2>2. CASE thread' = thread
    BY <1>1, <1>2, <1>3, <2>1, <2>2
       DEF Restarts, PostOnce, ThreadStops, StopIsSent, WarmIsSent, StopIsWaited
  <2>3. CASE fbState[Head(ext)] = "RUNNING" /\ thread' = [at |-> "send", block |-> Head(ext)]
    <3>1. ~Restarting(Head(ext))
      BY <1>4 DEF TakeEvent, Restarting
    <3>2. PostOnce'
      BY <1>1, <1>2, <2>1, <2>3 DEF PostOnce
    <3>3. ThreadStops'
      BY <1>1, <1>2, <2>1, <2>3, <3>1 DEF ThreadStops, StopIsWaited
    <3>4. StopIsSent' /\ WarmIsSent' /\ StopIsWaited'
      BY <1>1, <1>2, <2>1 DEF StopIsSent, WarmIsSent, StopIsWaited
    <3> QED
      BY <1>3, <2>1, <3>2, <3>3, <3>4 DEF Restarts
  <2> QED
    BY <1>4, <2>2, <2>3 DEF TakeEvent
<1>5. CASE SendEvent
  <2> DEFINE b == thread.block
  <2>1. UNCHANGED <<fbState, posts>> /\ b \in Path /\ thread.at = "send"
    BY <1>5 DEF SendEvent, Shapes
  <2>2. CASE event[b] = "none"
    <3>1. thread' = NoEvent /\ sent' = sent
      BY <1>5, <2>2 DEF SendEvent
    <3>2. thread'.at = "idle"
      BY <3>1 DEF NoEvent
    <3> QED
      BY <1>1, <1>2, <1>3, <2>1, <3>1, <3>2
         DEF Restarts, PostOnce, ThreadStops, StopIsSent, WarmIsSent, StopIsWaited
  <2>3. CASE event[b] # "none"
    <3>1. thread' = [thread EXCEPT !.at = "test"] /\ sent' = [sent EXCEPT ![b] = event[b]]
      BY <1>5, <2>3 DEF SendEvent
    <3>2. thread'.at = "test" /\ thread'.block = b
      BY <3>1 DEF Shapes
    <3>3. sent'[b] = event[b] /\ \A c \in Path : c # b => sent'[c] = sent[c]
      BY <2>1, <3>1 DEF Shapes
    <3> HIDE DEF b
    <3>4. \A c \in Path : posts[c] > 0 => c # b
      BY <1>2, <2>1 DEF PostOnce, b
    <3>5. event[b] = "STOP" => Waiting(b)
      BY <1>2, <2>1 DEF ThreadStops, b
    <3>6. PostOnce'
      BY <1>1, <1>2, <2>1, <3>2, <3>3, <3>4 DEF PostOnce
    <3>7. ThreadStops'
      BY <1>1, <2>1, <3>2, <3>3, <3>5 DEF ThreadStops
    <3>8. StopIsSent' /\ WarmIsSent' /\ StopIsWaited'
      BY <1>1, <1>2, <2>1, <3>3 DEF StopIsSent, WarmIsSent, StopIsWaited
    <3> QED
      BY <1>3, <2>1, <3>6, <3>7, <3>8 DEF Restarts
  <2> QED
    BY <2>2, <2>3
<1>6. CASE TestStop
  <2> DEFINE b == thread.block
  <2>1. UNCHANGED <<posts, sent>> /\ b \in Path /\ thread.at = "test"
    BY <1>6 DEF TestStop, Shapes
  <2>2. CASE event[b] # "STOP"
    <3>1. thread' = NoEvent /\ fbState' = fbState
      BY <1>6, <2>2 DEF TestStop
    <3>2. thread'.at = "idle"
      BY <3>1 DEF NoEvent
    <3> QED
      BY <1>1, <1>2, <1>3, <2>1, <3>1, <3>2
         DEF Restarts, PostOnce, ThreadStops, StopIsSent, WarmIsSent, StopIsWaited
  <2>3. CASE event[b] = "STOP"
    <3>1. thread' = [thread EXCEPT !.at = "post"] /\ Enters(b, "Stop")
      BY <1>6, <2>3 DEF TestStop
    <3>2. thread'.at = "post" /\ thread'.block = b
      BY <3>1 DEF Shapes
    <3>3. Waiting(b) /\ sent[b] = "STOP"
      BY <1>2, <2>1, <2>3 DEF ThreadStops
    <3>4. fbState[b] \in {"RUNNING", "STOPPED"}
      BY <1>2, <3>3 DEF Waiting, StateAtRestart
    <3>5. fbState'[b] = "STOPPED" /\ \A c \in Path : c # b => fbState'[c] = fbState[c]
      <4>1. b \in Block /\ "Stop" \in Command
        BY <2>1, Constants DEF Command
      <4>2. \A c \in Block : fbState'[c] = IF c = b /\ Accepts(b, "Stop") THEN To("Stop") ELSE fbState[c]
        BY <3>1, <4>1, EntersStep
      <4>3. Accepts(b, "Stop") <=> fbState[b] = "RUNNING"
        BY DEF Accepts, From
      <4> QED
        BY <3>4, <4>1, <4>2, <4>3, Constants DEF To
    <3> HIDE DEF b
    <3>6. \A c \in Path : posts[c] > 0 => c # b
      BY <1>2, <2>1 DEF PostOnce, b
    <3>7. PostOnce'
      BY <1>1, <1>2, <2>1, <3>2, <3>5, <3>6 DEF PostOnce
    <3>8. ThreadStops'
      BY <1>1, <2>1, <3>2, <3>3, <3>5 DEF ThreadStops
    <3>9. StopIsSent' /\ WarmIsSent' /\ StopIsWaited'
      BY <1>1, <1>2, <2>1, <3>5 DEF StopIsSent, WarmIsSent, StopIsWaited
    <3>10. StateAtRestart'
      BY <1>1, <3>3, <3>5 DEF StateAtRestart, At, Current, Waiting
    <3> QED
      BY <3>7, <3>8, <3>9, <3>10 DEF Restarts
  <2> QED
    BY <2>2, <2>3
<1>7. CASE PostStopped
  <2> DEFINE b == thread.block
  <2>1. UNCHANGED <<fbState, sent>> /\ b \in Path /\ thread.at = "post"
    BY <1>7 DEF PostStopped, Shapes
  <2>2. thread' = NoEvent /\ posts' = [posts EXCEPT ![b] = @ + 1]
    BY <1>7 DEF PostStopped
  <2>3. thread'.at = "idle"
    BY <2>2 DEF NoEvent
  <2>4. fbState[b] = "STOPPED" /\ sent[b] = "STOP" /\ Waiting(b)
    BY <1>2, <2>1 DEF ThreadStops
  <2>5. posts[b] = 0
    <3>1. posts[b] \in Nat
      BY <2>1 DEF Shapes
    <3>2. ~(posts[b] > 0)
      BY <1>2, <2>1 DEF PostOnce
    <3> QED
      BY <3>1, <3>2
  <2>6. posts'[b] = 1 /\ \A c \in Path : c # b => posts'[c] = posts[c]
    BY <2>1, <2>2, <2>5 DEF Shapes
  <2> HIDE DEF b
  <2>7. PostOnce'
    BY <1>1, <1>2, <2>1, <2>3, <2>4, <2>6 DEF PostOnce
  <2>8. ThreadStops'
    BY <2>3 DEF ThreadStops
  <2>9. StopIsSent' /\ WarmIsSent' /\ StopIsWaited'
    BY <1>1, <1>2, <2>1 DEF StopIsSent, WarmIsSent, StopIsWaited
  <2> QED
    BY <1>3, <2>1, <2>7, <2>8, <2>9 DEF Restarts
<1>8. CASE ThreadEnds \/ UsesDeletedFB
  <2>1. UNCHANGED <<fbState, posts, thread, sent>>
    BY <1>8 DEF ThreadEnds, UsesDeletedFB
  <2> QED
    BY <1>1, <1>2, <1>3, <2>1
       DEF Restarts, PostOnce, ThreadStops, StopIsSent, WarmIsSent, StopIsWaited
<1> QED
  BY <1>4, <1>5, <1>6, <1>7, <1>8 DEF EventChain

LEMMA ManagementRestarts ==
  ASSUME Base, Restarts, Management, "raced" \notin faults'
  PROVE  Restarts'
<1> USE DEF Base, Names
<1>1. CommandType /\ CommandType'
  BY ManagementBase
<1>2. PostOnce /\ ThreadStops /\ StopIsSent /\ WarmIsSent /\ StopIsWaited /\ StateAtRestart
  BY DEF Restarts
<1>3. ASSUME InRestart
      PROVE  /\ command.todo # <<>> /\ Current \in Path /\ Current \in Block /\ command.cmd \in Command
             /\ command.todo \in Seq(Item)
  BY <1>3, Constants DEF AtRestart, InRestart, Shapes
<1>4. <<>> \in Seq(Item)
  OBVIOUS
<1>5. ASSUME NEW visits \in Seq(Item), command.todo # <<>>, Onward(visits)
      PROVE  command'.at = "walk" /\ ~InRestart'
  BY <1>1, <1>5, OnwardStep DEF InRestart
<1>6. ASSUME NEW place \in At6, Goes(place)
      PROVE  command'.at = place /\ command'.cmd = command.cmd /\ Current' = Current
  BY <1>1, <1>6, GoesStep DEF Current
<1>7. CASE EnterContainer
  <2>1. /\ UNCHANGED <<fbState, event, posts, sent, thread>> /\ ~InRestart /\ ~InRestart'
    <3>1. command.todo # <<>> /\ Head(command.todo).kind = "container" /\ Onward(Inside(Current)) /\ At("walk")
      BY <1>7 DEF EnterContainer, Reached
    <3>2. Inside(Current) \in Seq(Item)
      BY <3>1, TodoParts, ItemParts, InsideType DEF Current
    <3>3. UNCHANGED <<fbState, event, posts, sent, thread>>
      BY <1>7 DEF EnterContainer, Passes
    <3> QED
      BY <1>5, <3>1, <3>2, <3>3 DEF InRestart, At
  <2> QED
    BY <2>1, OutsideRestarts
<1>8. CASE ChangeState
  <2>1. /\ UNCHANGED <<event, posts, sent, thread>> /\ ~InRestart /\ Enters(Current, command.cmd)
        /\ command.todo # <<>> /\ Current \in Block /\ command.cmd \in Command
    BY <1>8, TodoParts DEF ChangeState, Reached, Passes, InRestart, At, AtRestart
  <2>2. \A c \in Block : fbState'[c] = IF c = Current /\ Accepts(Current, command.cmd) THEN To(command.cmd) ELSE fbState[c]
    BY <2>1, EntersStep
  <2>3. CASE ~Accepts(Current, command.cmd)
    <3>1. command' = NoCommand
      BY <1>8, <2>3 DEF ChangeState
    <3>2. ~InRestart'
      BY <3>1 DEF NoCommand, InRestart
    <3> QED
      BY <2>1, <2>2, <2>3, <3>2, OutsideRestarts, Constants
  <2>4. CASE Accepts(Current, command.cmd) /\ ~IsRestart(Current)
    <3>1. Onward(PassedTo(Current))
      BY <1>8, <2>4 DEF ChangeState
    <3>2. ~InRestart'
      BY <1>5, <2>1, <3>1, PassedToType
    <3>3. \A b \in Path : event[b] = "STOP" => b # Current
      BY <2>4 DEF EventsOfRestarts, IsRestart
    <3> QED
      BY <2>1, <2>2, <3>2, <3>3, OutsideRestarts, Constants
  <2>5. CASE Accepts(Current, command.cmd) /\ IsRestart(Current)
    <3>1. Goes("store")
      BY <1>8, <2>5 DEF ChangeState
    <3>2. command'.at = "store" /\ command'.cmd = command.cmd /\ Current' = Current
      BY <1>6, <3>1 DEF At6
    <3>3. Quiet
      BY <2>1, RestartsAreQuiet
    <3>4. PostOnce' /\ ThreadStops' /\ StopIsSent' /\ WarmIsSent'
      BY <2>1, <3>3 DEF Quiet, PostOnce, ThreadStops, StopIsSent, WarmIsSent
    <3>5. fbState'[Current] = To(command.cmd)
      BY <2>1, <2>2, <2>5
    <3>6. StateAtRestart'
      BY <3>2, <3>5 DEF StateAtRestart, At
    <3>7. StopIsWaited'
      <4> SUFFICES ASSUME NEW b \in Path, event[b] = "STOP", fbState'[b] = "RUNNING" PROVE Restarting(b)'
        BY <2>1 DEF StopIsWaited
      <4>1. fbState[b] # "RUNNING" /\ b \in Block
        BY <3>3, Constants DEF Quiet
      <4>2. b = Current
        BY <2>2, <4>1
      <4>3. command.cmd = "Start"
        BY <2>1, <3>5, <4>2 DEF To, Command
      <4> QED
        BY <3>2, <4>2, <4>3 DEF Restarting, At
    <3> QED
      BY <3>4, <3>6, <3>7 DEF Restarts
  <2> QED
    BY <2>3, <2>4, <2>5
<1>9. CASE StoreEvent
  <2> DEFINE c == Current
  <2>1. UNCHANGED <<fbState, posts, thread>> /\ At("store") /\ InRestart
    BY <1>9 DEF StoreEvent, Passes, InRestart, At
  <2>2. c \in Path /\ command.cmd \in Command /\ command.todo # <<>> /\ fbState[c] = To(command.cmd)
    BY <1>2, <1>3, <2>1 DEF StateAtRestart
  <2>3. \A b \in Path : ~Waiting(b) /\ ~Stopping(b) /\ (Restarting(b) <=> command.cmd = "Start" /\ b = c)
    BY <2>1 DEF Waiting, Stopping, Restarting, At
  <2>4. \A b \in Path : posts[b] = 0
    <3>1. \A b \in Path : posts[b] \in Nat
      BY DEF Shapes
    <3> QED
      BY <1>2, <2>3, <3>1 DEF PostOnce
  <2>5. \A b \in Path : thread.at # "idle" /\ thread.block = b => thread.at # "post" /\ event[b] # "STOP"
    BY <1>2, <2>3 DEF ThreadStops
  <2>6. /\ event' = [event EXCEPT ![c] =
             CASE command.cmd = "Start" -> IF @ = "STOP" THEN "WARM" ELSE "COLD"
               [] command.cmd = "Stop" -> "STOP" [] OTHER -> "none"]
        /\ sent' = IF command.cmd = "Start" THEN sent ELSE [sent EXCEPT ![c] = "none"]
        /\ CASE command.cmd = "Start" -> Goes("queue") [] command.cmd = "Stop" -> Goes("rerun")
             [] OTHER -> Onward(<<>>)
        /\ command.cmd = "Stop" => thread.block # c
    BY <1>9 DEF StoreEvent
  <2>7. \A b \in Path : b # c => event'[b] = event[b] /\ sent'[b] = sent[b]
    BY <2>2, <2>6 DEF Shapes
  <2>8. PostOnce'
    BY <2>1, <2>4 DEF PostOnce
  <2>9. CASE command.cmd = "Start"
    <3>1. event'[c] = (IF event[c] = "STOP" THEN "WARM" ELSE "COLD") /\ sent' = sent
      BY <2>2, <2>6, <2>9 DEF Shapes
    <3>2. Goes("queue")
      BY <2>6, <2>9
    <3>3. command'.at = "queue" /\ command'.cmd = "Start" /\ Current' = c
      BY <1>6, <2>9, <3>2 DEF At6
    <3> HIDE DEF c
    <3>4. ThreadStops'
      BY <2>1, <2>5, <2>7, <3>1 DEF ThreadStops
    <3>5. StopIsSent'
      BY <1>2, <2>3, <2>7, <3>1 DEF StopIsSent
    <3>6. WarmIsSent'
      BY <1>2, <2>3, <2>7, <3>1 DEF WarmIsSent, StopIsSent
    <3>7. StopIsWaited'
      BY <1>2, <2>1, <2>3, <2>7, <3>1 DEF StopIsWaited
    <3>8. StateAtRestart'
      BY <2>1, <2>2, <2>9, <3>3 DEF StateAtRestart, At
    <3> QED
      BY <2>8, <3>4, <3>5, <3>6, <3>7, <3>8 DEF Restarts
  <2>10. CASE command.cmd = "Stop"
    <3>1. event'[c] = "STOP" /\ sent'[c] = "none"
      BY <2>2, <2>6, <2>10 DEF Shapes
    <3>2. Goes("rerun") /\ thread.block # c
      BY <2>6, <2>10
    <3>3. command'.at = "rerun" /\ command'.cmd = "Stop" /\ Current' = c
      BY <1>6, <2>10, <3>2 DEF At6
    <3>4. fbState[c] = "STOPPED"
      BY <2>2, <2>10 DEF To
    <3> HIDE DEF c
    <3>5. ThreadStops'
      BY <2>1, <2>5, <2>7, <3>2 DEF ThreadStops
    <3>6. StopIsSent'
      <4>1. \A b \in Path : b = c => Stopping(b)'
        BY <3>3 DEF Stopping
      <4> QED
        BY <1>2, <2>3, <2>7, <4>1 DEF StopIsSent
    <3>7. WarmIsSent'
      BY <1>2, <2>7, <3>1 DEF WarmIsSent
    <3>8. StopIsWaited'
      BY <1>2, <2>1, <2>3, <2>7, <2>10, <3>4 DEF StopIsWaited
    <3>9. StateAtRestart'
      BY <2>1, <3>3, <3>4 DEF StateAtRestart, At
    <3> QED
      BY <2>8, <3>5, <3>6, <3>7, <3>8, <3>9 DEF Restarts
  <2>11. CASE command.cmd \notin {"Start", "Stop"}
    <3>1. event'[c] = "none" /\ sent'[c] = "none"
      BY <2>2, <2>6, <2>11 DEF Shapes
    <3>2. Onward(<<>>)
      BY <2>6, <2>11
    <3>3. ~InRestart'
      BY <1>4, <1>5, <2>2, <3>2
    <3> HIDE DEF c
    <3>4. ThreadStops'
      BY <2>1, <2>5, <2>7, <3>1 DEF ThreadStops
    <3>5. StopIsSent' /\ WarmIsSent'
      BY <1>2, <2>3, <2>7, <3>1 DEF StopIsSent, WarmIsSent
    <3>6. StopIsWaited'
      BY <1>2, <2>1, <2>3, <2>7, <2>11, <3>1 DEF StopIsWaited
    <3>7. StateAtRestart'
      BY <3>3 DEF StateAtRestart, InRestart, At
    <3> QED
      BY <2>8, <3>4, <3>5, <3>6, <3>7 DEF Restarts
  <2> QED
    BY <2>9, <2>10, <2>11
<1>10. CASE KeepRunning
  <2> DEFINE c == Current
  <2>1. /\ UNCHANGED <<event, posts, sent, thread>> /\ At("rerun") /\ InRestart /\ command.cmd = "Stop"
        /\ Enters(c, "Start") /\ Goes("queue")
    BY <1>10 DEF KeepRunning, Passes, InRestart, At, AtRestart
  <2>2. c \in Path /\ c \in Block /\ fbState[c] = "STOPPED" /\ "Start" \in Command
    BY <1>2, <1>3, <2>1 DEF StateAtRestart, Command
  <2>3. command'.at = "queue" /\ command'.cmd = "Stop" /\ Current' = c
    BY <1>6, <2>1 DEF At6
  <2>4. fbState'[c] = "RUNNING" /\ \A b \in Path : b # c => fbState'[b] = fbState[b]
    <3>1. \A b \in Block : fbState'[b] = IF b = c /\ Accepts(c, "Start") THEN To("Start") ELSE fbState[b]
      BY <2>1, <2>2, EntersStep
    <3>2. Accepts(c, "Start") /\ To("Start") = "RUNNING"
      BY <2>2 DEF Accepts, From, To
    <3> QED
      BY <2>2, <3>1, <3>2, Constants
  <2>5. \A b \in Path : ~Waiting(b) /\ ~Restarting(b) /\ (Stopping(b) => b = c)
    BY <2>1 DEF Waiting, Restarting, Stopping, At
  <2>6. \A b \in Path : b = c => Stopping(b)' /\ Waiting(b)'
    BY <2>3 DEF Stopping, Waiting
  <2>7. StateAtRestart'
    BY <2>3, <2>4 DEF StateAtRestart, At
  <2> HIDE DEF c
  <2>8. PostOnce' /\ ThreadStops'
    BY <1>2, <2>1, <2>5 DEF PostOnce, ThreadStops
  <2>9. StopIsSent' /\ WarmIsSent'
    BY <1>2, <2>1, <2>5, <2>6 DEF StopIsSent, WarmIsSent
  <2>10. StopIsWaited'
    BY <1>2, <2>1, <2>4, <2>5, <2>6 DEF StopIsWaited
  <2> QED
    BY <2>7, <2>8, <2>9, <2>10 DEF Restarts
<1>11. CASE StartNewEventChain
  <2>1. /\ UNCHANGED <<event, posts, sent, thread, fbState>> /\ At("queue") /\ InRestart
        /\ command.cmd \in {"Start", "Stop"}
        /\ IF command.cmd = "Stop" THEN Goes("wait") ELSE Onward(<<>>)
    BY <1>11 DEF StartNewEventChain, Passes, InRestart, At, AtRestart
  <2>2. CASE command.cmd = "Stop"
    <3>1. Goes("wait")
      BY <2>1, <2>2
    <3>2. command'.at = "wait" /\ command'.cmd = command.cmd /\ Current' = Current
      BY <1>6, <3>1 DEF At6
    <3>3. \A b \in Path : (Waiting(b)' <=> Waiting(b)) /\ (Stopping(b)' <=> Stopping(b)) /\ ~Restarting(b)
      BY <2>1, <2>2, <3>2 DEF Waiting, Stopping, Restarting, At
    <3>4. StateAtRestart'
      BY <1>2, <2>1, <2>2, <3>2 DEF StateAtRestart, At
    <3> QED
      BY <1>2, <2>1, <3>3, <3>4
         DEF Restarts, PostOnce, ThreadStops, StopIsSent, WarmIsSent, StopIsWaited
  <2>3. CASE command.cmd = "Start"
    <3>1. ~InRestart'
      BY <1>3, <1>4, <1>5, <2>1, <2>3
    <3>2. \A b \in Path : ~Waiting(b) /\ ~Stopping(b) /\ ~Restarting(b)
      BY <2>1, <2>3 DEF Waiting, Stopping, Restarting, At
    <3>3. StateAtRestart'
      BY <3>1 DEF StateAtRestart, InRestart, At
    <3> QED
      BY <1>2, <2>1, <3>2, <3>3
         DEF Restarts, PostOnce, ThreadStops, StopIsSent, WarmIsSent, StopIsWaited
  <2> QED
    BY <2>1, <2>2, <2>3
<1>12. CASE WaitForStop
  <2> DEFINE c == Current
  <2>1. /\ UNCHANGED <<event, sent, thread, fbState>> /\ At("wait") /\ InRestart
        /\ posts[c] > 0 /\ posts' = [posts EXCEPT ![c] = @ - 1] /\ Onward(<<>>)
    BY <1>12 DEF WaitForStop, Passes, InRestart, At
  <2>2. c \in Path /\ command.todo # <<>>
    BY <1>3, <2>1
  <2>3. /\ posts[c] = 1 /\ fbState[c] = "STOPPED" /\ sent[c] = "STOP"
        /\ thread.at = "idle" \/ thread.block # c
    BY <1>2, <2>1, <2>2 DEF PostOnce
  <2>4. \A b \in Path : (Waiting(b) => b = c) /\ (Stopping(b) => b = c) /\ ~Restarting(b)
    BY <2>1 DEF Waiting, Stopping, Restarting, At
  <2>5. \A b \in Path : posts'[b] = 0
    <3>1. posts'[c] = 0 /\ \A b \in Path : b # c => posts'[b] = posts[b] /\ posts[b] \in Nat
      BY <2>1, <2>2, <2>3 DEF Shapes
    <3> QED
      BY <1>2, <2>4, <3>1 DEF PostOnce
  <2>6. ~InRestart'
    BY <1>4, <1>5, <2>1, <2>2
  <2>7. StateAtRestart'
    BY <2>6 DEF StateAtRestart, InRestart, At
  <2> HIDE DEF c
  <2>8. PostOnce'
    BY <2>5 DEF PostOnce
  <2>9. ThreadStops'
    BY <1>2, <2>1, <2>3, <2>4 DEF ThreadStops
  <2>10. StopIsSent' /\ WarmIsSent'
    BY <1>2, <2>1, <2>3, <2>4 DEF StopIsSent, WarmIsSent
  <2>11. StopIsWaited'
    BY <1>2, <2>1, <2>3, <2>4 DEF StopIsWaited
  <2> QED
    BY <2>7, <2>8, <2>9, <2>10, <2>11 DEF Restarts
<1>13. CASE EndCommand
  <2>1. /\ UNCHANGED <<event, posts, sent, thread, fbState>> /\ ~InRestart /\ command' = NoCommand
    BY <1>13 DEF EndCommand, InRestart, At
  <2>2. ~InRestart'
    BY <2>1 DEF InRestart, NoCommand
  <2> QED
    BY <2>1, <2>2, OutsideRestarts
<1> QED
  BY <1>7, <1>8, <1>9, <1>10, <1>11, <1>12, <1>13 DEF Management

LEMMA RestartsNext ==
  ASSUME Base, Restarts, [Next]_vars, "raced" \notin faults'
  PROVE  Restarts'
<1>1. CASE EventChain
  BY <1>1, ChainRestarts
<1>2. CASE Management
  BY <1>2, ManagementRestarts
<1>3. ASSUME NEW c \in Creations, CreateFB(c.path, c.type) PROVE Restarts'
  <2>1. UNCHANGED <<event, sent, posts, thread, command>> /\ command.at = "idle"
    BY <1>3 DEF CreateFB, Manages
  <2>2. ~InRestart /\ ~InRestart'
    BY <2>1 DEF InRestart
  <2>3. \A b \in Path : fbState'[b] = "RUNNING" => fbState[b] = "RUNNING"
    BY <1>3, Constants DEF CreateFB
  <2> QED
    BY <2>1, <2>2, <2>3, OutsideRestarts
<1>4. ASSUME NEW c \in Creations, DeleteFB(c.path) PROVE Restarts'
  <2> DEFINE p == c.path
  <2>1. command' = command /\ command.at = "idle" /\ p \in Path \ {<<>>}
    BY <1>4, Constants DEF DeleteFB, Manages
  <2>2. ~InRestart /\ ~InRestart'
    BY <2>1 DEF InRestart
  <2>3. CASE UNCHANGED <<fbState, event, sent, posts, thread>>
    BY <2>1, <2>2, <2>3, OutsideRestarts
  <2>4. CASE /\ fbState' = [b \in Block |-> IF b \in {p, Append(p, Internal)} THEN "none" ELSE fbState[b]]
             /\ event' = [event EXCEPT ![p] = "none"] /\ sent' = [sent EXCEPT ![p] = "none"]
             /\ posts' = [posts EXCEPT ![p] = 0]
             /\ thread' = IF thread.block = p THEN [thread EXCEPT !.block = Gone] ELSE thread
    <3>1. Quiet
      BY <2>2, RestartsAreQuiet
    <3>2. event'[p] = "none" /\ \A b \in Path : b # p => event'[b] = event[b] /\ sent'[b] = sent[b]
      BY <2>1, <2>4 DEF Base, Names, Shapes
    <3>3. \A b \in Path : fbState'[b] = "RUNNING" => fbState[b] = "RUNNING"
      BY <2>4, Constants
    <3>4. thread'.at = thread.at /\ thread'.block \in {thread.block, Gone}
      BY <2>4 DEF Base, Names, Shapes
    <3> HIDE DEF p
    <3>5. \A b \in Path : posts'[b] = 0
      BY <2>4, <3>1 DEF Quiet, Base, Names, Shapes
    <3>6. Quiet'
      BY <2>1, <3>1, <3>2, <3>3, <3>4, <3>5, Constants DEF Quiet
    <3> QED
      BY <2>2, <3>6, QuietRestarts, PTL
  <2> QED
    BY <1>4, <2>3, <2>4 DEF DeleteFB
<1>5. ASSUME NEW c \in Commands, BeginCommand(c.cmd, c.path) PROVE Restarts'
  <2>1. UNCHANGED <<event, sent, posts, thread, fbState>> /\ command.at = "idle"
    BY <1>5 DEF BeginCommand, At
  <2>2. command'.at \in {"idle", "walk"}
    BY <1>5, <2>1 DEF BeginCommand
  <2>3. ~InRestart /\ ~InRestart'
    BY <2>1, <2>2 DEF InRestart
  <2> QED
    BY <2>1, <2>3, OutsideRestarts
<1>6. CASE UNCHANGED vars
  <2>1. UNCHANGED <<event, sent, posts, thread, fbState, command>>
    BY <1>6 DEF vars
  <2> QED
    BY <2>1 DEF Restarts, PostOnce, ThreadStops, StopIsSent, WarmIsSent, StopIsWaited, StateAtRestart,
                Waiting, Stopping, Restarting, At, Current
<1> QED
  BY <1>1, <1>2, <1>3, <1>4, <1>5, <1>6 DEF Next

-----------------------------------------------------------------------------
(* A command to the resource comes to every FB.                            *)

LEMMA ContainedParts ==
  ASSUME NEW b \in Contained
  PROVE  /\ b \in Block \ {<<>>} /\ Outer(b) \in Path \ {<<>>}
         /\ IsFB(Outer(b), Len(Outer(b)))
         /\ \A i \in 1 .. Len(Outer(b)) - 1 : IsContainer(Outer(b), i)
         /\ b # Outer(b) => b = Append(Outer(b), Internal) /\ type[Outer(b)] = "composite"
<1> DEFINE Named == {p \in Path \ {<<>>} : /\ IsFB(p, Len(p))
                                          /\ \A i \in 1 .. Len(p) - 1 : IsContainer(p, i)}
<1>1. CASE b \in Named
  BY <1>1, Constants DEF Outer
<1>2. CASE \E p \in Named : type[p] = "composite" /\ b = Append(p, Internal)
  <2>1. PICK p \in Named : type[p] = "composite" /\ b = Append(p, Internal)
    BY <1>2
  <2>2. b \in Block \ Path /\ b # <<>> /\ Front(b) = p
    BY <2>1, Internals
  <2>3. Outer(b) = p
    BY <2>2 DEF Outer
  <2> QED
    BY <2>1, <2>2, <2>3
<1> QED
  BY <1>1, <1>2 DEF Contained

(* What is deeper in a container is in it, or in one of its sub-containers. *)
LEMMA InsideLeads ==
  ASSUME Names, NEW q \in Path, NEW b \in Contained,
         Len(q) < Len(Outer(b)), SubSeq(Outer(b), 1, Len(q)) = q
  PROVE  \E i \in 1 .. Len(Inside(q)) : LeadsTo(Inside(q)[i], b)
<1> DEFINE c == Outer(b)
           k == Len(q) + 1
<1>1. c \in Path \ {<<>>} /\ IsFB(c, Len(c)) /\ \A i \in 1 .. Len(c) - 1 : IsContainer(c, i)
  BY ContainedParts
<1>2. Len(q) \in Nat /\ Len(c) \in Nat /\ c \in Seq(Name)
  BY <1>1, PathSeq
<1>3. k \in 1 .. Len(c)
  BY <1>2
<1>4. Within(c, k) = q
  <2>1. k - 1 = Len(q)
    BY <1>2
  <2> QED
    BY <2>1 DEF Within
<1> HIDE DEF c, k
<1>5. /\ Append(q, c[k]) = Within(c, k + 1) /\ Len(Within(c, k + 1)) = k
  BY <1>1, <1>3, <1>4, WithinStep
<1>6. CASE k = Len(c)
  <2>1. c[k] \in Range(fbs[q])
    BY <1>1, <1>4, <1>6 DEF IsFB
  <2>2. Append(q, c[k]) = c
    BY <1>2, <1>5, <1>6, WithinAll
  <2>3. PICK i \in 1 .. Len(Inside(q)) : Inside(q)[i] = ToFB(c)
    BY <2>1, <2>2, InsideType
  <2>4. LeadsTo(ToFB(c), b)
    BY DEF LeadsTo, ToFB, c
  <2> QED
    BY <2>3, <2>4
<1>7. CASE k # Len(c)
  <2>1. k \in 1 .. Len(c) - 1
    BY <1>2, <1>3, <1>7
  <2>2. c[k] \in Range(subs[q])
    BY <1>1, <1>4, <2>1 DEF IsContainer
  <2> DEFINE d == Within(c, k + 1)
  <2>3. PICK i \in 1 .. Len(Inside(q)) : Inside(q)[i] = ToContainer(d)
    BY <1>5, <2>2, InsideType
  <2>4. Len(d) = k /\ d = SubSeq(c, 1, k)
    <3>1. (k + 1) - 1 = k
      BY <1>2, <1>3
    <3>2. Within(c, k + 1) = SubSeq(c, 1, (k + 1) - 1)
      BY DEF Within
    <3>3. Within(c, k + 1) = SubSeq(c, 1, k)
      BY <3>1, <3>2
    <3> QED
      BY <1>5, <3>3
  <2> HIDE DEF d
  <2>5. Len(d) < Len(c) /\ SubSeq(c, 1, Len(d)) = d
    BY <1>2, <2>1, <2>4
  <2>6. LeadsTo(ToContainer(d), b)
    BY <2>5 DEF LeadsTo, ToContainer, c
  <2> QED
    BY <2>3, <2>6
<1> QED
  BY <1>6, <1>7

(* Taking what is first off the stack leaves the rest covered.             *)
LEMMA StackCovers ==
  ASSUME NEW s \in Seq(Item), s # <<>>, NEW v \in Seq(Item), NEW r, r = v \o Tail(s),
         NEW b, \E i \in DOMAIN s : LeadsTo(s[i], b),
         LeadsTo(Head(s), b) => \E i \in 1 .. Len(v) : LeadsTo(v[i], b)
  PROVE  \E j \in DOMAIN r : LeadsTo(r[j], b)
<1> DEFINE t == Tail(s)
<1>1. /\ t \in Seq(Item) /\ Len(t) = Len(s) - 1 /\ Len(s) \in Nat \ {0} /\ Head(s) = s[1]
      /\ \A i \in 1 .. Len(s) - 1 : t[i] = s[i + 1] /\ DOMAIN s = 1 .. Len(s)
  OBVIOUS
<1>2. DOMAIN s = 1 .. Len(s) /\ Len(v) \in Nat
  OBVIOUS
<1> HIDE DEF t
<1>3. /\ r \in Seq(Item) /\ Len(r) = Len(v) + Len(t) /\ Len(t) \in Nat
      /\ \A j \in 1 .. Len(v) + Len(t) : r[j] = IF j <= Len(v) THEN v[j] ELSE t[j - Len(v)]
  <2>1. /\ v \o t \in Seq(Item) /\ Len(v \o t) = Len(v) + Len(t)
        /\ \A j \in 1 .. Len(v) + Len(t) : (v \o t)[j] = IF j <= Len(v) THEN v[j] ELSE t[j - Len(v)]
    <3>1. t \in Seq(Item)
      BY <1>1
    <3> QED
      BY <3>1, ConcatProperties
  <2>2. Len(t) \in Nat
    BY <1>1
  <2>3. r = v \o t
    BY DEF t
  <2> QED
    BY <2>1, <2>2, <2>3
<1>4. DOMAIN r = 1 .. Len(v) + Len(t)
  BY <1>3
<1>5. ASSUME NEW i \in DOMAIN s, s[i] # Head(s) PROVE \E j \in DOMAIN r : r[j] = s[i]
  <2>1. i \in 1 .. Len(s) /\ i # 1
    BY <1>1, <1>2, <1>5
  <2> DEFINE j == Len(v) + (i - 1)
  <2>2. /\ j \in 1 .. Len(v) + Len(t) /\ ~(j <= Len(v)) /\ j - Len(v) = i - 1
        /\ i - 1 \in 1 .. Len(s) - 1 /\ (i - 1) + 1 = i
    BY <1>1, <1>2, <1>3, <2>1
  <2> HIDE DEF j
  <2>3. r[j] = t[i - 1] /\ t[i - 1] = s[i]
    BY <1>1, <1>3, <2>2
  <2> QED
    BY <1>4, <2>2, <2>3
<1>6. ASSUME NEW i \in 1 .. Len(v) PROVE \E j \in DOMAIN r : r[j] = v[i]
  <2>1. i \in 1 .. Len(v) + Len(t) /\ i <= Len(v)
    BY <1>2, <1>3
  <2> QED
    BY <1>3, <1>4, <2>1
<1>7. PICK i \in DOMAIN s : LeadsTo(s[i], b)
  OBVIOUS
<1>8. CASE s[i] = Head(s)
  <2>1. PICK k \in 1 .. Len(v) : LeadsTo(v[k], b)
    BY <1>7, <1>8
  <2> QED
    BY <1>6, <2>1
<1>9. CASE s[i] # Head(s)
  BY <1>5, <1>7, <1>9
<1> QED
  BY <1>8, <1>9

LEMMA OnwardCovers ==
  ASSUME Names, command.todo # <<>>, NEW visits \in Seq(Item), Onward(visits), NEW b,
         \E i \in DOMAIN command.todo : LeadsTo(command.todo[i], b),
         LeadsTo(Head(command.todo), b) => \E i \in 1 .. Len(visits) : LeadsTo(visits[i], b)
  PROVE  \E j \in DOMAIN command'.todo : LeadsTo(command'.todo[j], b)
<1>1. command.todo \in Seq(Item) /\ CommandType
  BY DEF Names, Shapes, CommandType, At6
<1>2. command'.todo = visits \o Tail(command.todo)
  BY <1>1, OnwardStep
<1> QED
  BY <1>1, <1>2, StackCovers

(* what Covered says of b                                                  *)
IsCovered(b) ==
  fbState[b] = To(command.cmd) \/ \E i \in DOMAIN command.todo : LeadsTo(command.todo[i], b)

LEMMA OnwardKeeps ==
  ASSUME Names, command.todo # <<>>, NEW visits \in Seq(Item), Onward(visits), NEW b, IsCovered(b),
         fbState[b] = To(command.cmd) => fbState'[b] = To(command.cmd),
         LeadsTo(Head(command.todo), b) =>
           fbState'[b] = To(command.cmd) \/ \E i \in 1 .. Len(visits) : LeadsTo(visits[i], b)
  PROVE  IsCovered(b)'
<1>1. CommandType
  BY DEF Names, Shapes, CommandType, At6
<1>2. command'.cmd = command.cmd
  BY <1>1, OnwardStep
<1>3. CASE fbState'[b] = To(command.cmd)
  BY <1>2, <1>3 DEF IsCovered
<1>4. CASE fbState'[b] # To(command.cmd)
  <2>1. \E i \in DOMAIN command.todo : LeadsTo(command.todo[i], b)
    BY <1>4 DEF IsCovered
  <2>2. LeadsTo(Head(command.todo), b) => \E i \in 1 .. Len(visits) : LeadsTo(visits[i], b)
    BY <1>4
  <2>3. \E j \in DOMAIN command'.todo : LeadsTo(command'.todo[j], b)
    BY <2>1, <2>2, OnwardCovers
  <2> QED
    BY <2>3 DEF IsCovered, LeadsTo
<1> QED
  BY <1>3, <1>4

LEMMA GoesKeeps ==
  ASSUME Names, NEW place \in At6, Goes(place), NEW b, IsCovered(b),
         \/ fbState[b] = To(command.cmd) => fbState'[b] = To(command.cmd)
         \/ \E i \in DOMAIN command.todo : LeadsTo(command.todo[i], b)
  PROVE  IsCovered(b)'
<1>1. CommandType
  BY DEF Names, Shapes, CommandType, At6
<1>2. command'.cmd = command.cmd /\ command'.todo = command.todo
  BY <1>1, GoesStep
<1> QED
  BY <1>2 DEF IsCovered, LeadsTo

(* From an E_RESTART a command goes nowhere.                               *)
LEMMA LeadsToRestart ==
  ASSUME Base, InRestart, NEW b \in Contained \cup {<<>>}, LeadsTo(Head(command.todo), b)
  PROVE  b = Current
<1> DEFINE c == Current
<1>1. /\ c \in Path \ {<<>>} /\ type[c] = "E_RESTART"
      /\ Head(command.todo).kind = "FB" /\ Head(command.todo).path = c
  BY DEF Base, AtRestart, Current
<1>2. c = b \/ c = Outer(b)
  BY <1>1 DEF LeadsTo, ToFB
<1>3. CASE b = <<>>
  BY <1>1, <1>2, <1>3, Constants DEF Outer
<1>4. CASE b \in Contained /\ b # Outer(b)
  BY <1>1, <1>2, <1>4, ContainedParts
<1> QED
  BY <1>2, <1>3, <1>4

LEMMA SameContained ==
  ASSUME UNCHANGED <<subs, fbs, type>> PROVE Contained' = Contained
<1>1. \A p, i : (IsFB(p, i)' <=> IsFB(p, i)) /\ (IsContainer(p, i)' <=> IsContainer(p, i))
  BY DEF IsFB, IsContainer
<1> QED
  BY <1>1 DEF Contained

LEMMA EnterCovered ==
  ASSUME Base, EnterContainer, NEW b \in Contained \cup {<<>>}, IsCovered(b)
  PROVE  IsCovered(b)'
<1> USE DEF Base
<1>1. /\ fbState' = fbState /\ Onward(Inside(Current)) /\ command.todo # <<>>
      /\ Head(command.todo).kind = "container"
  BY DEF EnterContainer, Reached
<1>2. Current \in Path /\ Head(command.todo).path = Current
  BY <1>1, TodoParts, ItemParts DEF Names, Current
<1>3. Inside(Current) \in Seq(Item)
  BY <1>2, InsideType
<1>4. ASSUME LeadsTo(Head(command.todo), b)
      PROVE  \E i \in 1 .. Len(Inside(Current)) : LeadsTo(Inside(Current)[i], b)
  <2>1. Len(Current) < Len(Outer(b)) /\ SubSeq(Outer(b), 1, Len(Current)) = Current
    BY <1>1, <1>2, <1>4 DEF LeadsTo, ToFB
  <2>2. b # <<>>
    <3>1. Len(Current) \in Nat
      BY <1>2, PathSeq
    <3>2. b = <<>> => Len(Outer(b)) = 0
      BY Constants DEF Outer
    <3> QED
      BY <2>1, <3>1, <3>2
  <2> QED
    BY <1>2, <2>1, <2>2, InsideLeads
<1> QED
  BY <1>1, <1>3, <1>4, OnwardKeeps

LEMMA ChangeCovered ==
  ASSUME Base, ChangeState, NEW b \in Contained \cup {<<>>}, IsCovered(b), command'.at # "idle"
  PROVE  IsCovered(b)'
<1> USE DEF Base
<1> DEFINE c == Current
<1>1. /\ Enters(c, command.cmd) /\ command.todo # <<>> /\ At("walk")
      /\ Head(command.todo).kind = "FB" /\ Head(command.todo).path = c
  BY DEF ChangeState, Reached, Current
<1>2. c \in Block /\ command.cmd \in Command /\ b \in Block
  BY <1>1, TodoParts, ContainedParts, Constants DEF Names, AtRestart, At
<1>3. Accepts(c, command.cmd)
  BY DEF ChangeState, NoCommand
<1>4. fbState'[c] = To(command.cmd) /\ (b # c => fbState'[b] = fbState[b])
  BY <1>1, <1>2, <1>3, EntersStep DEF Names
<1>5. CASE IsRestart(c)
  <2>1. Goes("store")
    BY <1>3, <1>5 DEF ChangeState
  <2>2. "store" \in At6
    BY DEF At6
  <2> QED
    BY <1>4, <2>1, <2>2, GoesKeeps
<1>6. CASE ~IsRestart(c)
  <2>1. Onward(PassedTo(c))
    BY <1>3, <1>6 DEF ChangeState
  <2>2. PassedTo(c) \in Seq(Item)
    BY <1>2, PassedToType
  <2>3. ASSUME LeadsTo(Head(command.todo), b), b # c
        PROVE  \E i \in 1 .. Len(PassedTo(c)) : LeadsTo(PassedTo(c)[i], b)
    <3>1. c = <<>> \/ c = Outer(b)
      BY <1>1, <2>3 DEF LeadsTo, ToFB
    <3>2. CASE c = <<>>
      <4>1. b \in Contained
        BY <2>3, <3>2
      <4>2. Outer(b) \in Path \ {<<>>}
        BY <4>1, ContainedParts
      <4>3. Len(c) < Len(Outer(b)) /\ SubSeq(Outer(b), 1, Len(c)) = c /\ c \in Path
        BY <3>2, <4>2, PathSeq, Constants
      <4>4. PassedTo(c) = Inside(c)
        BY <3>2 DEF PassedTo
      <4> HIDE DEF c
      <4> QED
        BY <4>1, <4>3, <4>4, InsideLeads
    <3>3. CASE c # <<>> /\ c = Outer(b)
      <4>1. b \in Contained
        BY <2>3, <3>3, Constants DEF Outer
      <4>2. b = Append(c, Internal) /\ IsComposite(c)
        BY <2>3, <3>3, <4>1, ContainedParts DEF IsComposite
      <4>3. PassedTo(c) = <<ToFB(b)>>
        BY <3>3, <4>2 DEF PassedTo
      <4>4. Len(<<ToFB(b)>>) = 1 /\ <<ToFB(b)>>[1] = ToFB(b) /\ LeadsTo(ToFB(b), b)
        BY DEF LeadsTo
      <4> HIDE DEF c
      <4> QED
        BY <4>3, <4>4
    <3> QED
      BY <3>1, <3>2, <3>3
  <2> HIDE DEF c
  <2>4. LeadsTo(Head(command.todo), b) =>
          fbState'[b] = To(command.cmd) \/ \E i \in 1 .. Len(PassedTo(c)) : LeadsTo(PassedTo(c)[i], b)
    BY <1>4, <2>3
  <2>5. fbState[b] = To(command.cmd) => fbState'[b] = To(command.cmd)
    BY <1>4
  <2> QED
    BY <1>1, <2>1, <2>2, <2>4, <2>5, OnwardKeeps
<1> QED
  BY <1>5, <1>6

LEMMA RestartCovered ==
  ASSUME Base, Restarts, StoreEvent \/ KeepRunning \/ StartNewEventChain \/ WaitForStop,
         NEW b \in Contained \cup {<<>>}, IsCovered(b)
  PROVE  IsCovered(b)'
<1> USE DEF Base
<1>1. InRestart
  BY DEF StoreEvent, KeepRunning, StartNewEventChain, WaitForStop, InRestart, At
<1>2. LeadsTo(Head(command.todo), b) => b = Current
  BY <1>1, LeadsToRestart
<1>3. command.todo # <<>> /\ Current \in Path /\ command.cmd \in Command
  BY <1>1 DEF AtRestart, InRestart
<1>4. ASSUME Onward(<<>>), fbState' = fbState, fbState[Current] = To(command.cmd) PROVE IsCovered(b)'
  <2>1. <<>> \in Seq(Item)
    OBVIOUS
  <2>2. LeadsTo(Head(command.todo), b) => fbState'[b] = To(command.cmd)
    BY <1>2, <1>4
  <2> QED
    BY <1>3, <1>4, <2>1, <2>2, OnwardKeeps
<1>5. ASSUME NEW place \in At6, Goes(place), fbState' = fbState PROVE IsCovered(b)'
  BY <1>5, GoesKeeps
<1>6. {"rerun", "queue", "wait"} \subseteq At6
  BY DEF At6
<1>7. PostOnce /\ StateAtRestart
  BY DEF Restarts
<1>8. CASE StoreEvent
  <2>1. fbState' = fbState /\ fbState[Current] = To(command.cmd)
    BY <1>7, <1>8 DEF StoreEvent, StateAtRestart
  <2>2. Goes("queue") \/ Goes("rerun") \/ Onward(<<>>)
    BY <1>8 DEF StoreEvent
  <2> QED
    BY <1>4, <1>5, <1>6, <2>1, <2>2
<1>9. CASE KeepRunning
  <2>1. Enters(Current, "Start") /\ Goes("queue") /\ "Start" \in Command
    BY <1>9 DEF KeepRunning, Command
  <2>2. Current \in Block /\ b \in Block
    BY <1>3, ContainedParts, Constants
  <2>3. b # Current => fbState'[b] = fbState[b]
    BY <2>1, <2>2, EntersStep DEF Names
  <2>4. b = Current => \E i \in DOMAIN command.todo : LeadsTo(command.todo[i], b)
    <3>1. Head(command.todo) = command.todo[1] /\ 1 \in DOMAIN command.todo
      BY <1>3, TodoParts DEF Names
    <3>2. Head(command.todo) = ToFB(Current)
      <4>1. Head(command.todo) \in Item /\ Head(command.todo).kind = "FB"
        BY <1>1, <1>3, TodoParts DEF Names, AtRestart
      <4> QED
        BY <4>1, ItemParts DEF Current
    <3>3. LeadsTo(command.todo[1], Current)
      BY <3>1, <3>2 DEF LeadsTo
    <3> QED
      BY <3>1, <3>3
  <2> QED
    BY <1>6, <2>1, <2>3, <2>4, GoesKeeps
<1>10. CASE StartNewEventChain
  <2>1. fbState' = fbState /\ At("queue") /\ IF command.cmd = "Stop" THEN Goes("wait") ELSE Onward(<<>>)
    BY <1>10 DEF StartNewEventChain
  <2>2. CASE command.cmd = "Stop"
    BY <1>5, <1>6, <2>1, <2>2
  <2>3. CASE command.cmd # "Stop"
    <3>1. command.cmd = "Start"
      BY <2>1, <2>3 DEF AtRestart
    <3>2. fbState[Current] = To(command.cmd)
      BY <1>7, <2>1, <3>1 DEF StateAtRestart
    <3> QED
      BY <1>4, <2>1, <2>3, <3>2
  <2> QED
    BY <2>2, <2>3
<1>11. CASE WaitForStop
  <2>1. fbState' = fbState /\ At("wait") /\ posts[Current] > 0 /\ Onward(<<>>)
    BY <1>11 DEF WaitForStop
  <2>2. command.cmd = "Stop"
    BY <2>1 DEF AtRestart
  <2>3. fbState[Current] = To(command.cmd)
    BY <1>3, <1>7, <2>1, <2>2 DEF PostOnce, To
  <2> QED
    BY <1>4, <2>1, <2>3
<1> QED
  BY <1>8, <1>9, <1>10, <1>11

LEMMA CoveredNext ==
  ASSUME Base, Restarts, Covered, [Next]_vars
  PROVE  Covered'
<1>1. SUFFICES ASSUME command'.at # "idle", command'.whole, NEW b \in (Contained \cup {<<>>})'
               PROVE  IsCovered(b)'
  BY DEF Covered, IsCovered
<1>2. ASSUME UNCHANGED <<subs, fbs, type>>, command.at # "idle", command.whole
      PROVE  b \in Contained \cup {<<>>} /\ IsCovered(b)
  BY <1>1, <1>2, SameContained DEF Covered, IsCovered
<1>3. CASE EventChain
  <2>1. UNCHANGED <<subs, fbs, type, command>>
    BY <1>3 DEF EventChain, TakeEvent, ThreadEnds, SendEvent, TestStop, PostStopped, UsesDeletedFB, Executes, lists
  <2>2. b \in Contained \cup {<<>>} /\ IsCovered(b)
    BY <1>1, <1>2, <2>1
  <2>3. ASSUME fbState' = fbState PROVE IsCovered(b)'
    BY <2>1, <2>2, <2>3 DEF IsCovered, LeadsTo
  <2>4. CASE TestStop /\ fbState' # fbState
    <3> DEFINE c == thread.block
    <3>1. c \in Path /\ thread.at = "test" /\ event[c] = "STOP" /\ Enters(c, "Stop")
      BY <2>4 DEF TestStop, Base, Names, Shapes
    <3>2. command.cmd = "Stop"
      BY <3>1 DEF Restarts, ThreadStops, Waiting
    <3>3. c \in Block /\ b \in Block /\ "Stop" \in Command
      BY <2>2, <3>1, ContainedParts, Constants DEF Command
    <3>4. fbState'[b] \in {fbState[b], To("Stop")}
      BY <3>1, <3>3, EntersStep DEF Base, Names
    <3> QED
      BY <2>1, <2>2, <3>2, <3>4 DEF IsCovered, LeadsTo
  <2> QED
    BY <1>3, <2>3, <2>4 DEF EventChain, TakeEvent, ThreadEnds, SendEvent, PostStopped, UsesDeletedFB
<1>4. CASE Management
  <2>1. UNCHANGED <<subs, fbs, type>> /\ command.at # "idle" /\ (command'.whole => command.whole)
    <3>1. UNCHANGED <<subs, fbs, type>>
      BY <1>4 DEF Management, EnterContainer, ChangeState, StoreEvent, KeepRunning, StartNewEventChain,
                  WaitForStop, EndCommand, Passes, lists
    <3>2. command.at # "idle"
      BY <1>4 DEF Management, EnterContainer, ChangeState, StoreEvent, KeepRunning, StartNewEventChain,
                  WaitForStop, EndCommand, Reached, At
    <3>3. command'.whole => command.whole
      <4>1. CommandType
        BY DEF Base, Names, Shapes, CommandType, At6
      <4>2. command' = NoCommand \/ (\E place \in At6 : Goes(place)) \/ \E visits : Onward(visits)
        BY <1>4 DEF Management, EnterContainer, ChangeState, StoreEvent, KeepRunning, StartNewEventChain,
                    WaitForStop, EndCommand, At6
      <4>3. ASSUME command' = NoCommand PROVE ~command'.whole
        BY <4>3 DEF NoCommand
      <4>4. ASSUME NEW place \in At6, Goes(place) PROVE command'.whole = command.whole
        BY <4>1, <4>4, GoesStep
      <4>5. ASSUME NEW visits, Onward(visits) PROVE command'.whole = command.whole
        <5>1. command' = [command EXCEPT !.at = "walk", !.todo = visits \o Tail(command.todo)]
          BY <4>5 DEF Onward
        <5> DEFINE t == visits \o Tail(command.todo)
        <5> HIDE DEF t
        <5>2. command' = [command EXCEPT !.at = "walk", !.todo = t]
          BY <5>1 DEF t
        <5> QED
          BY <4>1, <5>2 DEF CommandType
      <4> QED
        BY <4>2, <4>3, <4>4, <4>5
    <3> QED
      BY <3>1, <3>2, <3>3
  <2>2. b \in Contained \cup {<<>>} /\ IsCovered(b)
    BY <1>1, <1>2, <2>1
  <2>3. ~EndCommand
    BY <1>1 DEF EndCommand, NoCommand
  <2> QED
    BY <1>1, <1>4, <2>2, <2>3, EnterCovered, ChangeCovered, RestartCovered DEF Management
<1>5. CASE \E c \in Creations : CreateFB(c.path, c.type) \/ DeleteFB(c.path)
  <2>1. command.at = "idle" /\ command' = command
    BY <1>5 DEF CreateFB, DeleteFB, Manages
  <2> QED
    BY <1>1, <2>1
<1>6. CASE \E c \in Commands : BeginCommand(c.cmd, c.path)
  <2>1. PICK c \in Commands : BeginCommand(c.cmd, c.path)
    BY <1>6
  <2> DEFINE Begun(d) == command' = [at |-> "walk", cmd |-> c.cmd, todo |-> <<ToFB(d)>>, whole |-> c.path = <<>>]
  <2>2. /\ command.at = "idle"
        /\ command' = command \/ \E d \in IF c.path = <<>> THEN {c.path} ELSE Found(c.path) : Begun(d)
    BY <2>1 DEF BeginCommand
  <2>3. PICK d \in IF c.path = <<>> THEN {c.path} ELSE Found(c.path) : Begun(d)
    BY <1>1, <2>2
  <2>4. c.path = <<>>
    <3>1. command'.whole = (c.path = <<>>)
      BY <2>3
    <3> QED
      BY <1>1, <3>1
  <2>5. command'.todo = <<ToFB(d)>>
    BY <2>3
  <2>6. command'.todo = <<ToFB(<<>>)>>
    BY <2>3, <2>4, <2>5
  <2>7. 1 \in DOMAIN command'.todo /\ command'.todo[1] = ToFB(<<>>)
    BY <2>6
  <2>8. LeadsTo(command'.todo[1], b)
    BY <2>7 DEF LeadsTo, ToFB
  <2> QED
    BY <2>7, <2>8 DEF IsCovered, LeadsTo
<1>7. CASE UNCHANGED vars
  <2>1. UNCHANGED <<subs, fbs, type, command, fbState>>
    BY <1>7 DEF vars
  <2> QED
    BY <1>1, <1>2, <2>1 DEF IsCovered, LeadsTo
<1> QED
  BY <1>3, <1>4, <1>5, <1>6, <1>7 DEF Next

-----------------------------------------------------------------------------
(* The answer of a command to the resource.                                *)

LEMMA AnswersNext ==
  ASSUME Base, "raced" \notin faults => Restarts /\ Covered, NoAnswer, Agreement, [Next]_vars
  PROVE  NoAnswer' /\ Agreement'
<1>1. ASSUME last' = "none" PROVE NoAnswer' /\ Agreement'
  BY <1>1 DEF NoAnswer, Agreement
<1>2. "raced" \notin faults' => Restarts /\ Covered
  BY FaultsGrow
<1>3. ASSUME UNCHANGED <<subs, fbs, type, command, last>>, ecet' \in {ecet, "ended"},
             command.at = "idle" /\ "raced" \notin faults' => fbState' = fbState
      PROVE  NoAnswer' /\ Agreement'
  <2>1. NoAnswer'
    BY <1>3 DEF NoAnswer
  <2>2. Contained' = Contained
    BY <1>3, SameContained
  <2>3. "raced" \notin faults' => "raced" \notin faults
    BY FaultsGrow
  <2>4. Agreement'
    BY <1>3, <2>2, <2>3 DEF Agreement, At
  <2> QED
    BY <2>1, <2>4
<1>4. CASE EventChain
  <2>1. UNCHANGED <<subs, fbs, type, command, last>> /\ ecet' \in {ecet, "ended"}
    BY <1>4 DEF EventChain, TakeEvent, ThreadEnds, SendEvent, TestStop, PostStopped, UsesDeletedFB, Executes, lists
  <2>2. CASE ~TestStop
    BY <1>3, <1>4, <2>1, <2>2 DEF EventChain, TakeEvent, ThreadEnds, SendEvent, PostStopped, UsesDeletedFB
  <2>3. CASE TestStop
    <3>1. ASSUME command.at = "idle", "raced" \notin faults' PROVE fbState' = fbState
      <4>1. Quiet
        BY <1>2, <3>1, RestartsAreQuiet DEF InRestart
      <4>2. thread.block \in Path /\ thread.at = "test"
        BY <2>3 DEF TestStop, Base, Names, Shapes
      <4>3. event[thread.block] # "STOP"
        BY <4>1, <4>2 DEF Quiet
      <4> QED
        BY <2>3, <4>3 DEF TestStop
    <3> QED
      BY <1>3, <2>1, <3>1
  <2> QED
    BY <2>2, <2>3
<1>5. CASE Management /\ ~EndCommand
  <2>1. command.at # "idle" /\ last' = last
    BY <1>5 DEF Management, EnterContainer, ChangeState, StoreEvent, KeepRunning, StartNewEventChain,
                WaitForStop, Reached, At, Passes
  <2> QED
    BY <1>1, <2>1 DEF NoAnswer
<1>6. CASE EndCommand
  <2>1. /\ command.at = "walk" /\ command.todo = <<>> /\ command' = NoCommand
        /\ UNCHANGED <<subs, fbs, type, fbState, faults>> /\ last = "none" /\ command.cmd \in Command
    BY <1>6 DEF EndCommand, At, lists, NoAnswer, Base, AtRestart
  <2>2. CASE ~command.whole
    BY <1>1, <1>6, <2>1, <2>2 DEF EndCommand
  <2>3. CASE command.whole
    <3>1. /\ last' = command.cmd
          /\ ecet' = CASE command.cmd = "Start" /\ ecet = "new" -> "runs"
                       [] command.cmd \in {"Stop", "Kill"} /\ ecet = "runs" ->
                              IF thread.at = "idle" THEN "ending" ELSE "ended"
                       [] OTHER -> ecet
      BY <1>6, <2>3 DEF EndCommand
    <3>2. NoAnswer'
      BY <2>1 DEF NoAnswer, NoCommand
    <3>3. last' \in {"Stop", "Kill"} => ecet' # "runs"
      BY <3>1
    <3>4. Contained' = Contained
      BY <2>1, SameContained
    <3>5. "raced" \notin faults => \A b \in Contained \cup {<<>>} : fbState[b] = To(command.cmd)
      <4>1. DOMAIN command.todo = {}
        BY <2>1
      <4> QED
        BY <1>2, <2>1, <2>3, <4>1 DEF Covered
    <3>6. Agreement'
      BY <2>1, <3>1, <3>3, <3>4, <3>5 DEF Agreement
    <3> QED
      BY <3>2, <3>6
  <2> QED
    BY <2>2, <2>3
<1>7. CASE \E c \in Creations : CreateFB(c.path, c.type) \/ DeleteFB(c.path)
  BY <1>1, <1>7 DEF CreateFB, DeleteFB, Manages
<1>8. CASE \E c \in Commands : BeginCommand(c.cmd, c.path)
  BY <1>1, <1>8 DEF BeginCommand
<1>9. CASE UNCHANGED vars
  BY <1>3, <1>9 DEF vars
<1> QED
  BY <1>4, <1>5, <1>6, <1>7, <1>8, <1>9 DEF Next

-----------------------------------------------------------------------------
(* The invariant.                                                          *)

LEMMA InvInit == Init => Inv
<1> SUFFICES ASSUME Init PROVE Inv
  OBVIOUS
<1>1. Base
  BY InitBase
<1>2. /\ command = NoCommand /\ last = "none" /\ thread = NoEvent
      /\ event = [b \in Path |-> "none"] /\ posts = [b \in Path |-> 0]
  BY DEF Init
<1>3. Quiet /\ ~InRestart
  BY <1>2 DEF Quiet, InRestart, NoCommand, NoEvent
<1>4. Restarts
  BY <1>3, QuietRestarts
<1>5. Covered /\ NoAnswer /\ Agreement
  BY <1>2 DEF Covered, NoAnswer, Agreement, NoCommand
<1> QED
  BY <1>1, <1>4, <1>5 DEF Inv, Orderly, Base, Names

LEMMA InvNext == Inv /\ [Next]_vars => Inv'
<1> SUFFICES ASSUME Inv, [Next]_vars PROVE Inv'
  OBVIOUS
<1>1. Base
  BY DEF Inv, Base, Names
<1>2. Base'
  BY <1>1, BaseNext
<1>3. NoAnswer' /\ Agreement'
  BY <1>1, AnswersNext DEF Inv, Orderly
<1>4. ASSUME "raced" \notin faults' PROVE Restarts' /\ Covered'
  <2>1. Restarts /\ Covered
    BY <1>4, FaultsGrow DEF Inv, Orderly
  <2> QED
    BY <1>1, <1>4, <2>1, RestartsNext, CoveredNext
<1>5. Orderly'
  BY <1>4 DEF Orderly
<1> QED
  BY <1>2, <1>3, <1>5 DEF Inv, Base, Names

LEMMA Invariance == Spec => []Inv
BY InvInit, InvNext, PTL DEF Spec

(* The state of the life cycle is always of its types: a name or an FB     *)
(* that createFB() or deleteFB() handled is one of the application's, the  *)
(* walk of changeContainedFBsExecutionState() only holds FBs and           *)
(* containers, and startNewEventChain() keeps the external event list      *)
(* within its limit.                                                       *)
THEOREM TypeTheorem == Spec => []TypeOK
<1>1. Inv => TypeOK
  <2> SUFFICES ASSUME Shapes PROVE TypeOK
    BY DEF Inv
  <2>1. Range(ext) \subseteq Path \cup {Gone}
    BY DEF Shapes, Range
  <2>2. Item \subseteq [kind : {"FB", "container"}, path : Block]
    BY Constants DEF Item, ToFB, ToContainer
  <2>3. Range(command.todo) \subseteq Item
    BY DEF Shapes, Range
  <2> QED
    BY <2>1, <2>2, <2>3 DEF Shapes, TypeOK, State, Sendable
<1> QED
  BY <1>1, Invariance, PTL

(* Whatever createFB() and deleteFB() made, refused and deleted, in        *)
(* whatever order: no name is twice in a container, be it an FB's or a     *)
(* sub-container's, and the FBs there are are those that getContainedFB()  *)
(* can reach, each with a chain of containers above it.                    *)
THEOREM NamesUniqueTheorem == Spec => []NamesUnique
<1>1. Inv => NamesUnique
  <2> SUFFICES ASSUME Inv PROVE NamesUnique
    OBVIOUS
  <2> USE DEF Inv
  <2>1. ASSUME NEW p \in Path PROVE IsInjective(subs[p] \o fbs[p])
    <3>1. subs[p] \in Seq(Name) /\ fbs[p] \in Seq(Name)
      BY DEF Shapes
    <3>2. IsInjective(subs[p]) /\ IsInjective(fbs[p]) /\ Range(subs[p]) \cap Range(fbs[p]) = {}
      BY DEF NamesDiffer
    <3> QED
      BY <3>1, <3>2, InjectiveConcat
  <2>2. ASSUME NEW b \in Path \ {<<>>}, IsFB(b, Len(b))
        PROVE  \A i \in 1 .. Len(b) - 1 : IsContainer(b, i)
    <3> DEFINE q == Within(b, Len(b))
    <3>1. b \in Seq(Name) /\ Len(b) \in 1 .. Len(b) /\ Len(b) \in Nat
      BY PathSeq
    <3>2. q \in Path
      BY <3>1, WithinStep
    <3>3. fbs[q] # <<>>
      BY <2>2 DEF IsFB, Range
    <3>4. IsChain(q)
      BY <3>2, <3>3 DEF Rooted
    <3>5. Len(b) \in 1 .. Len(b) + 1
      BY <3>1
    <3>6. /\ Len(q) = Len(b) - 1 /\ \A j \in 1 .. Len(b) - 1 : q[j] = b[j]
          /\ \A j \in 1 .. Len(b) : Within(q, j) = Within(b, j)
      BY <3>1, <3>5, WithinProperties
    <3> HIDE DEF q
    <3>7. ASSUME NEW i \in 1 .. Len(b) - 1 PROVE IsContainer(b, i)
      <4>1. IsContainer(q, i)
        BY <3>4, <3>6 DEF IsChain
      <4>2. i \in 1 .. Len(b)
        BY <3>1
      <4> QED
        BY <3>6, <4>1, <4>2 DEF IsContainer
    <3> QED
      BY <3>7
  <2>3. ASSUME NEW b \in Path \ {<<>>} PROVE Exists(b) <=> b \in Contained
    <3>1. Exists(b) <=> IsFB(b, Len(b))
      BY DEF StatesOfFBs
    <3>2. Exists(b) => b \in Contained
      BY <2>2, <3>1 DEF Contained
    <3>3. b \in Contained => Exists(b)
      BY <3>1, ContainedParts DEF Outer
    <3> QED
      BY <3>2, <3>3
  <2>4. ASSUME NEW c \in Path \ {<<>>} PROVE Exists(Append(c, Internal)) <=> Append(c, Internal) \in Contained
    <3> DEFINE b == Append(c, Internal)
    <3>1. Exists(b) <=> IsFB(c, Len(c)) /\ type[c] = "composite"
      BY DEF StatesOfFBs
    <3>2. Exists(b) => b \in Contained
      BY <2>2, <3>1 DEF Contained
    <3>3. b \notin Path /\ Front(b) = c
      BY Internals
    <3> HIDE DEF b
    <3>4. Outer(b) = c /\ b # c
      BY <3>3 DEF Outer
    <3>5. b \in Contained => Exists(b)
      BY <3>1, <3>4, ContainedParts
    <3> QED
      BY <3>2, <3>5 DEF b
  <2> QED
    BY <2>1, <2>3, <2>4, Constants DEF NamesUnique
<1> QED
  BY <1>1, Invariance, PTL

(* When changeFBExecutionState() of the resource has returned "ready" and  *)
(* nothing else was commanded since, every FB in every container, and the  *)
(* internal FB of every composite, is in the state that was commanded,     *)
(* whatever was created, deleted and commanded before; and after Stop or   *)
(* Kill the event chain thread does not run. It needs that the threads of  *)
(* an E_RESTART have not raced: an executeEvent() that sends STOP late     *)
(* stops an FB that was started again.                                     *)
THEOREM AgreementTheorem == Spec => []Agreement
BY Invariance, PTL DEF Inv

(* mSuspendSemaphore is posted at most once for each Stop of an E_RESTART, *)
(* and only while this Stop is still to wait for it, as long as the two    *)
(* threads have not raced.                                                 *)
THEOREM PostsAreAwaitedTheorem == Spec => []PostsAreAwaited
<1>1. Inv => PostsAreAwaited
  BY DEF Inv, Orderly, Restarts, PostOnce, Waiting, PostsAreAwaited
<1> QED
  BY <1>1, Invariance, PTL

(* E_RESTART sends WARM only after its STOP, or again after a WARM: a Kill *)
(* or Reset in between makes the next start a COLD one.                    *)
THEOREM WarmFollowsStopTheorem == Spec => WarmFollowsStop
<1> DEFINE Step == \A b \in Path : sent'[b] = "WARM" => sent[b] \in {"STOP", "WARM"} \/ "raced" \in faults
<1>1. Inv /\ [Next]_vars => Step
  <2> SUFFICES ASSUME Inv, [Next]_vars, NEW b \in Path, sent'[b] = "WARM", "raced" \notin faults
               PROVE  sent[b] \in {"STOP", "WARM"}
    OBVIOUS
  <2>1. sent \in [Path -> Sendable] /\ WarmIsSent
    BY DEF Inv, Shapes, Orderly, Restarts
  <2>2. CASE sent'[b] = sent[b]
    BY <2>2
  <2>3. CASE SendEvent /\ sent' = [sent EXCEPT ![thread.block] = event[thread.block]]
    <3>1. b # thread.block => sent'[b] = sent[b]
      BY <2>1, <2>3
    <3>2. b = thread.block => sent'[b] = event[b]
      BY <2>1, <2>3
    <3> QED
      BY <2>1, <2>2, <3>1, <3>2 DEF WarmIsSent
  <2>4. ASSUME NEW c, sent' = [sent EXCEPT ![c] = "none"] PROVE sent'[b] = sent[b]
    <3>1. sent'[b] = IF b = c THEN "none" ELSE sent[b]
      BY <2>1, <2>4
    <3> QED
      BY <3>1
  <2>5. \/ sent' = sent \/ (\E c : sent' = [sent EXCEPT ![c] = "none"])
        \/ SendEvent /\ sent' = [sent EXCEPT ![thread.block] = event[thread.block]]
    <3>1. CASE EventChain
      BY <3>1 DEF EventChain, TakeEvent, ThreadEnds, SendEvent, TestStop, PostStopped, UsesDeletedFB
    <3>2. CASE Management
      BY <3>2 DEF Management, EnterContainer, ChangeState, StoreEvent, KeepRunning, StartNewEventChain,
                  WaitForStop, EndCommand
    <3>3. CASE \E c \in Creations : CreateFB(c.path, c.type) \/ DeleteFB(c.path)
      BY <3>3 DEF CreateFB, DeleteFB
    <3>4. CASE \E c \in Commands : BeginCommand(c.cmd, c.path)
      BY <3>4 DEF BeginCommand
    <3>5. CASE UNCHANGED vars
      BY <3>5 DEF vars
    <3> QED
      BY <3>1, <3>2, <3>3, <3>4, <3>5 DEF Next
  <2> QED
    BY <2>2, <2>3, <2>4, <2>5
<1> QED
  BY <1>1, Invariance, PTL DEF Spec, WarmFollowsStop

=============================================================================
