--------------------------- MODULE LocalCommProofs ---------------------------
(* Theorems about local communication, for any number of resources, blocks *)
(* and groups, every application, and every limit.                         *)
EXTENDS LocalComm, WellFoundedInduction, SequenceTheorems, TLAPS

Steps == {"write", "half", "interrupt", "count", "event"}

Fields(t) ==
  /\ t = [f \in DOMAIN t |-> t[f]]
  /\ {"at", "block", "dest", "number", "copy", "missing"} \subseteq DOMAIN t

ThreadShape ==
  /\ thread = [r \in Resource |-> thread[r]]
  /\ \A r \in Resource : /\ Fields(thread[r])
                         /\ thread[r].number \in Int /\ thread[r].copy \in Int

(* What of the types the invariant needs.                                  *)
Shape ==
  /\ app \in Applications
  /\ holder \in [Resource -> Resource \cup {Nobody}]
  /\ rd \in [Block -> [1 .. 2 -> Int]] /\ seen \in [Block -> [1 .. 2 -> Int]]
  /\ count \in [Block -> Int] /\ published \in Int
  /\ ext \in [Resource -> Seq(Block)]
  /\ ThreadShape

(* Events and their execution stay in the resource of their block.         *)
EventsAtHome ==
  \A r \in Resource : \A i \in 1 .. Len(ext[r]) : Home(ext[r][i]) = r

ReceivesAtHome ==
  \A r \in Resource :
    thread[r].at \in {"receive", "store", "indicate"}
      => thread[r].block \in Block /\ Home(thread[r].block) = r

(* A walk holds its own resource's lock, and from LockTarget on the lock of *)
(* the subscriber it is at.                                                *)
OwnLock == \A r \in Resource : Walking(thread[r]) => holder[r] = r

TargetLock ==
  \A r \in Resource :
    thread[r].at \in Steps /\ thread[r].dest \in Block => holder[Target(r)] = r

HalfWritten ==
  \A r \in Resource : At(r, "half") => rd[thread[r].dest][1] = thread[r].number

(* While a subscriber's outputs are of two publications, the walk that is  *)
(* writing them, or has been cut off there, holds the lock.                *)
Writes(r, s) ==
  /\ holder[Home(s)] = r /\ Walking(thread[r])
  /\ thread[r].dest = Gone \/ (thread[r].at = "half" /\ thread[r].dest = s)

MixedIsLocked ==
  \A s \in Block : rd[s][1] # rd[s][2] => \E r \in Resource : Writes(r, s)

Inv ==
  /\ Shape /\ EventsAtHome /\ ReceivesAtHome /\ OwnLock /\ TargetLock /\ HalfWritten
  /\ MixedIsLocked /\ OnePublication

-----------------------------------------------------------------------------

(* The lock of a block's data is that of a resource.                       *)
LEMMA HomeType ==
  ASSUME app \in Applications, NEW b \in Block
  PROVE  Home(b) \in Resource
BY LocalAssumption DEF Home

LEMMA InitInv == Init => Inv
<1> SUFFICES ASSUME Init PROVE Inv
  OBVIOUS
<1>1. Shape
  <2>1. \A r \in Resource : thread[r] = Idle
    BY DEF Init
  <2>2. Fields(Idle) /\ {Idle.number, Idle.copy} \subseteq Int
    BY DEF Fields, Idle
  <2>3. ThreadShape
    BY <2>1, <2>2 DEF Init, ThreadShape, Fields
  <2>4. Zero \in [1 .. 2 -> Int]
    BY DEF Zero
  <2>5. <<>> \in Seq(Block)
    OBVIOUS
  <2> QED
    BY <2>3, <2>4, <2>5 DEF Init, Shape
<1>2. EventsAtHome /\ ReceivesAtHome /\ OwnLock /\ TargetLock /\ HalfWritten
  BY DEF Init, EventsAtHome, ReceivesAtHome, OwnLock, TargetLock, HalfWritten, Idle, Walking, At,
     Steps
<1>3. MixedIsLocked /\ OnePublication
  BY DEF Init, MixedIsLocked, OnePublication, Zero
<1> QED
  BY <1>1, <1>2, <1>3 DEF Inv

(* One thread goes on, the others stay where they are.                     *)
LEMMA ThreadStep ==
  ASSUME ThreadShape, NEW r \in Resource, NEW t, thread' = [thread EXCEPT ![r] = t],
         Fields(t), t.number \in Int, t.copy \in Int
  PROVE  ThreadShape' /\ thread'[r] = t /\ \A q \in Resource \ {r} : thread'[q] = thread[q]
<1>1. thread'[r] = t /\ \A q \in Resource \ {r} : thread'[q] = thread[q]
  BY DEF ThreadShape
<1>2. thread' = [q \in Resource |-> thread'[q]]
  BY DEF ThreadShape
<1>3. \A q \in Resource : Fields(thread'[q]) /\ thread'[q].number \in Int /\ thread'[q].copy \in Int
  BY <1>1 DEF ThreadShape, Fields
<1> QED
  BY <1>1, <1>2, <1>3 DEF ThreadShape, Fields

(* A step that only moves on.                                              *)
LEMMA GoesStep ==
  ASSUME ThreadShape, NEW r \in Resource, NEW place, Goes(r, place)
  PROVE  /\ ThreadShape' /\ \A q \in Resource \ {r} : thread'[q] = thread[q]
         /\ thread'[r].at = place /\ thread'[r].dest = thread[r].dest
         /\ thread'[r].block = thread[r].block /\ thread'[r].number = thread[r].number
         /\ thread'[r].copy = thread[r].copy /\ thread'[r].missing = thread[r].missing
<1> DEFINE t == [thread[r] EXCEPT !.at = place]
<1>1. thread' = [thread EXCEPT ![r] = t]
  BY DEF Goes
<1>2. /\ Fields(t) /\ t.at = place /\ t.dest = thread[r].dest /\ t.block = thread[r].block
      /\ t.number = thread[r].number /\ t.number \in Int /\ t.copy \in Int
      /\ t.copy = thread[r].copy /\ t.missing = thread[r].missing
  BY DEF ThreadShape, Fields
<1> HIDE DEF t
<1> QED
  BY <1>1, <1>2, ThreadStep

(* What the steps do that leave locks, data, events and threads alone.     *)
LEMMA ElsewhereInv ==
  ASSUME Inv, UNCHANGED <<app, holder, rd, seen, count, published, ext, thread>>
  PROVE  Inv'
<1>1. Shape'
  BY DEF Inv, Shape, ThreadShape, Fields
<1>2. EventsAtHome' /\ ReceivesAtHome' /\ OwnLock'
  BY DEF Inv, EventsAtHome, ReceivesAtHome, OwnLock, Home, Walking
<1>3. TargetLock' /\ HalfWritten'
  BY DEF Inv, TargetLock, HalfWritten, Home, Target, At
<1>4. MixedIsLocked' /\ OnePublication'
  BY DEF Inv, MixedIsLocked, OnePublication, Home, Walking, Writes
<1> QED
  BY <1>1, <1>2, <1>3, <1>4 DEF Inv

(* A walk that loses its place keeps its locks.                            *)
LEMMA CloseInv ==
  ASSUME Inv, NEW b \in Block, CloseConnection(b),
         UNCHANGED <<app, holder, rd, seen, count, published, ext>>
  PROVE  Inv'
<1>1. \A r \in Resource :
        /\ Fields(thread'[r])
        /\ thread'[r].at = thread[r].at /\ thread'[r].block = thread[r].block
        /\ thread'[r].number = thread[r].number /\ thread'[r].copy = thread[r].copy
        /\ thread'[r].dest \in {thread[r].dest, Gone}
  <2> SUFFICES ASSUME NEW r \in Resource
               PROVE  /\ Fields(thread'[r])
                      /\ thread'[r].at = thread[r].at /\ thread'[r].block = thread[r].block
                      /\ thread'[r].number = thread[r].number /\ thread'[r].copy = thread[r].copy
                      /\ thread'[r].dest \in {thread[r].dest, Gone}
    OBVIOUS
  <2> DEFINE m == thread[r].missing \ {b}
             d == IF Walking(thread[r]) /\ b \in open /\ b \in {thread[r].dest, thread[r].block}
                  THEN Gone ELSE thread[r].dest
  <2>1. thread'[r] = [thread[r] EXCEPT !.missing = m, !.dest = d] /\ d \in {thread[r].dest, Gone}
    BY DEF CloseConnection
  <2>2. Fields(thread[r])
    BY DEF Inv, Shape, ThreadShape
  <2> HIDE DEF m, d
  <2> QED
    BY <2>1, <2>2 DEF Fields
<1>2. ThreadShape'
  <2>1. thread' = [r \in Resource |-> thread'[r]]
    BY DEF CloseConnection
  <2> QED
    BY <1>1, <2>1 DEF Inv, Shape, ThreadShape, Fields
<1>3. Gone \notin Block
  BY LocalAssumption
<1>4. Shape'
  BY <1>2 DEF Inv, Shape
<1>5. EventsAtHome' /\ ReceivesAtHome' /\ OwnLock'
  BY <1>1 DEF Inv, EventsAtHome, ReceivesAtHome, OwnLock, Home, Walking
<1>6. TargetLock' /\ HalfWritten'
  BY <1>1, <1>3 DEF Inv, TargetLock, HalfWritten, Home, Target, At
<1>7. MixedIsLocked' /\ OnePublication'
  BY <1>1 DEF Inv, MixedIsLocked, OnePublication, Home, Walking, Writes
<1> QED
  BY <1>4, <1>5, <1>6, <1>7 DEF Inv

LEMMA PublishInv ==
  ASSUME Inv, NEW p \in Block, Publish(p)
  PROVE  Inv'
<1> DEFINE r == Home(p)
<1>1. Nobody \notin Resource /\ \A b \in Block : Home(b) \in Resource
  BY HomeType, LocalAssumption DEF Inv, Shape
<1>2. r \in Resource /\ holder[r] = Nobody
  BY <1>1 DEF Publish
<1> DEFINE d == IF SubList(p) = <<>> THEN Nothing ELSE Head(SubList(p))
           m == Range(SubList(p))
           t == [at |-> "send", block |-> p, number |-> published + 1, copy |-> 0,
                 dest |-> d, missing |-> m]
<1>3. thread' = [thread EXCEPT ![r] = t]
  BY DEF Publish
<1>4. Fields(t) /\ t.at = "send" /\ t.number \in Int /\ t.copy \in Int
  <2> HIDE DEF d, m
  <2> QED
    BY DEF Fields, Inv, Shape
<1> HIDE DEF t
<1>5. ThreadShape' /\ thread'[r].at = "send" /\ \A q \in Resource \ {r} : thread'[q] = thread[q]
  BY <1>2, <1>3, <1>4, ThreadStep DEF Inv, Shape
<1>6. holder' = [holder EXCEPT ![r] = r] /\ published' = published + 1
  BY DEF Publish
<1>7. UNCHANGED <<app, rd, seen, count, ext>>
  BY DEF Publish
<1>8. Shape'
  BY <1>2, <1>5, <1>6, <1>7 DEF Inv, Shape
<1>9. EventsAtHome' /\ ReceivesAtHome' /\ OwnLock'
  BY <1>2, <1>5, <1>6, <1>7 DEF Inv, Shape, EventsAtHome, ReceivesAtHome, OwnLock, Home, Walking
<1>10. \A b \in Block : /\ Home(b)' = Home(b)
                        /\ holder[Home(b)] # Nobody => holder'[Home(b)] = holder[Home(b)]
  BY <1>2, <1>6, <1>7, <1>1 DEF Inv, Shape, Home
<1>11. TargetLock' /\ HalfWritten'
  <2>1. TargetLock'
    BY <1>5, <1>10, <1>1 DEF Inv, TargetLock, Target, Steps
  <2>2. HalfWritten'
    BY <1>5, <1>7 DEF Inv, HalfWritten, At
  <2> QED
    BY <2>1, <2>2
<1>12. MixedIsLocked' /\ OnePublication'
  <2>1. \A s \in Block, q \in Resource : Writes(q, s) => q # r /\ Writes(q, s)'
    BY <1>2, <1>5, <1>10, <1>1 DEF Inv, OwnLock, Writes, Walking
  <2> QED
    BY <2>1, <1>7 DEF Inv, MixedIsLocked, OnePublication
<1> QED
  BY <1>8, <1>9, <1>11, <1>12 DEF Inv

(* A thread that goes on without touching locks, data or connections and   *)
(* begins and leaves no walk.                                              *)
LEMMA MoveInv ==
  ASSUME Inv, NEW r \in Resource, UNCHANGED <<app, holder, rd, seen>>,
         Shape', EventsAtHome', ReceivesAtHome',
         \A q \in Resource \ {r} : thread'[q] = thread[q],
         thread[r].at \in Steps => thread[r].dest \in Block,
         "half" \notin {thread[r].at, thread'[r].at}, "send" \notin {thread[r].at, thread'[r].at},
         thread'[r].at \in Steps => thread[r].at \in Steps /\ thread'[r].dest = thread[r].dest
  PROVE  Inv'
<1>1. Gone \notin Block
  BY LocalAssumption
<1>2. OwnLock' /\ TargetLock' /\ HalfWritten'
  BY DEF Inv, OwnLock, TargetLock, HalfWritten, Walking, At, Steps, Target, Home
<1>3. \A s \in Block, q \in Resource : Writes(q, s) => Writes(q, s)'
  BY <1>1 DEF Writes, Walking, Home, Steps
<1>4. MixedIsLocked' /\ OnePublication'
  BY <1>3 DEF Inv, MixedIsLocked, OnePublication
<1> QED
  BY <1>2, <1>4 DEF Inv

LEMMA InterruptInv ==
  ASSUME Inv, NEW r \in Resource, InterruptCommFB(r)
  PROVE  Inv'
<1> DEFINE s == thread[r].dest
           c == count[s]
           t == [thread[r] EXCEPT !.at = "count", !.copy = c]
<1>1. /\ s \in Block /\ thread[r].at = "interrupt"
      /\ UNCHANGED <<app, holder, rd, seen, count, ext, published>>
  BY DEF InterruptCommFB, Walk, At
<1>2. /\ ThreadShape' /\ \A q \in Resource \ {r} : thread'[q] = thread[q]
      /\ thread'[r].at \in {"count", "event"} /\ thread'[r].dest = s
  <2>1. CASE Goes(r, "event")
    BY <2>1, GoesStep DEF Inv, Shape
  <2>2. CASE thread' = [thread EXCEPT ![r].at = "count", ![r].copy = count[s]]
    <3>0. Fields(thread[r]) /\ thread[r].number \in Int /\ c \in Int
      BY <1>1 DEF Inv, Shape, ThreadShape
    <3>1. Fields(t) /\ t.at = "count" /\ t.dest = s /\ t.number \in Int /\ t.copy \in Int
      <4> HIDE DEF c
      <4> QED
        BY <3>0 DEF Fields
    <3>2. thread' = [thread EXCEPT ![r] = t]
      BY <2>2
    <3> HIDE DEF t
    <3> QED
      BY <3>1, <3>2, ThreadStep DEF Inv, Shape
  <2> QED
    BY <2>1, <2>2 DEF InterruptCommFB
<1>3. Shape'
  BY <1>1, <1>2 DEF Inv, Shape
<1>4. EventsAtHome' /\ ReceivesAtHome'
  BY <1>1, <1>2 DEF Inv, EventsAtHome, ReceivesAtHome, Home
<1> QED
  BY <1>1, <1>2, <1>3, <1>4, MoveInv DEF Steps

LEMMA AddInterruptInv ==
  ASSUME Inv, NEW r \in Resource, AddInterrupt(r)
  PROVE  Inv'
<1>1. /\ thread[r].dest \in Block /\ thread[r].at = "count" /\ Goes(r, "event")
      /\ UNCHANGED <<app, holder, rd, seen, ext, published>>
  BY DEF AddInterrupt, Walk, At
<1>2. /\ ThreadShape' /\ \A q \in Resource \ {r} : thread'[q] = thread[q]
      /\ thread'[r].at = "event" /\ thread'[r].dest = thread[r].dest
  BY <1>1, GoesStep DEF Inv, Shape
<1>3. count' \in [Block -> Int]
  <2>1. PICK old \in {thread[r].copy, count[thread[r].dest]} :
             count' = [count EXCEPT ![thread[r].dest] = old + 1]
    BY DEF AddInterrupt
  <2>2. old \in Int
    BY <1>1, <2>1 DEF Inv, Shape, ThreadShape
  <2>3. count \in [Block -> Int]
    BY DEF Inv, Shape
  <2> QED
    BY <1>1, <2>1, <2>2, <2>3
<1>4. Shape'
  BY <1>1, <1>2, <1>3 DEF Inv, Shape
<1>5. EventsAtHome' /\ ReceivesAtHome'
  BY <1>1, <1>2 DEF Inv, EventsAtHome, ReceivesAtHome, Home
<1> QED
  BY <1>1, <1>2, <1>4, <1>5, MoveInv DEF Steps

(* A walk that takes its subscriber's lock finds it free.                  *)
LEMMA LockTargetInv ==
  ASSUME Inv, NEW r \in Resource, LockTarget(r)
  PROVE  Inv'
<1> DEFINE q == Target(r)
<1>1. /\ thread[r].dest \in Block /\ thread[r].at = "send" /\ Goes(r, "write")
      /\ holder' = [holder EXCEPT ![q] = r]
      /\ UNCHANGED <<app, rd, seen, count, ext, published>>
  BY DEF LockTarget, Walk, At
<1>2. /\ ThreadShape' /\ \A u \in Resource \ {r} : thread'[u] = thread[u]
      /\ thread'[r].at = "write" /\ thread'[r].dest = thread[r].dest
  BY <1>1, GoesStep DEF Inv, Shape
<1>3. Nobody \notin Resource /\ Gone \notin Block /\ \A b \in Block : Home(b) \in Resource
  BY HomeType, LocalAssumption DEF Inv, Shape
<1>4. q \in Resource /\ holder[q] \in {Nobody, r} /\ holder'[q] = r
  BY <1>1, <1>3 DEF LockTarget, Inv, Shape, OwnLock, Walking, Target
<1>5. \A u \in Resource : holder[u] # Nobody => holder'[u] = holder[u]
  BY <1>1, <1>4 DEF Inv, Shape
<1>6. Shape' /\ EventsAtHome' /\ ReceivesAtHome'
  BY <1>1, <1>2, <1>4 DEF Inv, Shape, EventsAtHome, ReceivesAtHome, Home
<1>7. OwnLock'
  BY <1>1, <1>2, <1>3, <1>5 DEF Inv, OwnLock, Walking
<1>8. TargetLock' /\ HalfWritten'
  <2>1. \A b \in Block : Home(b)' = Home(b)
    BY <1>1 DEF Home
  <2>2. TargetLock'
    BY <1>2, <1>3, <1>4, <1>5, <2>1 DEF Inv, TargetLock, Target, Steps
  <2>3. HalfWritten'
    BY <1>1, <1>2 DEF Inv, HalfWritten, At
  <2> QED
    BY <2>2, <2>3
<1>9. MixedIsLocked' /\ OnePublication'
  <2>1. \A s \in Block, u \in Resource : Writes(u, s) => Writes(u, s)'
    BY <1>1, <1>2, <1>3, <1>5 DEF Writes, Walking, Home
  <2> QED
    BY <1>1, <2>1 DEF Inv, MixedIsLocked, OnePublication
<1> QED
  BY <1>6, <1>7, <1>8, <1>9 DEF Inv

(* Nobody else writes the data of a subscriber that a walk is at.          *)
LEMMA WriteAlone ==
  ASSUME Inv, NEW r \in Resource, NEW u \in Resource \ {r},
         thread[r].at \in Steps, thread[r].dest \in Block, thread[u].at \in Steps
  PROVE  thread[u].dest # thread[r].dest
BY DEF Inv, TargetLock, Target

LEMMA SetFirstInv ==
  ASSUME Inv, NEW r \in Resource, SetFirst(r)
  PROVE  Inv'
<1> DEFINE s == thread[r].dest
<1>1. /\ s \in Block /\ thread[r].at = "write" /\ Goes(r, "half")
      /\ rd' = [rd EXCEPT ![s][1] = thread[r].number]
      /\ UNCHANGED <<app, holder, seen, count, ext, published>>
  BY DEF SetFirst, WriteData, Walk, At
<1>2. /\ ThreadShape' /\ \A u \in Resource \ {r} : thread'[u] = thread[u]
      /\ thread'[r].at = "half" /\ thread'[r].dest = s /\ thread'[r].number = thread[r].number
  BY <1>1, GoesStep DEF Inv, Shape
<1>3. /\ rd' \in [Block -> [1 .. 2 -> Int]] /\ rd'[s][1] = thread[r].number
      /\ \A b \in Block \ {s} : rd'[b] = rd[b]
  <2>1. thread[r].number \in Int /\ rd \in [Block -> [1 .. 2 -> Int]]
    BY DEF Inv, Shape, ThreadShape
  <2> QED
    BY <1>1, <2>1
<1>4. Gone \notin Block
  BY LocalAssumption
<1>5. Shape' /\ EventsAtHome' /\ ReceivesAtHome' /\ OwnLock'
  <2>1. Shape'
    BY <1>1, <1>2, <1>3 DEF Inv, Shape
  <2>2. EventsAtHome' /\ ReceivesAtHome' /\ OwnLock'
    BY <1>1, <1>2 DEF Inv, EventsAtHome, ReceivesAtHome, OwnLock, Home, Walking
  <2> QED
    BY <2>1, <2>2
<1>6. TargetLock'
  BY <1>1, <1>2 DEF Inv, TargetLock, Target, Home, Steps
<1>7. HalfWritten'
  <2>1. \A u \in Resource \ {r} : At(u, "half") => thread[u].dest # s
    BY <1>1, WriteAlone DEF At, Steps
  <2> QED
    BY <1>1, <1>2, <1>3, <2>1 DEF Inv, HalfWritten, At
<1>8. MixedIsLocked' /\ OnePublication'
  <2>1. \A b \in {s} : Writes(r, b)'
    BY <1>1, <1>2 DEF Inv, TargetLock, Target, Writes, Walking, Steps, Home
  <2>2. \A b \in Block \ {s}, u \in Resource : Writes(u, b) => Writes(u, b)'
    BY <1>1, <1>2, <1>4 DEF Writes, Walking, Home
  <2>3. MixedIsLocked'
    <3> SUFFICES ASSUME NEW b \in Block, rd'[b][1] # rd'[b][2]
                 PROVE  \E u \in Resource : Writes(u, b)'
      BY DEF MixedIsLocked
    <3>1. CASE b = s
      BY <3>1, <2>1
    <3>2. CASE b # s
      BY <3>2, <1>3, <2>2 DEF Inv, MixedIsLocked
    <3> QED
      BY <3>1, <3>2
  <2> QED
    BY <1>1, <2>3 DEF Inv, OnePublication
<1> QED
  BY <1>5, <1>6, <1>7, <1>8 DEF Inv

LEMMA SetSecondInv ==
  ASSUME Inv, NEW r \in Resource, SetSecond(r)
  PROVE  Inv'
<1> DEFINE s == thread[r].dest
<1>1. /\ s \in Block /\ thread[r].at = "half" /\ Goes(r, "interrupt")
      /\ rd' = [rd EXCEPT ![s][2] = thread[r].number]
      /\ UNCHANGED <<app, holder, seen, count, ext, published>>
  BY DEF SetSecond, WriteData, Walk, At
<1>2. /\ ThreadShape' /\ \A u \in Resource \ {r} : thread'[u] = thread[u]
      /\ thread'[r].at = "interrupt" /\ thread'[r].dest = s
  BY <1>1, GoesStep DEF Inv, Shape
<1>3. /\ rd' \in [Block -> [1 .. 2 -> Int]] /\ rd'[s][1] = rd'[s][2]
      /\ \A b \in Block \ {s} : rd'[b] = rd[b]
  <2>1. thread[r].number \in Int /\ rd \in [Block -> [1 .. 2 -> Int]]
    BY DEF Inv, Shape, ThreadShape
  <2>2. rd[s][1] = thread[r].number
    BY <1>1 DEF Inv, HalfWritten, At
  <2> QED
    BY <1>1, <2>1, <2>2
<1>4. Gone \notin Block
  BY LocalAssumption
<1>5. Shape' /\ EventsAtHome' /\ ReceivesAtHome' /\ OwnLock'
  <2>1. Shape'
    BY <1>1, <1>2, <1>3 DEF Inv, Shape
  <2>2. EventsAtHome' /\ ReceivesAtHome' /\ OwnLock'
    BY <1>1, <1>2 DEF Inv, EventsAtHome, ReceivesAtHome, OwnLock, Home, Walking
  <2> QED
    BY <2>1, <2>2
<1>6. TargetLock'
  BY <1>1, <1>2 DEF Inv, TargetLock, Target, Home, Steps
<1>7. HalfWritten'
  <2>1. \A u \in Resource \ {r} : At(u, "half") => thread[u].dest # s
    BY <1>1, WriteAlone DEF At, Steps
  <2> QED
    BY <1>1, <1>2, <1>3, <2>1 DEF Inv, HalfWritten, At
<1>8. MixedIsLocked' /\ OnePublication'
  <2>1. \A b \in Block \ {s}, u \in Resource : Writes(u, b) => Writes(u, b)'
    BY <1>1, <1>2, <1>4 DEF Writes, Walking, Home
  <2> QED
    BY <1>1, <1>3, <2>1 DEF Inv, MixedIsLocked, OnePublication
<1> QED
  BY <1>5, <1>6, <1>7, <1>8 DEF Inv

(* A walk that goes to its next subscriber gives up that one's lock only.  *)
LEMMA StartNewEventChainInv ==
  ASSUME Inv, NEW r \in Resource, StartNewEventChain(r)
  PROVE  Inv'
<1> DEFINE s == thread[r].dest
           q == Target(r)
           m == thread[r].missing \ {s}
           d == NextSub(thread[r].block, s)
           t == [at |-> "send", block |-> thread[r].block, number |-> thread[r].number, copy |-> 0,
                 dest |-> d, missing |-> m]
<1>1. /\ s \in Block /\ thread[r].at = "event" /\ thread' = [thread EXCEPT ![r] = t]
      /\ holder' = [holder EXCEPT ![q] = IF q = r THEN holder[q] ELSE Nobody]
      /\ UNCHANGED <<app, rd, seen, count, published>>
  <2>1. thread' = [thread EXCEPT ![r] = t]
    BY DEF StartNewEventChain, ToNextSub
  <2>2. holder' = [holder EXCEPT ![q] = IF q = r THEN holder[q] ELSE Nobody]
    BY DEF StartNewEventChain
  <2> HIDE DEF t
  <2> QED
    BY <2>1, <2>2 DEF StartNewEventChain, Walk, At
<1>2. ThreadShape' /\ thread'[r].at = "send" /\ \A u \in Resource \ {r} : thread'[u] = thread[u]
  <2>1. Fields(t) /\ t.at = "send" /\ t.number \in Int /\ t.copy \in Int
    <3>1. Fields(thread[r]) /\ thread[r].number \in Int
      BY DEF Inv, Shape, ThreadShape
    <3> HIDE DEF m, d
    <3> QED
      BY <3>1 DEF Fields
  <2> HIDE DEF t
  <2> QED
    BY <1>1, <2>1, ThreadStep DEF Inv, Shape
<1>3. Nobody \notin Resource /\ Gone \notin Block /\ \A b \in Block : Home(b) \in Resource
  BY HomeType, LocalAssumption DEF Inv, Shape
<1>4. q \in Resource /\ holder[q] = r /\ holder \in [Resource -> Resource \cup {Nobody}]
  BY <1>1, <1>3 DEF Inv, Shape, TargetLock, Target, Steps
<1>5. \A u \in Resource, v \in Resource : holder[v] = u /\ (u # r \/ v = r) => holder'[v] = u
  BY <1>1, <1>4
<1>6. ext' \in [Resource -> Seq(Block)] /\ EventsAtHome'
  <2>1. q = Home(s) /\ ext \in [Resource -> Seq(Block)]
    BY DEF Target, Inv, Shape
  <2>2. CASE ext' = [ext EXCEPT ![q] = Append(@, s)]
    <3>1. /\ ext' \in [Resource -> Seq(Block)] /\ \A u \in Resource \ {q} : ext'[u] = ext[u]
          /\ Len(ext'[q]) = Len(ext[q]) + 1 /\ ext'[q][Len(ext[q]) + 1] = s
          /\ \A i \in 1 .. Len(ext[q]) : ext'[q][i] = ext[q][i]
      BY <1>1, <1>4, <2>1, <2>2
    <3>2. \A u \in Resource : \A i \in 1 .. Len(ext[u]) : Home(ext[u][i]) = u
      BY DEF Inv, EventsAtHome
    <3>3. \A i \in 1 .. Len(ext'[q]) : Home(ext'[q][i]) = q
      <4> SUFFICES ASSUME NEW i \in 1 .. Len(ext'[q]) PROVE Home(ext'[q][i]) = q
        OBVIOUS
      <4>1. Len(ext[q]) \in Nat
        BY <1>4, <2>1
      <4>2. i \in 1 .. Len(ext[q]) \/ i = Len(ext[q]) + 1
        BY <3>1, <4>1
      <4> QED
        BY <1>4, <2>1, <3>1, <3>2, <4>2
    <3>4. \A u \in Resource : \A i \in 1 .. Len(ext'[u]) : Home(ext'[u][i]) = u
      BY <3>1, <3>2, <3>3
    <3> QED
      BY <1>1, <3>1, <3>4 DEF EventsAtHome, Home
  <2>3. CASE UNCHANGED ext
    BY <1>1, <2>1, <2>3 DEF Inv, EventsAtHome, Home
  <2> QED
    BY <2>2, <2>3 DEF StartNewEventChain
<1>7. Shape'
  <2>1. holder' \in [Resource -> Resource \cup {Nobody}]
    BY <1>1, <1>4
  <2> QED
    BY <1>1, <1>2, <1>6, <2>1 DEF Inv, Shape
<1>8. ReceivesAtHome' /\ OwnLock'
  BY <1>1, <1>2, <1>5 DEF Inv, ReceivesAtHome, OwnLock, Home, Walking
<1>9. TargetLock' /\ HalfWritten'
  <2>1. TargetLock'
    <3>1. \A u \in Resource \ {r} : thread'[u].at \in Steps /\ thread'[u].dest \in Block
                                    => holder[Home(thread[u].dest)] = u
      BY <1>2 DEF Inv, TargetLock, Target
    <3>2. thread'[r].at \notin Steps
      BY <1>2 DEF Steps
    <3>3. \A u \in Resource \ {r} : thread'[u].at \in Steps /\ thread'[u].dest \in Block
                                    => holder'[Home(thread[u].dest)] = u
      BY <1>2, <1>3, <1>5, <3>1
    <3>4. UNCHANGED app
      BY <1>1
    <3> QED
      BY <1>2, <3>2, <3>3, <3>4 DEF TargetLock, Target, Home
  <2>2. HalfWritten'
    BY <1>1, <1>2 DEF Inv, HalfWritten, At
  <2> QED
    BY <2>1, <2>2
<1>10. MixedIsLocked' /\ OnePublication'
  <2>1. \A b \in Block, u \in Resource : Writes(u, b) => Writes(u, b)'
    BY <1>1, <1>2, <1>3, <1>5 DEF Writes, Walking, Home
  <2> QED
    BY <1>1, <2>1 DEF Inv, MixedIsLocked, OnePublication
<1> QED
  BY <1>6, <1>7, <1>8, <1>9, <1>10 DEF Inv

LEMMA SendDoneInv ==
  ASSUME Inv, NEW r \in Resource, SendDone(r)
  PROVE  Inv'
<1>1. /\ thread[r].dest = Nothing /\ thread[r].at = "send" /\ thread' = [thread EXCEPT ![r] = Idle]
      /\ holder' = [holder EXCEPT ![r] = Nobody]
      /\ UNCHANGED <<app, rd, seen, count, ext, published>>
  BY DEF SendDone, Walk
<1>2. ThreadShape' /\ thread'[r].at = "idle" /\ \A u \in Resource \ {r} : thread'[u] = thread[u]
  <2>1. Fields(Idle) /\ Idle.at = "idle" /\ Idle.number \in Int /\ Idle.copy \in Int
    BY DEF Fields, Idle
  <2> QED
    BY <1>1, <2>1, ThreadStep DEF Inv, Shape
<1>3. /\ Nobody \notin Resource /\ Gone # Nothing
      /\ \A b \in Block : Home(b) \in Resource
  BY HomeType, LocalAssumption DEF Inv, Shape
<1>4. holder[r] = r /\ holder \in [Resource -> Resource \cup {Nobody}]
  BY <1>1 DEF Inv, Shape, OwnLock, Walking
<1>5. \A u \in Resource \ {r}, v \in Resource : holder[v] = u => holder'[v] = u
  BY <1>1, <1>4
<1>6. Shape' /\ EventsAtHome' /\ ReceivesAtHome'
  <2>1. holder' \in [Resource -> Resource \cup {Nobody}]
    BY <1>1, <1>4
  <2>2. Shape'
    BY <1>1, <1>2, <2>1 DEF Inv, Shape
  <2> QED
    BY <1>1, <1>2, <2>2 DEF Inv, EventsAtHome, ReceivesAtHome, Home
<1>7. OwnLock' /\ TargetLock' /\ HalfWritten'
  <2>1. OwnLock' /\ TargetLock'
    BY <1>1, <1>2, <1>3, <1>5 DEF Inv, OwnLock, TargetLock, Target, Steps, Home, Walking
  <2>2. HalfWritten'
    BY <1>1, <1>2 DEF Inv, HalfWritten, At
  <2> QED
    BY <2>1, <2>2
<1>8. MixedIsLocked' /\ OnePublication'
  <2>1. \A b \in Block, u \in Resource : Writes(u, b) => Writes(u, b)'
    BY <1>1, <1>2, <1>3, <1>5 DEF Writes, Walking, Home
  <2> QED
    BY <1>1, <2>1 DEF Inv, MixedIsLocked, OnePublication
<1> QED
  BY <1>6, <1>7, <1>8 DEF Inv

(* An event is taken by its block's own resource.                          *)
LEMMA BeginExternalEventInv ==
  ASSUME Inv, NEW r \in Resource, BeginExternalEvent(r)
  PROVE  Inv'
<1> DEFINE s == Head(ext[r])
           c == count[s]
           t == [at |-> "receive", block |-> s, dest |-> Nothing, number |-> 0, copy |-> c,
                 missing |-> {}]
<1>1. /\ thread[r].at = "idle" /\ ext[r] # <<>> /\ ext' = [ext EXCEPT ![r] = Tail(ext[r])]
      /\ UNCHANGED <<app, holder, rd, seen, count, published>>
      /\ UNCHANGED thread \/ thread' = [thread EXCEPT ![r] = t]
  BY DEF BeginExternalEvent, Receive
<1>2. ext[r] \in Seq(Block) /\ s \in Block /\ Home(s) = r /\ c \in Int
  <2>1. ext[r] \in Seq(Block)
    BY DEF Inv, Shape
  <2>2. s = ext[r][1] /\ 1 \in 1 .. Len(ext[r]) /\ s \in Block
    BY <1>1, <2>1
  <2> QED
    BY <2>1, <2>2 DEF Inv, Shape, EventsAtHome
<1>3. ThreadShape' /\ \A u \in Resource \ {r} : thread'[u] = thread[u]
  <2>1. Fields(t) /\ t.number \in Int /\ t.copy \in Int
    <3>1. c \in Int
      BY <1>2
    <3> HIDE DEF s, c
    <3> QED
      BY <3>1 DEF Fields
  <2>2. CASE UNCHANGED thread
    BY <2>2 DEF Inv, Shape, ThreadShape, Fields
  <2>3. CASE thread' = [thread EXCEPT ![r] = t]
    <3> HIDE DEF t
    <3> QED
      BY <2>1, <2>3, ThreadStep DEF Inv, Shape
  <2> QED
    BY <1>1, <2>2, <2>3
<1>4. \/ thread'[r].at = "idle"
      \/ thread'[r].at = "receive" /\ thread'[r].block = s
  <2>1. CASE UNCHANGED thread
    BY <1>1, <2>1
  <2>2. CASE thread' = [thread EXCEPT ![r] = t]
    <3>1. thread'[r] = t
      BY <2>2 DEF Inv, Shape, ThreadShape
    <3> QED
      BY <3>1
  <2> QED
    BY <1>1, <2>1, <2>2
<1>5. ext' \in [Resource -> Seq(Block)] /\ EventsAtHome'
  <2>1. Tail(ext[r]) \in Seq(Block) /\ ext \in [Resource -> Seq(Block)]
    BY <1>1, <1>2 DEF Inv, Shape
  <2>2. \A i \in 1 .. Len(Tail(ext[r])) :
          i + 1 \in 1 .. Len(ext[r]) /\ Tail(ext[r])[i] = ext[r][i + 1]
    BY <1>1, <1>2
  <2> QED
    BY <1>1, <2>1, <2>2 DEF Inv, EventsAtHome, Home
<1>6. Shape'
  BY <1>1, <1>3, <1>5 DEF Inv, Shape
<1>7. ReceivesAtHome'
  <2>1. app' = app
    BY <1>1
  <2>2. \A u \in Resource : thread'[u].at \in {"receive", "store", "indicate"}
          => thread'[u].block \in Block /\ Home(thread'[u].block) = u
    <3> HIDE DEF s
    <3> QED
      BY <1>2, <1>3, <1>4 DEF Inv, ReceivesAtHome
  <2> QED
    BY <2>1, <2>2 DEF ReceivesAtHome, Home
<1> HIDE DEF s
<1> QED
  BY <1>1, <1>3, <1>4, <1>5, <1>6, <1>7, MoveInv DEF Steps

LEMMA CountInv ==
  ASSUME Inv, NEW r \in Resource, LoadCount(r) \/ StoreCount(r)
  PROVE  Inv'
<1> DEFINE s == thread[r].block
           c == count[s]
           t == [thread[r] EXCEPT !.at = "store", !.number = c]
<1>1. /\ thread[r].at \in {"receive", "store"} /\ s \in Block /\ Home(s) = r
      /\ UNCHANGED <<app, holder, rd, seen, ext, published>>
  BY DEF LoadCount, StoreCount, Receive, Inv, ReceivesAtHome
<1>2. /\ ThreadShape' /\ \A u \in Resource \ {r} : thread'[u] = thread[u]
      /\ thread'[r].at \in {"store", "indicate"} /\ thread'[r].block = s
  <2>1. CASE StoreCount(r)
    BY <2>1, GoesStep DEF StoreCount, Inv, Shape
  <2>2. CASE LoadCount(r)
    <3>1. Fields(thread[r]) /\ c \in Int /\ thread[r].copy \in Int
      BY <1>1 DEF Inv, Shape, ThreadShape
    <3>2. Fields(t) /\ t.at = "store" /\ t.block = s /\ t.number \in Int /\ t.copy \in Int
      <4> HIDE DEF c
      <4> QED
        BY <3>1 DEF Fields
    <3>3. thread' = [thread EXCEPT ![r] = t]
      BY <2>2 DEF LoadCount
    <3> HIDE DEF t
    <3> QED
      BY <3>2, <3>3, ThreadStep DEF Inv, Shape
  <2> QED
    BY <2>1, <2>2
<1>3. count' \in [Block -> Int]
  <2>1. thread[r].number \in Int /\ thread[r].copy \in Int /\ count \in [Block -> Int]
    BY DEF Inv, Shape, ThreadShape
  <2>2. CASE LoadCount(r)
    BY <2>1, <2>2 DEF LoadCount
  <2>3. CASE StoreCount(r)
    BY <1>1, <2>1, <2>3 DEF StoreCount
  <2> QED
    BY <2>2, <2>3
<1>4. Shape'
  BY <1>1, <1>2, <1>3 DEF Inv, Shape
<1>5. EventsAtHome'
  BY <1>1 DEF Inv, EventsAtHome, Home
<1>6. ReceivesAtHome'
  <2> HIDE DEF s
  <2> QED
    BY <1>1, <1>2 DEF Inv, ReceivesAtHome, Home
<1> QED
  BY <1>1, <1>2, <1>4, <1>5, <1>6, MoveInv DEF Steps

(* While its resource's lock is free a subscriber's data is of one         *)
(* publication.                                                            *)
LEMMA IndicateInv ==
  ASSUME Inv, NEW r \in Resource, Indicate(r)
  PROVE  Inv'
<1> DEFINE s == thread[r].block
<1>1. /\ thread[r].at = "indicate" /\ s \in Block /\ Home(s) = r /\ holder[r] = Nobody
      /\ thread' = [thread EXCEPT ![r] = Idle] /\ seen' = [seen EXCEPT ![s] = rd[s]]
      /\ UNCHANGED <<app, holder, rd, count, ext, published>>
  BY DEF Indicate, Receive, Inv, ReceivesAtHome
<1>2. ThreadShape' /\ thread'[r].at = "idle" /\ \A u \in Resource \ {r} : thread'[u] = thread[u]
  <2>1. Fields(Idle) /\ Idle.at = "idle" /\ Idle.number \in Int /\ Idle.copy \in Int
    BY DEF Fields, Idle
  <2> QED
    BY <1>1, <2>1, ThreadStep DEF Inv, Shape
<1>3. rd[s][1] = rd[s][2]
  BY <1>1, LocalAssumption DEF Inv, MixedIsLocked, Writes
<1>4. seen' \in [Block -> [1 .. 2 -> Int]] /\ OnePublication'
  BY <1>1, <1>3 DEF Inv, Shape, OnePublication
<1>5. Shape' /\ EventsAtHome' /\ ReceivesAtHome'
  BY <1>1, <1>2, <1>4 DEF Inv, Shape, EventsAtHome, ReceivesAtHome, Home
<1>6. OwnLock' /\ TargetLock' /\ HalfWritten'
  BY <1>1, <1>2 DEF Inv, OwnLock, TargetLock, HalfWritten, Target, At, Steps, Home, Walking
<1>7. MixedIsLocked'
  <2>1. \A b \in Block, u \in Resource : Writes(u, b) => Writes(u, b)'
    BY <1>1, <1>2 DEF Writes, Walking, Home
  <2> QED
    BY <1>1, <2>1 DEF Inv, MixedIsLocked
<1> QED
  BY <1>4, <1>5, <1>6, <1>7 DEF Inv

-----------------------------------------------------------------------------

(* Every step of a resource's thread, of the application and of the        *)
(* management keeps the invariant.                                         *)
LEMMA NextInv == Inv /\ [Next]_vars => Inv'
<1> SUFFICES ASSUME Inv, [Next]_vars PROVE Inv'
  OBVIOUS
<1>1. ASSUME NEW r \in Resource, EventChain(r) PROVE Inv'
  <2>1. CASE WalkUsesDeleted(r) \/ UsesDeletedLayer(r)
    BY <2>1, ElsewhereInv DEF WalkUsesDeleted, UsesDeletedLayer, Undefined
  <2> QED
    BY <1>1, <2>1, LockTargetInv, SetFirstInv, SetSecondInv, InterruptInv, AddInterruptInv,
       StartNewEventChainInv, SendDoneInv, BeginExternalEventInv, CountInv, IndicateInv
       DEF EventChain
<1>2. ASSUME NEW b \in Block, Application(b) PROVE Inv'
  <2>1. CASE OpenConnection(b)
    BY <2>1, ElsewhereInv DEF OpenConnection, Executes
  <2>2. CASE InitCloses(b)
    BY <2>2, CloseInv DEF InitCloses, Executes
  <2>3. CASE Publish(b)
    BY <2>3, PublishInv
  <2> QED
    BY <1>2, <2>1, <2>2, <2>3 DEF Application
<1>3. ASSUME NEW b \in Block, Management(b) PROVE Inv'
  <2>1. CASE CommandKill(b)
    BY <2>1, CloseInv DEF CommandKill, Command
  <2>2. CASE CommandStop(b) \/ CommandReset(b) \/ CommandStart(b)
    BY <2>2, ElsewhereInv DEF CommandStop, CommandReset, CommandStart, Command, StaysOpen
  <2> QED
    BY <1>3, <2>1, <2>2 DEF Management
<1>4. CASE UNCHANGED vars
  BY <1>4, ElsewhereInv DEF vars
<1> QED
  BY <1>1, <1>2, <1>3, <1>4 DEF Next

(* A thread sends under its own resource's lock, and writes to, interrupts *)
(* and starts a subscriber under the lock of that one's resource: setRDs() *)
(* takes it before and gives it back after.                                *)
THEOREM LocksTheorem == Spec => [](OwnLock /\ TargetLock)
<1>1. Inv => OwnLock /\ TargetLock
  BY DEF Inv
<1> QED
  BY InitInv, NextInv, <1>1, PTL DEF Spec

(* What a subscriber's connections receive is of one publication: setRDs() *)
(* and IND work under the lock of the subscriber's resource, which a walk  *)
(* that is cut off half way, at a deleted entry, never gives back.         *)
THEOREM OnePublicationTheorem == Spec => []OnePublication
<1>1. Inv => OnePublication
  BY DEF Inv
<1> QED
  BY InitInv, NextInv, <1>1, PTL DEF Spec
-----------------------------------------------------------------------------
(* The lists of subscribers, the walks along them and the counts of the    *)
(* interrupt queues.                                                       *)

(* Where a thread can be, and what its locals are there.                   *)
Placed(r) ==
  LET t == thread[r] IN
  /\ t.at \in {"idle", "send", "receive", "store", "indicate"} \cup Steps
  /\ t.dest \in Block \cup {Nothing, Gone}
  /\ t.at \in Steps => t.dest # Nothing
  /\ ~Walking(t) => t.dest = Nothing
  /\ Walking(t) => t.block \in app.publishers /\ t.number \in 1 .. published
  /\ t.at = "idle" => t.block = Nothing

Places == \A r \in Resource : Placed(r)

(* A block is in its group's list at most once, while it is registered.    *)
Members ==
  \A g \in Group :
    /\ subs[g] \in Seq(app.subscribers \cap open)
    /\ IsInjective(subs[g])

Bounds ==
  /\ open \subseteq app.publishers \cup app.subscribers
  /\ fbState \in [Block -> {"RUNNING", "STOPPED", "KILLED", "IDLE"}]
  /\ rd \in [Block -> [1 .. 2 -> 0 .. MaxPublished]]
  /\ seen \in [Block -> [1 .. 2 -> 0 .. MaxPublished]]
  /\ dead \subseteq Block /\ published \in 0 .. MaxPublished
  /\ \A r \in Resource : Len(ext[r]) <= ExternalLimit
  /\ faults \subseteq {"lost", "raced", "undefined"}

(* The members that a walk has still to serve are at its place in the list *)
(* or behind it.                                                           *)
AheadAt(r) ==
  LET t == thread[r] list == SubList(t.block) IN
  Walking(t) =>
    /\ t.dest = Nothing => t.missing = {}
    /\ t.dest \in Block =>
         \E j \in 1 .. Len(list) :
           list[j] = t.dest /\ \A m \in t.missing : \E k \in j .. Len(list) : list[k] = m

Ahead == \A r \in Resource : AheadAt(r)

(* A publisher that is about to count has found room, and the count has    *)
(* not grown since; a subscriber takes off at most what has been counted.  *)
CountsAt(r) ==
  LET t == thread[r] IN
  /\ At(r, "count") => t.copy < QueueSize /\ count[t.dest] <= t.copy
  /\ t.at = "receive" => 1 <= t.copy /\ t.copy <= count[t.block]
  /\ t.at = "store" => /\ 1 <= t.copy /\ t.copy <= t.number /\ t.number <= QueueSize
                       /\ t.number - t.copy <= count[t.block]

Counts == count \in [Block -> 0 .. QueueSize] /\ \A r \in Resource : CountsAt(r)

(* When a subscriber's event is put in, it finds an interrupt, or its data *)
(* is about to be handed over anyway.                                      *)
IndicatesNext(s) == thread[Home(s)].at = "indicate" /\ thread[Home(s)].block = s

CountedAt(r) ==
  LET s == thread[r].dest IN
  At(r, "event") => faults # {} \/ count[s] > 0 \/ IndicatesNext(s)

Counted == \A r \in Resource : CountedAt(r)

(* What a subscriber's connections do not have yet is announced: by an     *)
(* event with an interrupt, by the execution of one, or by a walk.         *)
Announces(r, s) == \/ thread[r].dest = s /\ thread[r].at # "send"
                   \/ thread[r].dest = Gone

Announced(s) ==
  \/ faults # {} \/ (s \in Range(ext[Home(s)]) /\ count[s] > 0) \/ thread[Home(s)].block = s
  \/ \E r \in Resource : Announces(r, s)

Informed == \A s \in app.subscribers : Announced(s) \/ seen[s] = rd[s]

QueueInv == Inv /\ Places /\ Members /\ Bounds /\ Ahead /\ Counts /\ Counted /\ Informed

-----------------------------------------------------------------------------

(* A nonempty set of natural numbers has a least one.                      *)
LEMMA LeastNumber ==
  ASSUME NEW T \in SUBSET Nat, T # {}
  PROVE  \E n \in T : \A m \in T : n <= m
<1>1. IsWellFoundedOn({ss \in Nat \X Nat : ss[1] < ss[2]}, Nat)
  BY NatLessThanWellFounded DEF OpToRel
<1>2. PICK n \in T : \A m \in T : ~(<<m, n>> \in {ss \in Nat \X Nat : ss[1] < ss[2]})
  BY <1>1, WFMin
<1>3. ASSUME NEW m \in T PROVE n <= m
  <2>1. <<m, n>> \in Nat \X Nat /\ m \in Nat /\ n \in Nat
    OBVIOUS
  <2> QED
    BY <1>2, <2>1
<1> QED
  BY <1>3

(* What removeListEntry() leaves of a list that has the entry.             *)
LEMMA RemoveFirstDef ==
  ASSUME NEW S, NEW q \in Seq(S), NEW b, NEW k \in 1 .. Len(q), q[k] = b
  PROVE  \E i \in 1 .. Len(q) :
           /\ q[i] = b
           /\ RemoveFirst(q, b) = SubSeq(q, 1, i - 1) \o SubSeq(q, i + 1, Len(q))
<1> DEFINE I == {i \in 1 .. Len(q) : q[i] = b}
<1>1. k \in I /\ I \in SUBSET Nat
  OBVIOUS
<1>2. Min(I) \in I
  <2>1. \E n \in I : \A m \in I : n <= m
    BY <1>1, LeastNumber
  <2> HIDE DEF I
  <2> QED
    BY <2>1 DEF Min
<1>3. SelectInSeq(q, LAMBDA v : v = b) = Min(I)
  BY <1>1 DEF SelectInSeq
<1>4. RemoveFirst(q, b) = SubSeq(q, 1, Min(I) - 1) \o SubSeq(q, Min(I) + 1, Len(q))
  BY <1>3 DEF RemoveFirst, RemoveAt
<1> QED
  BY <1>2, <1>4


LEMMA RemoveFirstAbsent ==
  ASSUME NEW q, NEW b, \A k \in 1 .. Len(q) : q[k] # b
  PROVE  RemoveFirst(q, b) = q
BY DEF RemoveFirst

KeepsOrder(q, r, b) ==
  \A j \in 1 .. Len(q) : \A k \in j .. Len(q) :
    q[j] # b /\ q[k] # b
      => \E i \in 1 .. Len(r) : \E h \in i .. Len(r) : r[i] = q[j] /\ r[h] = q[k]

(* Unregistering keeps the other entries, and their order.                 *)
LEMMA RemoveFirstProperties ==
  ASSUME NEW S, NEW q \in Seq(S), NEW b, IsInjective(q)
  PROVE  /\ RemoveFirst(q, b) \in Seq(S \ {b}) /\ IsInjective(RemoveFirst(q, b))
         /\ KeepsOrder(q, RemoveFirst(q, b), b)
<1> DEFINE n == Len(q)
           r == RemoveFirst(q, b)
<1>0. n \in Nat /\ q = [i \in 1 .. n |-> q[i]] /\ DOMAIN q = 1 .. n /\ \A i \in 1 .. n : q[i] \in S
  OBVIOUS
<1>1. \A i \in 1 .. n : \A k \in 1 .. n : q[i] = q[k] => i = k
  BY <1>0 DEF IsInjective
<1>2. CASE \A k \in 1 .. n : q[k] # b
  <2>1. r = q
    BY <1>2, RemoveFirstAbsent
  <2>2. q \in Seq(S \ {b})
    BY <1>0, <1>2, IsASeq
  <2> HIDE DEF r
  <2>3. \A j \in 1 .. n : \A k \in j .. n : q[j] # b /\ q[k] # b
          => \E i \in 1 .. Len(r) : \E h \in i .. Len(r) : r[i] = q[j] /\ r[h] = q[k]
    BY <1>0, <2>1
  <2>4. r \in Seq(S \ {b}) /\ IsInjective(r)
    BY <2>1, <2>2
  <2>5. KeepsOrder(q, r, b)
    BY <2>3 DEF KeepsOrder, n
  <2> QED
    BY <2>4, <2>5 DEF r
<1>3. CASE \E k \in 1 .. n : q[k] = b
  <2>1. PICK i \in 1 .. n : q[i] = b /\ r = SubSeq(q, 1, i - 1) \o SubSeq(q, i + 1, n)
    BY <1>3, RemoveFirstDef
  <2> HIDE DEF r, n
  <2>2. /\ SubSeq(q, 1, i - 1) \in Seq(S) /\ Len(SubSeq(q, 1, i - 1)) = i - 1
        /\ \A x \in 1 .. i - 1 : SubSeq(q, 1, i - 1)[x] = q[x]
    BY <1>0, <2>1, SubSeqProperties DEF n
  <2>3. /\ SubSeq(q, i + 1, n) \in Seq(S) /\ Len(SubSeq(q, i + 1, n)) = n - i
        /\ \A x \in 1 .. n - i : SubSeq(q, i + 1, n)[x] = q[i + x]
    <3>1. i \in 1 .. n /\ n \in Nat
      BY <1>0
    <3>2. i + 1 \in 1 .. n + 1 /\ n \in i .. n /\ n - (i + 1) + 1 = n - i
      BY <3>1
    <3>3. CASE i = n
      <4>1. SubSeq(q, i + 1, n) = <<>>
        BY <3>1, <3>3 DEF n
      <4> QED
        BY <3>1, <3>3, <4>1
    <3>4. CASE i # n
      BY <3>1, <3>4 DEF n
    <3> QED
      BY <3>3, <3>4
  <2>4. /\ r \in Seq(S) /\ Len(r) = n - 1
        /\ \A x \in 1 .. i - 1 : r[x] = q[x]
        /\ \A x \in i .. n - 1 : r[x] = q[x + 1]
    <3>1. i \in 1 .. n /\ n \in Nat
      BY <1>0
    <3>2. r \in Seq(S) /\ Len(r) = n - 1
      BY <2>1, <2>2, <2>3, <3>1
    <3>3. ASSUME NEW x \in 1 .. i - 1 PROVE r[x] = q[x]
      BY <2>1, <2>2, <2>3, <3>1
    <3>4. ASSUME NEW x \in i .. n - 1 PROVE r[x] = q[x + 1]
      <4>1. x - (i - 1) \in 1 .. n - i /\ x \in 1 .. (i - 1) + (n - i) /\ ~(x <= i - 1)
        BY <3>1
      <4>2. r[x] = SubSeq(q, i + 1, n)[x - (i - 1)]
        BY <2>1, <2>2, <2>3, <3>1, <4>1
      <4>3. i + (x - (i - 1)) = x + 1
        BY <3>1
      <4> QED
        BY <2>3, <4>1, <4>2, <4>3
    <3> QED
      BY <3>2, <3>3, <3>4
  <2>5. \A x \in 1 .. n - 1 : \E y \in 1 .. n \ {i} : r[x] = q[y] /\ y \in {x, x + 1} /\ (y = x <=> x < i)
    <3> SUFFICES ASSUME NEW x \in 1 .. n - 1
                 PROVE  \E y \in 1 .. n \ {i} : r[x] = q[y] /\ y \in {x, x + 1} /\ (y = x <=> x < i)
      OBVIOUS
    <3>1. CASE x < i
      <4>1. x \in 1 .. i - 1 /\ x \in 1 .. n \ {i}
        BY <1>0, <3>1
      <4>2. r[x] = q[x]
        BY <2>4, <4>1
      <4> QED
        BY <3>1, <4>1, <4>2
    <3>2. CASE ~(x < i)
      <4>1. x \in i .. n - 1 /\ x + 1 \in 1 .. n \ {i} /\ x + 1 # x
        BY <1>0, <3>2
      <4>2. r[x] = q[x + 1]
        BY <2>4, <4>1
      <4> QED
        BY <3>2, <4>1, <4>2
    <3> QED
      BY <3>1, <3>2
  <2>6. r \in Seq(S \ {b})
    <3>1. ASSUME NEW x \in 1 .. n - 1 PROVE r[x] \in S \ {b}
      <4>1. PICK y \in 1 .. n \ {i} : r[x] = q[y]
        BY <2>5
      <4>2. q[y] \in S /\ q[y] # q[i]
        BY <1>0, <1>1, <4>1
      <4> QED
        BY <2>1, <4>1, <4>2
    <3> QED
      BY <2>4, <3>1, IsASeq
  <2>7. IsInjective(r)
    <3>1. DOMAIN r = 1 .. n - 1
      BY <2>4
    <3> SUFFICES ASSUME NEW x \in 1 .. n - 1, NEW y \in 1 .. n - 1, r[x] = r[y] PROVE x = y
      BY <3>1 DEF IsInjective
    <3>2. PICK v \in 1 .. n \ {i} : r[x] = q[v] /\ v \in {x, x + 1} /\ (v = x <=> x < i)
      BY <2>5
    <3>3. PICK w \in 1 .. n \ {i} : r[y] = q[w] /\ w \in {y, y + 1} /\ (w = y <=> y < i)
      BY <2>5
    <3>4. v = w
      BY <1>1, <3>2, <3>3
    <3> QED
      BY <1>0, <3>2, <3>3, <3>4
  <2>8. ASSUME NEW j \in 1 .. n, NEW k \in j .. n, q[j] # b, q[k] # b
        PROVE  \E x \in 1 .. Len(r) : \E h \in x .. Len(r) : r[x] = q[j] /\ r[h] = q[k]
    <3>1. j # i /\ k # i
      BY <2>1, <2>8
    <3> DEFINE x == IF j < i THEN j ELSE j - 1
               h == IF k < i THEN k ELSE k - 1
    <3>2. x \in 1 .. n - 1 /\ h \in x .. n - 1
      BY <1>0, <3>1
    <3>3. r[x] = q[j]
      <4>1. CASE j < i
        <5>1. j \in 1 .. i - 1
          BY <1>0, <4>1
        <5> QED
          BY <2>4, <4>1, <5>1
      <4>2. CASE ~(j < i)
        <5>1. j - 1 \in i .. n - 1 /\ (j - 1) + 1 = j
          BY <1>0, <3>1, <4>2
        <5> QED
          BY <2>4, <4>2, <5>1
      <4> QED
        BY <4>1, <4>2
    <3>4. r[h] = q[k]
      <4>1. CASE k < i
        <5>1. k \in 1 .. i - 1
          BY <1>0, <4>1
        <5> QED
          BY <2>4, <4>1, <5>1
      <4>2. CASE ~(k < i)
        <5>1. k - 1 \in i .. n - 1 /\ (k - 1) + 1 = k
          BY <1>0, <3>1, <4>2
        <5> QED
          BY <2>4, <4>2, <5>1
      <4> QED
        BY <4>1, <4>2
    <3> HIDE DEF x, h
    <3> QED
      BY <2>4, <3>2, <3>3, <3>4
  <2>9. KeepsOrder(q, r, b)
    BY <2>8 DEF KeepsOrder, n
  <2> QED
    BY <2>6, <2>7, <2>9 DEF r
<1> QED
  BY <1>2, <1>3


-----------------------------------------------------------------------------
(* What the threads' steps do.                                             *)

Onward(r) ==
  LockTarget(r) \/ SetFirst(r) \/ SetSecond(r) \/ InterruptCommFB(r) \/ AddInterrupt(r)

(* Up to the event a walk stays at its subscriber.                         *)
LEMMA OnwardStep ==
  ASSUME Inv, NEW r \in Resource, Onward(r)
  PROVE  /\ UNCHANGED <<app, subs, open, fbState, seen, dead, published, ext>>
         /\ \A q \in Resource \ {r} : thread'[q] = thread[q]
         /\ thread[r].at \in {"send", "write", "half", "interrupt", "count"}
         /\ thread[r].dest \in Block /\ thread'[r].at \in Steps
         /\ thread'[r].dest = thread[r].dest /\ thread'[r].block = thread[r].block
         /\ thread'[r].number = thread[r].number /\ thread'[r].missing = thread[r].missing
         /\ InterruptCommFB(r) /\ thread'[r].at = "count" =>
              thread'[r].copy = count[thread[r].dest] /\ count[thread[r].dest] < QueueSize
         /\ InterruptCommFB(r) /\ thread'[r].at # "count" =>
              thread'[r].at = "event" /\ ~(count[thread[r].dest] < QueueSize)
         /\ ~InterruptCommFB(r) => thread'[r].at # "count"
<1> DEFINE s == thread[r].dest
           c == count[s]
           t == [thread[r] EXCEPT !.at = "count", !.copy = c]
<1>1. /\ UNCHANGED <<app, subs, open, fbState, seen, dead, published, ext>>
      /\ s \in Block /\ thread[r].at \in {"send", "write", "half", "interrupt", "count"}
  BY DEF Onward, LockTarget, SetFirst, SetSecond, WriteData, InterruptCommFB, AddInterrupt, Walk, At
<1>2. CASE Goes(r, "write") \/ Goes(r, "half") \/ Goes(r, "interrupt") \/ Goes(r, "event")
  <2>1. ThreadShape
    BY DEF Inv, Shape
  <2>2. PICK place \in {"write", "half", "interrupt", "event"} : Goes(r, place)
    BY <1>2
  <2>3. /\ \A q \in Resource \ {r} : thread'[q] = thread[q]
        /\ thread'[r].at = place /\ thread'[r].dest = s /\ thread'[r].block = thread[r].block
        /\ thread'[r].number = thread[r].number /\ thread'[r].missing = thread[r].missing
    BY <2>1, <2>2, GoesStep
  <2>4. InterruptCommFB(r) => place = "event" /\ ~(c < QueueSize)
    <3> SUFFICES ASSUME InterruptCommFB(r) PROVE place = "event" /\ ~(c < QueueSize)
      OBVIOUS
    <3>1. CASE c < QueueSize
      <4>1. thread' = [thread EXCEPT ![r] = t]
        BY <3>1 DEF InterruptCommFB
      <4>2. thread'[r] = t
        BY <4>1, <2>1 DEF ThreadShape
      <4>3. thread'[r].at = "count"
        BY <4>2, <2>1 DEF ThreadShape, Fields
      <4> QED
        BY <2>3, <4>3
    <3>2. CASE ~(c < QueueSize)
      <4>1. Goes(r, "event")
        BY <3>2 DEF InterruptCommFB
      <4>2. thread'[r].at = "event"
        BY <4>1, <2>1, GoesStep
      <4> QED
        BY <2>3, <3>2, <4>2
    <3> QED
      BY <3>1, <3>2
  <2> QED
    BY <1>1, <2>3, <2>4 DEF Steps
<1>3. CASE InterruptCommFB(r) /\ c < QueueSize
  <2>1. Fields(thread[r]) /\ ThreadShape /\ thread[r].number \in Int
    BY DEF Inv, Shape, ThreadShape
  <2>2. /\ Fields(t) /\ t.at = "count" /\ t.dest = s /\ t.number = thread[r].number /\ t.copy = c
        /\ t.block = thread[r].block /\ t.missing = thread[r].missing
    <3> HIDE DEF c
    <3> QED
      BY <2>1 DEF Fields
  <2>3. thread' = [thread EXCEPT ![r] = t]
    BY <1>3 DEF InterruptCommFB
  <2>4. thread'[r] = t /\ \A q \in Resource \ {r} : thread'[q] = thread[q]
    BY <2>1, <2>3 DEF ThreadShape
  <2> HIDE DEF t
  <2> QED
    BY <1>1, <1>3, <2>2, <2>4 DEF Steps
<1> QED
  BY <1>2, <1>3 DEF Onward, LockTarget, SetFirst, SetSecond, WriteData, InterruptCommFB, AddInterrupt

(* After the event a walk goes to the next subscriber.                     *)
LEMMA NextSubStep ==
  ASSUME Inv, NEW r \in Resource, StartNewEventChain(r)
  PROVE  /\ UNCHANGED <<app, subs, open, fbState, rd, seen, count, dead, published>>
         /\ \A q \in Resource \ {r} : thread'[q] = thread[q]
         /\ thread[r].at = "event" /\ thread[r].dest \in Block /\ thread'[r].at = "send"
         /\ thread'[r].dest = NextSub(thread[r].block, thread[r].dest)
         /\ thread'[r].block = thread[r].block /\ thread'[r].number = thread[r].number
         /\ thread'[r].missing = thread[r].missing \ {thread[r].dest}
<1> DEFINE s == thread[r].dest
           m == thread[r].missing \ {s}
           d == NextSub(thread[r].block, s)
           t == [at |-> "send", block |-> thread[r].block, number |-> thread[r].number, copy |-> 0,
                 dest |-> d, missing |-> m]
<1>1. thread' = [thread EXCEPT ![r] = t]
  BY DEF StartNewEventChain, ToNextSub
<1>2. /\ t.at = "send" /\ t.dest = d /\ t.missing = m /\ t.block = thread[r].block
      /\ t.number = thread[r].number
  OBVIOUS
<1>3. /\ UNCHANGED <<app, subs, open, fbState, rd, seen, count, dead, published>>
      /\ thread[r].at = "event" /\ s \in Block
  BY DEF StartNewEventChain, Walk, At
<1>4. thread'[r] = t /\ \A q \in Resource \ {r} : thread'[q] = thread[q]
  <2> HIDE DEF t
  <2> QED
    BY <1>1 DEF Inv, Shape, ThreadShape
<1> HIDE DEF t
<1> QED
  BY <1>2, <1>3, <1>4

(* The end of a walk or of an execution.                                   *)
LEMMA IdleStep ==
  ASSUME Inv, NEW r \in Resource, thread' = [thread EXCEPT ![r] = Idle]
  PROVE  /\ \A q \in Resource \ {r} : thread'[q] = thread[q]
         /\ thread'[r].at = "idle" /\ thread'[r].dest = Nothing /\ thread'[r].block = Nothing
<1>1. thread'[r] = Idle /\ \A q \in Resource \ {r} : thread'[q] = thread[q]
  BY DEF Inv, Shape, ThreadShape
<1> QED
  BY <1>1 DEF Idle

(* The execution of an external event up to the indication.                *)
LEMMA CountStep ==
  ASSUME Inv, NEW r \in Resource, LoadCount(r) \/ StoreCount(r)
  PROVE  /\ UNCHANGED <<app, holder, subs, open, fbState, rd, seen, dead, published, ext>>
         /\ \A q \in Resource \ {r} : thread'[q] = thread[q]
         /\ thread[r].block \in Block /\ Home(thread[r].block) = r
         /\ thread'[r].block = thread[r].block /\ thread'[r].dest = thread[r].dest
         /\ \/ /\ thread[r].at = "receive" /\ thread'[r].at = "store" /\ UNCHANGED <<count, faults>>
               /\ thread'[r].number = count[thread[r].block] /\ thread'[r].copy = thread[r].copy
            \/ /\ thread[r].at = "store" /\ thread'[r].at = "indicate"
               /\ count' = [count EXCEPT ![thread[r].block] = thread[r].number - thread[r].copy]
<1> DEFINE s == thread[r].block
           c == count[s]
           t == [thread[r] EXCEPT !.at = "store", !.number = c]
<1>1. /\ UNCHANGED <<app, holder, subs, open, fbState, rd, seen, dead, published, ext>>
      /\ s \in Block /\ Home(s) = r
  BY DEF LoadCount, StoreCount, Receive, Inv, ReceivesAtHome
<1>2. ThreadShape /\ Fields(thread[r])
  BY DEF Inv, Shape, ThreadShape
<1>3. CASE LoadCount(r)
  <2>1. /\ t.at = "store" /\ t.block = s /\ t.dest = thread[r].dest /\ t.number = c
        /\ t.copy = thread[r].copy
    <3> HIDE DEF c
    <3> QED
      BY <1>2 DEF Fields
  <2>2. thread' = [thread EXCEPT ![r] = t]
    BY <1>3 DEF LoadCount
  <2>3. thread'[r] = t /\ \A q \in Resource \ {r} : thread'[q] = thread[q]
    BY <1>2, <2>2 DEF ThreadShape
  <2> HIDE DEF t
  <2> QED
    BY <1>1, <1>3, <2>1, <2>3 DEF LoadCount
<1>4. CASE StoreCount(r)
  <2>1. /\ \A q \in Resource \ {r} : thread'[q] = thread[q]
        /\ thread'[r].at = "indicate" /\ thread'[r].dest = thread[r].dest /\ thread'[r].block = s
    BY <1>2, <1>4, GoesStep DEF StoreCount
  <2> QED
    BY <1>1, <1>4, <2>1 DEF StoreCount
<1> QED
  BY <1>3, <1>4

(* The beginning of an execution; an event for a block that is not RUNNING *)
(* or has no interrupt left is dropped.                                    *)
LEMMA BeginStep ==
  ASSUME Inv, NEW r \in Resource, BeginExternalEvent(r)
  PROVE  /\ UNCHANGED <<app, holder, subs, open, fbState, rd, seen, count, dead, published>>
         /\ \A q \in Resource \ {r} : thread'[q] = thread[q]
         /\ thread[r].at = "idle" /\ ext[r] # <<>> /\ ext' = [ext EXCEPT ![r] = Tail(ext[r])]
         /\ Head(ext[r]) \in Block /\ Home(Head(ext[r])) = r
         /\ \/ faults' = faults \cup {"lost"} /\ thread'[r] = thread[r]
            \/ count[Head(ext[r])] = 0 /\ thread'[r] = thread[r] /\ UNCHANGED faults
            \/ /\ count[Head(ext[r])] # 0 /\ UNCHANGED faults
               /\ thread'[r].at = "receive" /\ thread'[r].block = Head(ext[r])
               /\ thread'[r].dest = Nothing /\ thread'[r].copy = count[Head(ext[r])]
<1> DEFINE s == Head(ext[r])
           c == count[s]
           t == [at |-> "receive", block |-> s, dest |-> Nothing, number |-> 0, copy |-> c,
                 missing |-> {}]
<1>1. /\ UNCHANGED <<app, holder, subs, open, fbState, rd, seen, count, dead, published>>
      /\ thread[r].at = "idle" /\ ext[r] # <<>> /\ ext' = [ext EXCEPT ![r] = Tail(ext[r])]
  BY DEF BeginExternalEvent, Receive
<1>2. s \in Block /\ Home(s) = r
  <2>1. ext[r] \in Seq(Block)
    BY DEF Inv, Shape
  <2>2. s = ext[r][1] /\ 1 \in 1 .. Len(ext[r]) /\ s \in Block
    BY <1>1, <2>1
  <2> QED
    BY <2>2 DEF Inv, EventsAtHome
<1>3. ThreadShape
  BY DEF Inv, Shape
<1>4. CASE UNCHANGED thread /\ (faults' = faults \cup {"lost"} \/ (c = 0 /\ UNCHANGED faults))
  BY <1>1, <1>2, <1>4
<1>5. CASE thread' = [thread EXCEPT ![r] = t] /\ c # 0 /\ UNCHANGED faults
  <2>1. t.at = "receive" /\ t.block = s /\ t.dest = Nothing /\ t.copy = c
    OBVIOUS
  <2>2. thread'[r] = t /\ \A q \in Resource \ {r} : thread'[q] = thread[q]
    <3> HIDE DEF t
    <3> QED
      BY <1>3, <1>5 DEF ThreadShape
  <2> HIDE DEF t
  <2> QED
    BY <1>1, <1>2, <1>5, <2>1, <2>2
<1> QED
  BY <1>4, <1>5 DEF BeginExternalEvent


Closes(b) ==
  b \in Block /\ CloseConnection(b) /\ UNCHANGED <<app, holder, rd, seen, count, ext, published, faults>>

Stays ==
  /\ UNCHANGED <<app, holder, subs, open, rd, seen, count, ext, dead, thread, published>>
  /\ faults \subseteq faults'

(* The steps by what they change.                                          *)
LEMMA StepKinds ==
  ASSUME [Next]_vars
  PROVE  \/ \E r \in Resource : \/ Onward(r) \/ StartNewEventChain(r) \/ SendDone(r)
                                \/ BeginExternalEvent(r) \/ Indicate(r)
                                \/ LoadCount(r) \/ StoreCount(r)
         \/ \E b \in Block : OpenConnection(b) \/ Closes(b) \/ Publish(b)
         \/ Stays
<1>1. ASSUME NEW r \in Resource, EventChain(r)
      PROVE  \/ Onward(r) \/ StartNewEventChain(r) \/ SendDone(r)
             \/ BeginExternalEvent(r) \/ Indicate(r) \/ LoadCount(r) \/ StoreCount(r)
             \/ Stays
  <2>1. CASE WalkUsesDeleted(r) \/ UsesDeletedLayer(r)
    BY <2>1 DEF WalkUsesDeleted, UsesDeletedLayer, Undefined, Stays
  <2> QED
    BY <1>1, <2>1 DEF EventChain, Onward
<1>2. ASSUME NEW b \in Block, Application(b)
      PROVE  OpenConnection(b) \/ Closes(b) \/ Publish(b)
  BY <1>2 DEF Application, InitCloses, Executes, Closes
<1>3. ASSUME NEW b \in Block, Management(b)
      PROVE  Closes(b) \/ Stays
  <2>1. CASE CommandKill(b)
    BY <2>1 DEF CommandKill, Command, Closes
  <2>2. CASE CommandStop(b) \/ CommandReset(b) \/ CommandStart(b)
    BY <2>2 DEF CommandStop, CommandReset, CommandStart, Command, StaysOpen, Stays
  <2> QED
    BY <1>3, <2>1, <2>2 DEF Management
<1>4. CASE UNCHANGED vars
  BY <1>4 DEF vars, Stays
<1> QED
  BY <1>1, <1>2, <1>3, <1>4 DEF Next

(* The beginning of a walk.                                                *)
LEMMA PublishStep ==
  ASSUME Inv, NEW p \in Block, Publish(p)
  PROVE  LET r == Home(p) IN
         /\ r \in Resource /\ p \in app.publishers /\ published < MaxPublished
         /\ published' = published + 1
         /\ UNCHANGED <<app, subs, open, fbState, rd, seen, count, dead, ext, faults>>
         /\ \A q \in Resource \ {r} : thread'[q] = thread[q]
         /\ thread[r].at = "idle" /\ thread'[r].at = "send"
         /\ thread'[r].block = p /\ thread'[r].number = published + 1
         /\ thread'[r].dest = (IF SubList(p) = <<>> THEN Nothing ELSE Head(SubList(p)))
         /\ thread'[r].missing = Range(SubList(p))
<1> DEFINE r == Home(p)
           d == IF SubList(p) = <<>> THEN Nothing ELSE Head(SubList(p))
           m == Range(SubList(p))
           t == [at |-> "send", block |-> p, number |-> published + 1, copy |-> 0,
                 dest |-> d, missing |-> m]
<1>1. r \in Resource
  BY HomeType DEF Inv, Shape
<1>2. thread' = [thread EXCEPT ![r] = t]
  BY DEF Publish
<1>3. /\ t.at = "send" /\ t.dest = d /\ t.missing = m /\ t.block = p /\ t.number = published + 1
  OBVIOUS
<1>4. /\ p \in app.publishers /\ published < MaxPublished /\ published' = published + 1
      /\ UNCHANGED <<app, subs, open, fbState, rd, seen, count, dead, ext, faults>>
      /\ thread[r].at = "idle"
  BY DEF Publish
<1>5. thread'[r] = t /\ \A q \in Resource \ {r} : thread'[q] = thread[q]
  <2> HIDE DEF t, r
  <2> QED
    BY <1>1, <1>2 DEF Inv, Shape, ThreadShape
<1> HIDE DEF t
<1> QED
  BY <1>1, <1>3, <1>4, <1>5

(* What closing does to the threads.                                       *)
LEMMA CloseStep ==
  ASSUME Inv, NEW b \in Block, CloseConnection(b), NEW r \in Resource
  PROVE  /\ thread'[r].at = thread[r].at /\ thread'[r].block = thread[r].block
         /\ thread'[r].number = thread[r].number /\ thread'[r].copy = thread[r].copy
         /\ thread'[r].missing = thread[r].missing \ {b}
         /\ thread'[r].dest = IF Walking(thread[r]) /\ b \in open /\ b \in {thread[r].dest, thread[r].block}
                              THEN Gone ELSE thread[r].dest
<1> DEFINE m == thread[r].missing \ {b}
           d == IF Walking(thread[r]) /\ b \in open /\ b \in {thread[r].dest, thread[r].block}
                THEN Gone ELSE thread[r].dest
<1>1. thread'[r] = [thread[r] EXCEPT !.missing = m, !.dest = d]
  BY DEF CloseConnection
<1>2. Fields(thread[r])
  BY DEF Inv, Shape, ThreadShape
<1>3. /\ thread'[r].at = thread[r].at /\ thread'[r].block = thread[r].block
      /\ thread'[r].number = thread[r].number /\ thread'[r].copy = thread[r].copy
      /\ thread'[r].missing = m /\ thread'[r].dest = d
  <2> HIDE DEF m, d
  <2> QED
    BY <1>1, <1>2 DEF Fields
<1> QED
  BY <1>3


-----------------------------------------------------------------------------
(* Each part of the invariant under each kind of step.                     *)

(* The list of a publisher's group.                                        *)
LEMMA ListType ==
  ASSUME app \in Applications, Members, NEW p \in app.publishers
  PROVE  /\ p \in Block /\ app.group[p] \in Group
         /\ SubList(p) \in Seq(app.subscribers \cap open) /\ IsInjective(SubList(p))
         /\ app.subscribers \subseteq Block
         /\ Len(SubList(p)) \in Nat /\ DOMAIN SubList(p) = 1 .. Len(SubList(p))
         /\ \A j \in 1 .. Len(SubList(p)) : SubList(p)[j] \in app.subscribers \cap open
         /\ \A j, k \in 1 .. Len(SubList(p)) : SubList(p)[j] = SubList(p)[k] => j = k
<1>1. p \in Block /\ app.group[p] \in Group /\ app.subscribers \subseteq Block
  BY LocalAssumption
<1>2. SubList(p) \in Seq(app.subscribers \cap open) /\ IsInjective(SubList(p))
  BY <1>1 DEF SubList, Members
<1>3. /\ Len(SubList(p)) \in Nat /\ DOMAIN SubList(p) = 1 .. Len(SubList(p))
      /\ \A j \in 1 .. Len(SubList(p)) : SubList(p)[j] \in app.subscribers \cap open
  BY <1>2
<1> QED
  BY <1>1, <1>2, <1>3 DEF IsInjective

(* ++it                                                                    *)
LEMMA NextSubDef ==
  ASSUME app \in Applications, Members, NEW p \in app.publishers,
         NEW j \in 1 .. Len(SubList(p))
  PROVE  NextSub(p, SubList(p)[j]) = IF j = Len(SubList(p)) THEN Nothing ELSE SubList(p)[j + 1]
<1> DEFINE list == SubList(p)
           after == {k \in DOMAIN list : k > 1 /\ list[k - 1] = list[j]}
<1>1. /\ Len(list) \in Nat /\ DOMAIN list = 1 .. Len(list)
      /\ \A i, k \in 1 .. Len(list) : list[i] = list[k] => i = k
  BY ListType
<1>2. NextSub(p, list[j]) = IF after = {} THEN Nothing ELSE list[CHOOSE k \in after : TRUE]
  BY DEF NextSub
<1> HIDE DEF list
<1>3. \A k \in after : k = j + 1
  <2> SUFFICES ASSUME NEW k \in after PROVE k = j + 1
    OBVIOUS
  <2>1. k \in 1 .. Len(list) /\ k - 1 \in 1 .. Len(list) /\ list[k - 1] = list[j]
    BY <1>1
  <2>2. j \in 1 .. Len(list)
    BY DEF list
  <2> QED
    BY <1>1, <2>1, <2>2
<1>4. CASE j = Len(list)
  BY <1>1, <1>2, <1>3, <1>4 DEF list
<1>5. CASE j # Len(list)
  <2>1. j \in 1 .. Len(list)
    BY DEF list
  <2>2. j + 1 \in after
    BY <1>1, <1>5, <2>1
  <2>3. after = {j + 1}
    BY <1>3, <2>2
  <2>4. (CHOOSE k \in after : TRUE) = j + 1
    BY <2>3
  <2> HIDE DEF after
  <2> QED
    BY <1>2, <1>5, <2>2, <2>4 DEF list
<1> QED
  BY <1>4, <1>5

LEMMA PlacedStays ==
  ASSUME NEW q \in Resource, Placed(q), thread'[q] = thread[q], app' = app,
         published' = published \/ published' = published + 1, published \in Int
  PROVE  Placed(q)'
BY DEF Placed, Walking

LEMMA PlacesNext ==
  ASSUME QueueInv, [Next]_vars
  PROVE  Places'
<1>0. /\ Inv /\ published \in Int /\ \A r \in Resource : Placed(r)
      /\ app \in Applications /\ Members
  BY DEF QueueInv, Inv, Shape, Places
<1>1. ASSUME NEW r \in Resource, Onward(r) PROVE Places'
  <2>2. /\ app' = app /\ published' = published /\ \A q \in Resource \ {r} : thread'[q] = thread[q]
        /\ thread[r].at \in {"send", "write", "half", "interrupt", "count"}
        /\ thread[r].dest \in Block /\ thread'[r].at \in Steps
        /\ thread'[r].dest = thread[r].dest /\ thread'[r].block = thread[r].block
        /\ thread'[r].number = thread[r].number
    BY <1>0, <1>1, OnwardStep
  <2>3. Nothing \notin Block
    BY LocalAssumption
  <2>1. Placed(r)'
    BY <1>0, <2>2, <2>3 DEF Placed, Walking, Steps
  <2> QED
    BY <1>0, <2>1, <2>2, PlacedStays DEF Places
<1>2. ASSUME NEW r \in Resource, StartNewEventChain(r) PROVE Places'
  <2> DEFINE p == thread[r].block
             s == thread[r].dest
  <2>1. /\ app' = app /\ published' = published /\ \A q \in Resource \ {r} : thread'[q] = thread[q]
        /\ thread[r].at = "event" /\ s \in Block /\ thread'[r].at = "send"
        /\ thread'[r].dest = NextSub(p, s)
        /\ thread'[r].block = p /\ thread'[r].number = thread[r].number
    BY <1>0, <1>2, NextSubStep
  <2>2. p \in app.publishers /\ thread[r].number \in 1 .. published
    BY <1>0, <2>1 DEF Placed, Walking
  <2>3. NextSub(p, s) \in Block \cup {Nothing}
    <3>1. PICK j \in 1 .. Len(SubList(p)) : SubList(p)[j] = s
      BY <2>1 DEF QueueInv, Ahead, AheadAt, Walking
    <3>2. NextSub(p, s) = IF j = Len(SubList(p)) THEN Nothing ELSE SubList(p)[j + 1]
      BY <1>0, <2>2, <3>1, NextSubDef
    <3>3. Len(SubList(p)) \in Nat /\ \A k \in 1 .. Len(SubList(p)) : SubList(p)[k] \in Block
      BY <1>0, <2>2, ListType
    <3>4. j # Len(SubList(p)) => j + 1 \in 1 .. Len(SubList(p))
      BY <3>3
    <3> QED
      BY <3>2, <3>3, <3>4
  <2>4. Placed(r)'
    BY <2>1, <2>2, <2>3 DEF Placed, Walking, Steps
  <2> QED
    BY <1>0, <2>1, <2>4, PlacedStays DEF Places
<1>3. ASSUME NEW r \in Resource, SendDone(r) \/ Indicate(r) PROVE Places'
  <2>1. thread' = [thread EXCEPT ![r] = Idle] /\ app' = app /\ published' = published
    BY <1>3 DEF SendDone, Indicate, Walk, Receive
  <2>2. Placed(r)' /\ \A q \in Resource \ {r} : thread'[q] = thread[q]
    BY <1>0, <2>1, IdleStep DEF Placed, Walking, Steps
  <2> QED
    BY <1>0, <2>1, <2>2, PlacedStays DEF Places
<1>4. ASSUME NEW r \in Resource, BeginExternalEvent(r) PROVE Places'
  <2>1. /\ app' = app /\ published' = published /\ \A q \in Resource \ {r} : thread'[q] = thread[q]
        /\ thread'[r] = thread[r] \/ (thread'[r].at = "receive" /\ thread'[r].dest = Nothing)
    BY <1>0, <1>4, BeginStep
  <2>2. Placed(r)'
    <3>1. CASE thread'[r] = thread[r]
      BY <1>0, <2>1, <3>1, PlacedStays
    <3>2. CASE thread'[r].at = "receive" /\ thread'[r].dest = Nothing
      BY <3>2 DEF Placed, Walking, Steps
    <3> QED
      BY <2>1, <3>1, <3>2
  <2> QED
    BY <1>0, <2>1, <2>2, PlacedStays DEF Places
<1>5. ASSUME NEW r \in Resource, LoadCount(r) \/ StoreCount(r) PROVE Places'
  <2>1. /\ app' = app /\ published' = published /\ \A q \in Resource \ {r} : thread'[q] = thread[q]
        /\ thread[r].at \in {"receive", "store"} /\ thread'[r].at \in {"store", "indicate"}
        /\ thread'[r].dest = thread[r].dest
    BY <1>0, <1>5, CountStep
  <2>2. Placed(r)'
    BY <1>0, <2>1 DEF Placed, Walking, Steps
  <2> QED
    BY <1>0, <2>1, <2>2, PlacedStays DEF Places
<1>6. ASSUME NEW b \in Block, Publish(b) PROVE Places'
  <2>0. PICK r \in Resource : r = Home(b)
    BY <1>0, HomeType
  <2>1. /\ app' = app /\ published' = published + 1
        /\ \A q \in Resource \ {r} : thread'[q] = thread[q]
        /\ thread'[r].at = "send" /\ thread'[r].block = b /\ b \in app.publishers
        /\ thread'[r].number = published + 1
        /\ thread'[r].dest = (IF SubList(b) = <<>> THEN Nothing ELSE Head(SubList(b)))
    BY <1>0, <1>6, <2>0, PublishStep
  <2>2. thread'[r].dest \in Block \cup {Nothing}
    <3>1. SubList(b) \in Seq(app.subscribers \cap open) /\ app.subscribers \subseteq Block
      BY <1>0, <2>1, ListType
    <3> QED
      BY <2>1, <3>1
  <2>3. published \in Nat
    BY DEF QueueInv, Bounds
  <2>4. Placed(r)'
    <3>1. published + 1 \in 1 .. published'
      BY <2>1, <2>3
    <3> QED
      BY <2>1, <2>2, <3>1 DEF Placed, Walking, Steps
  <2> QED
    BY <1>0, <2>1, <2>4, PlacedStays DEF Places
<1>7. ASSUME NEW b \in Block, Closes(b) PROVE Places'
  <2>1. app' = app /\ published' = published /\ CloseConnection(b)
    BY <1>7 DEF Closes
  <2> SUFFICES ASSUME NEW r \in Resource PROVE Placed(r)'
    BY DEF Places
  <2>2. /\ thread'[r].at = thread[r].at /\ thread'[r].block = thread[r].block
        /\ thread'[r].number = thread[r].number
        /\ thread'[r].dest = IF Walking(thread[r]) /\ b \in open /\ b \in {thread[r].dest, thread[r].block}
                             THEN Gone ELSE thread[r].dest
    BY <1>0, <2>1, CloseStep
  <2>3. Gone # Nothing
    BY LocalAssumption
  <2> QED
    BY <1>0, <2>1, <2>2, <2>3 DEF Placed, Walking, Steps
<1>8. CASE Stays \/ \E b \in Block : OpenConnection(b)
  <2>1. UNCHANGED <<app, thread, published>>
    BY <1>8 DEF Stays, OpenConnection, Executes
  <2> QED
    BY <1>0, <2>1, PlacedStays DEF Places
<1> QED
  BY <1>1, <1>2, <1>3, <1>4, <1>5, <1>6, <1>7, <1>8, StepKinds


LEMMA MembersNext ==
  ASSUME QueueInv, [Next]_vars
  PROVE  Members'
<1>0. Inv /\ Members
  BY DEF QueueInv
<1>1. ASSUME NEW b \in Block, OpenConnection(b) PROVE Members'
  <2>1. /\ app' = app /\ b \notin open /\ open' = open \cup {b}
        /\ subs' = [g \in Group |-> IF b \in app.subscribers /\ g = app.group[b]
                                    THEN Append(subs[g], b) ELSE subs[g]]
    BY <1>1 DEF OpenConnection, Executes, Register
  <2> SUFFICES ASSUME NEW g \in Group
               PROVE  subs'[g] \in Seq(app.subscribers \cap open') /\ IsInjective(subs'[g])
    BY <2>1 DEF Members
  <2>2. subs[g] \in Seq(app.subscribers \cap open) /\ IsInjective(subs[g])
    BY <1>0 DEF Members
  <2>3. subs[g] \in Seq(app.subscribers \cap open')
    BY <2>1, <2>2, SeqMonotonic
  <2>4. CASE b \in app.subscribers /\ g = app.group[b]
    <3>1. subs'[g] = Append(subs[g], b) /\ b \in app.subscribers \cap open'
      BY <2>1, <2>4
    <3>2. /\ subs'[g] \in Seq(app.subscribers \cap open') /\ Len(subs'[g]) = Len(subs[g]) + 1
          /\ \A i \in 1 .. Len(subs[g]) : subs'[g][i] = subs[g][i] /\ subs[g][i] # b
          /\ subs'[g][Len(subs[g]) + 1] = b /\ Len(subs[g]) \in Nat
      BY <2>1, <2>2, <2>3, <3>1
    <3>3. \A i, k \in 1 .. Len(subs[g]) : subs[g][i] = subs[g][k] => i = k
      BY <2>2 DEF IsInjective
    <3>4. DOMAIN subs'[g] = 1 .. Len(subs[g]) + 1
      BY <3>2
    <3> DEFINE n == Len(subs[g])
    <3>5. \A i \in 1 .. n + 1 : i \in 1 .. n \/ i = n + 1
      BY <3>2
    <3> HIDE DEF n
    <3>6. \A i, k \in 1 .. n + 1 : subs'[g][i] = subs'[g][k] => i = k
      BY <3>2, <3>3, <3>5 DEF n
    <3> QED
      BY <3>2, <3>4, <3>6 DEF IsInjective, n
  <2>5. CASE ~(b \in app.subscribers /\ g = app.group[b])
    BY <2>1, <2>2, <2>3, <2>5
  <2> QED
    BY <2>4, <2>5
<1>2. ASSUME NEW b \in Block, Closes(b) PROVE Members'
  <2>1. /\ app' = app /\ open' = open \ {b}
        /\ subs' = [g \in Group |-> RemoveFirst(subs[g], b)]
    BY <1>2 DEF Closes, CloseConnection, Unregister
  <2> SUFFICES ASSUME NEW g \in Group
               PROVE  subs'[g] \in Seq(app.subscribers \cap open') /\ IsInjective(subs'[g])
    BY <2>1 DEF Members
  <2>2. subs[g] \in Seq(app.subscribers \cap open) /\ IsInjective(subs[g])
    BY <1>0 DEF Members
  <2>3. /\ RemoveFirst(subs[g], b) \in Seq((app.subscribers \cap open) \ {b})
        /\ IsInjective(RemoveFirst(subs[g], b))
    BY <2>2, RemoveFirstProperties
  <2>4. (app.subscribers \cap open) \ {b} = app.subscribers \cap open'
    BY <2>1
  <2> QED
    BY <2>1, <2>3, <2>4
<1>3. CASE UNCHANGED <<app, subs, open>>
  BY <1>0, <1>3 DEF Members
<1>4. ASSUME NEW r \in Resource,
             \/ Onward(r) \/ StartNewEventChain(r) \/ SendDone(r)
             \/ BeginExternalEvent(r) \/ Indicate(r) \/ LoadCount(r) \/ StoreCount(r)
      PROVE  UNCHANGED <<app, subs, open>>
  BY <1>4 DEF Onward, LockTarget, SetFirst, SetSecond, WriteData, InterruptCommFB, AddInterrupt,
     StartNewEventChain, SendDone, BeginExternalEvent, Indicate, LoadCount, StoreCount, Walk, Receive
<1>5. ASSUME NEW b \in Block, Publish(b) PROVE UNCHANGED <<app, subs, open>>
  BY <1>5 DEF Publish
<1>6. Stays => UNCHANGED <<app, subs, open>>
  BY DEF Stays
<1> QED
  BY <1>1, <1>2, <1>3, <1>4, <1>5, <1>6, StepKinds

LEMMA BoundsNext ==
  ASSUME QueueInv, [Next]_vars
  PROVE  Bounds'
<1>0. /\ Inv /\ Bounds /\ app \in Applications /\ app' = app
      /\ \A a \in Applications : a.publishers \subseteq Block /\ a.subscribers \subseteq Block
  <2>1. app' = app
    BY StepKinds DEF Onward, LockTarget, SetFirst, SetSecond, WriteData, InterruptCommFB, AddInterrupt,
       StartNewEventChain, SendDone, BeginExternalEvent, Indicate, LoadCount, StoreCount, Walk, Receive,
       Publish, OpenConnection, Executes, Closes, Stays
  <2> QED
    BY <2>1, LocalAssumption DEF QueueInv, Inv, Shape
<1>1. (open \subseteq app.publishers \cup app.subscribers)'
  <2>1. open' \subseteq open \/ \E b \in app.publishers \cup app.subscribers : open' = open \cup {b}
    BY StepKinds DEF Onward, LockTarget, SetFirst, SetSecond, WriteData, InterruptCommFB, AddInterrupt,
       StartNewEventChain, SendDone, BeginExternalEvent, Indicate, LoadCount, StoreCount, Walk, Receive,
       Publish, OpenConnection, Executes, Closes, CloseConnection, Stays
  <2> QED
    BY <1>0, <2>1 DEF Bounds
<1>2. (fbState \in [Block -> {"RUNNING", "STOPPED", "KILLED", "IDLE"}])'
  <2>1. CASE UNCHANGED fbState
    BY <1>0, <2>1 DEF Bounds
  <2>2. ASSUME NEW b \in Block, Management(b) PROVE fbState' \in [Block -> {"RUNNING", "STOPPED", "KILLED", "IDLE"}]
    <3>1. PICK to \in {"RUNNING", "STOPPED", "KILLED", "IDLE"} : fbState' = [fbState EXCEPT ![b] = to]
      BY <2>2 DEF Management, CommandStop, CommandKill, CommandReset, CommandStart, Command
    <3> QED
      BY <1>0, <3>1 DEF Bounds
  <2>3. ASSUME NEW b \in Block, Application(b) PROVE UNCHANGED fbState
    BY <2>3 DEF Application, OpenConnection, InitCloses, Publish, Executes
  <2>4. ASSUME NEW r \in Resource, EventChain(r) PROVE UNCHANGED fbState
    BY <2>4 DEF EventChain, LockTarget, SetFirst, SetSecond, WriteData, InterruptCommFB, AddInterrupt,
       StartNewEventChain, SendDone, BeginExternalEvent, Indicate, LoadCount, StoreCount, Walk, Receive,
       WalkUsesDeleted, UsesDeletedLayer, Undefined
  <2>5. CASE UNCHANGED vars
    BY <2>1, <2>5 DEF vars
  <2> QED
    BY <2>1, <2>2, <2>3, <2>4, <2>5 DEF Next
<1>3. (published \in 0 .. MaxPublished)'
  <2>1. published' = published \/ (published' = published + 1 /\ published < MaxPublished)
    BY StepKinds DEF Onward, LockTarget, SetFirst, SetSecond, WriteData, InterruptCommFB, AddInterrupt,
       StartNewEventChain, SendDone, BeginExternalEvent, Indicate, LoadCount, StoreCount, Walk, Receive,
       Publish, OpenConnection, Executes, Closes, Stays
  <2>2. MaxPublished \in Nat /\ published \in 0 .. MaxPublished
    BY <1>0, LocalAssumption DEF Bounds
  <2> QED
    BY <2>1, <2>2
<1>4. (rd \in [Block -> [1 .. 2 -> 0 .. MaxPublished]])'
  <2>1. CASE UNCHANGED rd
    BY <1>0, <2>1 DEF Bounds
  <2>2. ASSUME NEW r \in Resource, SetFirst(r) \/ SetSecond(r)
        PROVE  rd' \in [Block -> [1 .. 2 -> 0 .. MaxPublished]]
    <3>1. PICK i \in 1 .. 2 : rd' = [rd EXCEPT ![thread[r].dest][i] = thread[r].number]
      BY <2>2 DEF SetFirst, SetSecond, WriteData
    <3>2. thread[r].dest \in Block /\ thread[r].at \in {"write", "half"}
      BY <2>2 DEF SetFirst, SetSecond, WriteData, At
    <3>3. thread[r].number \in 1 .. published /\ published \in 0 .. MaxPublished
      BY <1>0, <3>2 DEF QueueInv, Places, Placed, Walking, Bounds
    <3>4. thread[r].number \in 0 .. MaxPublished
      BY <3>3, LocalAssumption
    <3>5. rd \in [Block -> [1 .. 2 -> 0 .. MaxPublished]]
      BY <1>0 DEF Bounds
    <3> QED
      BY <3>1, <3>2, <3>4, <3>5
  <2>3. \/ UNCHANGED rd \/ \E r \in Resource : SetFirst(r) \/ SetSecond(r)
    BY StepKinds DEF Onward, LockTarget, InterruptCommFB, AddInterrupt,
       StartNewEventChain, SendDone, BeginExternalEvent, Indicate, LoadCount, StoreCount, Walk, Receive,
       Publish, OpenConnection, Executes, Closes, Stays
  <2> QED
    BY <2>1, <2>2, <2>3
<1>5. (seen \in [Block -> [1 .. 2 -> 0 .. MaxPublished]])'
  <2>1. CASE UNCHANGED seen
    BY <1>0, <2>1 DEF Bounds
  <2>2. ASSUME NEW r \in Resource, Indicate(r)
        PROVE  seen' \in [Block -> [1 .. 2 -> 0 .. MaxPublished]]
    <3>1. thread[r].block \in Block /\ seen' = [seen EXCEPT ![thread[r].block] = rd[thread[r].block]]
      BY <1>0, <2>2 DEF Indicate, Inv, ReceivesAtHome
    <3> QED
      BY <1>0, <3>1 DEF Bounds
  <2>3. \/ UNCHANGED seen \/ \E r \in Resource : Indicate(r)
    BY StepKinds DEF Onward, LockTarget, SetFirst, SetSecond, WriteData, InterruptCommFB, AddInterrupt,
       StartNewEventChain, SendDone, BeginExternalEvent, LoadCount, StoreCount, Walk, Receive,
       Publish, OpenConnection, Executes, Closes, Stays
  <2> QED
    BY <2>1, <2>2, <2>3
<1>6. (dead \subseteq Block)'
  <2>1. dead' = dead \/ \E b \in Block : dead' \subseteq dead \cup {b}
    BY StepKinds DEF Onward, LockTarget, SetFirst, SetSecond, WriteData, InterruptCommFB, AddInterrupt,
       StartNewEventChain, SendDone, BeginExternalEvent, Indicate, LoadCount, StoreCount, Walk, Receive,
       Publish, OpenConnection, Executes, Closes, CloseConnection, Stays
  <2> QED
    BY <1>0, <2>1 DEF Bounds
<1>7. (\A r \in Resource : Len(ext[r]) <= ExternalLimit)'
  <2>0. ext \in [Resource -> Seq(Block)] /\ ExternalLimit \in Nat
    BY <1>0, LocalAssumption DEF Inv, Shape
  <2>1. CASE UNCHANGED ext
    BY <1>0, <2>1 DEF Bounds
  <2>2. ASSUME NEW r \in Resource, StartNewEventChain(r), ext' # ext
        PROVE  \A u \in Resource : Len(ext'[u]) <= ExternalLimit
    <3>1. PICK q \in Resource : q = Target(r)
      <4>1. thread[r].dest \in Block
        BY <2>2 DEF StartNewEventChain, At
      <4> QED
        BY <1>0, <4>1, HomeType DEF Target
    <3>2. Len(ext[q]) < ExternalLimit /\ ext' = [ext EXCEPT ![q] = Append(ext[q], thread[r].dest)]
      BY <2>2, <3>1 DEF StartNewEventChain
    <3>3. thread[r].dest \in Block /\ ext[q] \in Seq(Block)
      BY <2>0, <2>2 DEF StartNewEventChain, At
    <3>4. Len(ext'[q]) = Len(ext[q]) + 1 /\ \A u \in Resource \ {q} : ext'[u] = ext[u]
      BY <2>0, <3>2, <3>3
    <3>5. Len(ext[q]) \in Nat
      BY <3>3
    <3> QED
      BY <1>0, <2>0, <3>2, <3>4, <3>5 DEF Bounds
  <2>3. ASSUME NEW r \in Resource, BeginExternalEvent(r)
        PROVE  \A u \in Resource : Len(ext'[u]) <= ExternalLimit
    <3>1. ext[r] # <<>> /\ ext' = [ext EXCEPT ![r] = Tail(ext[r])]
      BY <1>0, <2>3, BeginStep
    <3>2. /\ ext[r] \in Seq(Block) /\ Len(ext[r]) \in Nat /\ Len(Tail(ext[r])) = Len(ext[r]) - 1
          /\ ext'[r] = Tail(ext[r]) /\ \A u \in Resource \ {r} : ext'[u] = ext[u]
      BY <2>0, <3>1
    <3>3. \A u \in Resource : Len(ext[u]) <= ExternalLimit
      BY <1>0 DEF Bounds
    <3>4. Len(ext'[r]) <= ExternalLimit
      <4>1. Len(ext'[r]) = Len(ext[r]) - 1 /\ Len(ext[r]) <= ExternalLimit /\ Len(ext[r]) \in Nat
        BY <3>2, <3>3
      <4> QED
        BY <2>0, <4>1
    <3> QED
      BY <3>2, <3>3, <3>4
  <2>4. ext' = ext \/ \E r \in Resource : StartNewEventChain(r) \/ BeginExternalEvent(r)
    BY StepKinds DEF Onward, LockTarget, SetFirst, SetSecond, WriteData, InterruptCommFB, AddInterrupt,
       SendDone, Indicate, LoadCount, StoreCount, Walk, Receive,
       Publish, OpenConnection, Executes, Closes, Stays
  <2> QED
    BY <2>1, <2>2, <2>3, <2>4
<1>8. (faults \subseteq {"lost", "raced", "undefined"})'
  <2>1. faults' \subseteq faults \cup {"lost", "raced", "undefined"}
    BY DEF Next, vars, EventChain, Application, Management, LockTarget, SetFirst, SetSecond, WriteData,
       InterruptCommFB, AddInterrupt, StartNewEventChain, SendDone, BeginExternalEvent, Indicate,
       LoadCount, StoreCount, WalkUsesDeleted, UsesDeletedLayer, Undefined, RaceIf, Publish,
       OpenConnection, InitCloses, Executes, CommandStop, CommandKill, CommandReset, CommandStart, Command
  <2> QED
    BY <1>0, <2>1 DEF Bounds
<1> QED
  BY <1>1, <1>2, <1>3, <1>4, <1>5, <1>6, <1>7, <1>8 DEF Bounds


LEMMA AheadStays ==
  ASSUME NEW q \in Resource, AheadAt(q), app' = app, subs' = subs,
         Walking(thread'[q]) => /\ Walking(thread[q])
                                /\ thread'[q].dest = thread[q].dest
                                /\ thread'[q].block = thread[q].block
                                /\ thread'[q].missing = thread[q].missing
  PROVE  AheadAt(q)'
<1>1. \A p : SubList(p)' = SubList(p)
  BY DEF SubList
<1>2. CASE ~Walking(thread'[q])
  BY <1>2 DEF AheadAt, Walking
<1>3. CASE Walking(thread'[q])
  BY <1>1, <1>3 DEF AheadAt, Walking, SubList
<1> QED
  BY <1>2, <1>3

(* A subscriber that registers is behind all walks.                        *)
LEMMA AheadOpen ==
  ASSUME QueueInv, NEW b \in Block, OpenConnection(b)
  PROVE  Ahead'
<1>1. /\ Inv /\ Members /\ app \in Applications /\ app' = app /\ thread' = thread
      /\ subs' = [g \in Group |-> IF b \in app.subscribers /\ g = app.group[b]
                                  THEN Append(subs[g], b) ELSE subs[g]]
  BY DEF QueueInv, Inv, Shape, OpenConnection, Executes, Register
<1> SUFFICES ASSUME NEW r \in Resource, Walking(thread[r]) PROVE AheadAt(r)'
  BY <1>1 DEF Ahead, AheadAt, Walking
<1> DEFINE p == thread[r].block
           list == SubList(p)
           list2 == subs'[app.group[p]]
<1>2. p \in app.publishers /\ AheadAt(r)
  BY DEF QueueInv, Places, Placed, Ahead
<1>3. /\ list \in Seq(app.subscribers \cap open) /\ Len(list) \in Nat /\ app.group[p] \in Group
  BY <1>1, <1>2, ListType
<1>4. SubList(thread[r].block)' = list2
  BY <1>1 DEF SubList
<1>5. list2 = list \/ list2 = Append(list, b)
  BY <1>1, <1>3 DEF SubList
<1>6. /\ Len(list2) \in Nat /\ Len(list) <= Len(list2)
      /\ \A i \in 1 .. Len(list) : list2[i] = list[i]
  <2>1. CASE list2 = list
    BY <1>3, <2>1
  <2>2. CASE list2 = Append(list, b)
    <3> HIDE DEF list, list2
    <3>1. list \in Seq(Block \cup (app.subscribers \cap open))
      BY <1>3, SeqMonotonic
    <3>2. Len(list2) = Len(list) + 1 /\ \A i \in 1 .. Len(list) : list2[i] = list[i]
      BY <2>2, <3>1
    <3> QED
      BY <1>3, <3>2
  <2> QED
    BY <1>5, <2>1, <2>2
<1>7. /\ thread[r].dest = Nothing => thread[r].missing = {}
      /\ thread[r].dest \in Block =>
           \E j \in 1 .. Len(list) :
             list[j] = thread[r].dest
             /\ \A m \in thread[r].missing : \E k \in j .. Len(list) : list[k] = m
  BY <1>2 DEF AheadAt
<1> HIDE DEF list, list2
<1>8. thread[r].dest \in Block =>
        \E j \in 1 .. Len(list2) :
          list2[j] = thread[r].dest
          /\ \A m \in thread[r].missing : \E k \in j .. Len(list2) : list2[k] = m
  <2> SUFFICES ASSUME thread[r].dest \in Block
               PROVE  \E j \in 1 .. Len(list2) :
                        list2[j] = thread[r].dest
                        /\ \A m \in thread[r].missing : \E k \in j .. Len(list2) : list2[k] = m
    OBVIOUS
  <2>1. PICK j \in 1 .. Len(list) :
          list[j] = thread[r].dest
          /\ \A m \in thread[r].missing : \E k \in j .. Len(list) : list[k] = m
    BY <1>7
  <2>2. j \in 1 .. Len(list2) /\ list2[j] = thread[r].dest
    BY <1>3, <1>6, <2>1
  <2>3. \A m \in thread[r].missing : \E k \in j .. Len(list2) : list2[k] = m
    <3> SUFFICES ASSUME NEW m \in thread[r].missing PROVE \E k \in j .. Len(list2) : list2[k] = m
      OBVIOUS
    <3>1. PICK k \in j .. Len(list) : list[k] = m
      BY <2>1
    <3>2. k \in 1 .. Len(list) /\ k \in j .. Len(list2)
      BY <1>3, <1>6, <2>1, <3>1
    <3> QED
      BY <1>6, <3>1, <3>2
  <2> QED
    BY <2>2, <2>3
<1> QED
  BY <1>1, <1>4, <1>7, <1>8 DEF AheadAt

(* One that unregisters is no longer missing, and the walks that are at    *)
(* its entry lose their place.                                             *)
LEMMA AheadClose ==
  ASSUME QueueInv, NEW b \in Block, Closes(b)
  PROVE  Ahead'
<1>1. /\ Inv /\ Members /\ app \in Applications /\ app' = app /\ CloseConnection(b)
      /\ subs' = [g \in Group |-> RemoveFirst(subs[g], b)]
  BY DEF QueueInv, Inv, Shape, Closes, CloseConnection, Unregister
<1> SUFFICES ASSUME NEW r \in Resource PROVE AheadAt(r)'
  BY DEF Ahead
<1>2. /\ thread'[r].at = thread[r].at /\ thread'[r].block = thread[r].block
      /\ thread'[r].missing = thread[r].missing \ {b}
      /\ thread'[r].dest = IF Walking(thread[r]) /\ b \in open /\ b \in {thread[r].dest, thread[r].block}
                           THEN Gone ELSE thread[r].dest
  BY <1>1, CloseStep
<1>3. CASE ~Walking(thread[r])
  BY <1>2, <1>3 DEF AheadAt, Walking
<1>4. CASE Walking(thread[r])
  <2> DEFINE p == thread[r].block
             list == SubList(p)
             list2 == RemoveFirst(list, b)
             s == thread[r].dest
             old == thread[r].missing
  <2>1. p \in app.publishers /\ AheadAt(r)
    BY <1>4 DEF QueueInv, Places, Placed, Ahead
  <2>2. /\ list \in Seq(app.subscribers \cap open) /\ IsInjective(list) /\ app.group[p] \in Group
        /\ Len(list) \in Nat
        /\ \A j \in 1 .. Len(list) : list[j] \in app.subscribers \cap open
    BY <1>1, <2>1, ListType
  <2>3. SubList(thread[r].block)' = list2
    BY <1>1, <1>2, <2>2 DEF SubList
  <2>4. /\ list2 \in Seq((app.subscribers \cap open) \ {b}) /\ IsInjective(list2)
         /\ KeepsOrder(list, list2, b)
    BY <2>2, RemoveFirstProperties
  <2>5. /\ s = Nothing => old = {}
        /\ s \in Block =>
             \E j \in 1 .. Len(list) :
               list[j] = s /\ \A m \in old : \E k \in j .. Len(list) : list[k] = m
    BY <1>4, <2>1 DEF AheadAt
  <2> HIDE DEF list, list2
  <2>6. /\ list2 \in Seq((app.subscribers \cap open) \ {b}) /\ IsInjective(list2)
        /\ \A j \in 1 .. Len(list) : \A k \in j .. Len(list) :
             list[j] # b /\ list[k] # b
               => \E i \in 1 .. Len(list2) : \E h \in i .. Len(list2) :
                    list2[i] = list[j] /\ list2[h] = list[k]
    BY <2>4 DEF KeepsOrder
  <2>7. Gone \notin Block /\ Gone # Nothing
    BY LocalAssumption
  <2>8. thread'[r].dest = Nothing => old \ {b} = {}
    BY <1>2, <2>5, <2>7
  <2>9. ASSUME thread'[r].dest \in Block
        PROVE  \E i \in 1 .. Len(list2) :
                 list2[i] = s /\ \A m \in old \ {b} : \E h \in i .. Len(list2) : list2[h] = m
    <3>1. s \in Block /\ thread'[r].dest = s /\ (b \in open => b # s)
      BY <1>2, <1>4, <2>7, <2>9
    <3>2. PICK j \in 1 .. Len(list) :
            list[j] = s /\ \A m \in old : \E k \in j .. Len(list) : list[k] = m
      BY <2>5, <3>1
    <3>3. s # b
      BY <2>2, <3>1, <3>2
    <3>4. PICK i \in 1 .. Len(list2) : list2[i] = s
      <4>1. j \in j .. Len(list)
        BY <2>2
      <4> QED
        BY <2>6, <3>2, <3>3, <4>1
    <3>5. ASSUME NEW m \in old \ {b} PROVE \E h \in i .. Len(list2) : list2[h] = m
      <4>1. PICK k \in j .. Len(list) : list[k] = m
        BY <3>2
      <4>2. PICK i2 \in 1 .. Len(list2) : \E h \in i2 .. Len(list2) : list2[i2] = s /\ list2[h] = m
        <5>1. \E i2 \in 1 .. Len(list2) : \E h \in i2 .. Len(list2) : list2[i2] = list[j] /\ list2[h] = list[k]
          BY <2>6, <3>2, <3>3, <3>5, <4>1
        <5> QED
          BY <3>2, <4>1, <5>1
      <4>3. i2 = i
        <5>1. list2[i2] = s /\ DOMAIN list2 = 1 .. Len(list2)
          BY <2>6, <4>2
        <5> QED
          BY <2>6, <3>4, <5>1 DEF IsInjective
      <4> QED
        BY <4>2, <4>3
    <3> QED
      BY <3>4, <3>5
  <2>10. thread'[r].dest \in Block => thread'[r].dest = s
    BY <1>2, <2>7
  <2> QED
    BY <1>2, <1>4, <2>3, <2>8, <2>9, <2>10 DEF AheadAt, Walking
<1> QED
  BY <1>3, <1>4


(* A walk begins with all members ahead, and goes on to the next.          *)
LEMMA AheadNext ==
  ASSUME QueueInv, [Next]_vars
  PROVE  Ahead'
<1>0. /\ Inv /\ Members /\ app \in Applications /\ \A r \in Resource : AheadAt(r)
      /\ \A r \in Resource : Walking(thread[r]) => thread[r].block \in app.publishers
  BY DEF QueueInv, Inv, Shape, Ahead, Places, Placed
<1>1. ASSUME NEW r \in Resource, Onward(r) PROVE Ahead'
  <2>1. /\ app' = app /\ subs' = subs /\ \A q \in Resource \ {r} : thread'[q] = thread[q]
        /\ Walking(thread[r]) /\ thread'[r].dest = thread[r].dest
        /\ thread'[r].block = thread[r].block /\ thread'[r].missing = thread[r].missing
    BY <1>0, <1>1, OnwardStep DEF Walking
  <2> QED
    BY <1>0, <2>1, AheadStays DEF Ahead
<1>2. ASSUME NEW r \in Resource, StartNewEventChain(r) PROVE Ahead'
  <2> DEFINE p == thread[r].block
             s == thread[r].dest
             list == SubList(p)
             old == thread[r].missing
  <2>1. /\ app' = app /\ subs' = subs /\ \A q \in Resource \ {r} : thread'[q] = thread[q]
        /\ thread[r].at = "event" /\ s \in Block
        /\ thread'[r].dest = NextSub(p, s) /\ thread'[r].block = p
        /\ thread'[r].missing = old \ {s}
    BY <1>0, <1>2, NextSubStep
  <2>2. p \in app.publishers /\ AheadAt(r) /\ Walking(thread[r])
    BY <1>0, <2>1 DEF Walking
  <2>3. /\ Len(list) \in Nat /\ \A j \in 1 .. Len(list) : list[j] \in Block
        /\ \A i, k \in 1 .. Len(list) : list[i] = list[k] => i = k
    BY <1>0, <2>2, ListType
  <2>4. PICK j \in 1 .. Len(list) :
               list[j] = s /\ \A m \in old : \E k \in j .. Len(list) : list[k] = m
    BY <2>1, <2>2 DEF AheadAt
  <2>5. thread'[r].dest = IF j = Len(list) THEN Nothing ELSE list[j + 1]
    BY <1>0, <2>1, <2>2, <2>4, NextSubDef
  <2>6. SubList(thread[r].block)' = list
    BY <2>1 DEF SubList
  <2>7. Nothing \notin Block
    BY LocalAssumption
  <2> HIDE DEF list
  <2>8. \A m \in old \ {s} : \E k \in j + 1 .. Len(list) : list[k] = m
    <3> SUFFICES ASSUME NEW m \in old \ {s} PROVE \E k \in j + 1 .. Len(list) : list[k] = m
      OBVIOUS
    <3>1. PICK k \in j .. Len(list) : list[k] = m
      BY <2>4
    <3>2. k # j
      BY <2>4, <3>1
    <3>3. k \in j + 1 .. Len(list)
      BY <2>3, <2>4, <3>1, <3>2
    <3> QED
      BY <3>1, <3>3
  <2>9. AheadAt(r)'
    <3>1. CASE j = Len(list)
      <4>1. old \ {s} = {}
        BY <2>3, <2>8, <3>1
      <4> QED
        BY <2>1, <2>5, <2>7, <3>1, <4>1 DEF AheadAt
    <3>2. CASE j # Len(list)
      <4>1. j + 1 \in 1 .. Len(list)
        BY <2>3, <3>2
      <4>2. thread'[r].dest = list[j + 1] /\ thread'[r].dest \in Block
        BY <2>3, <2>5, <3>2, <4>1
      <4>3. \E i \in 1 .. Len(list) : list[i] = thread'[r].dest
              /\ \A m \in thread'[r].missing : \E k \in i .. Len(list) : list[k] = m
        BY <2>1, <2>8, <4>1, <4>2
      <4> QED
        BY <2>6, <2>7, <4>2, <4>3 DEF AheadAt
    <3> QED
      BY <3>1, <3>2
  <2> QED
    BY <1>0, <2>1, <2>9, AheadStays DEF Ahead
<1>3. ASSUME NEW r \in Resource, SendDone(r) \/ Indicate(r) PROVE Ahead'
  <2>1. thread' = [thread EXCEPT ![r] = Idle] /\ app' = app /\ subs' = subs
    BY <1>3 DEF SendDone, Indicate, Walk, Receive
  <2>2. ~Walking(thread'[r]) /\ \A q \in Resource \ {r} : thread'[q] = thread[q]
    BY <1>0, <2>1, IdleStep DEF Walking
  <2> QED
    BY <1>0, <2>1, <2>2, AheadStays DEF Ahead
<1>4. ASSUME NEW r \in Resource, BeginExternalEvent(r) PROVE Ahead'
  <2>1. /\ app' = app /\ subs' = subs /\ \A q \in Resource \ {r} : thread'[q] = thread[q]
        /\ thread'[r] = thread[r] \/ thread'[r].at = "receive"
    BY <1>0, <1>4, BeginStep
  <2> QED
    BY <1>0, <2>1, AheadStays DEF Ahead, Walking
<1>5. ASSUME NEW r \in Resource, LoadCount(r) \/ StoreCount(r) PROVE Ahead'
  <2>1. /\ app' = app /\ subs' = subs /\ \A q \in Resource \ {r} : thread'[q] = thread[q]
        /\ thread'[r].at \in {"store", "indicate"}
    BY <1>0, <1>5, CountStep
  <2> QED
    BY <1>0, <2>1, AheadStays DEF Ahead, Walking
<1>6. ASSUME NEW b \in Block, Publish(b) PROVE Ahead'
  <2>0. PICK r \in Resource : r = Home(b)
    BY <1>0, HomeType
  <2> DEFINE list == SubList(b)
  <2>1. /\ app' = app /\ subs' = subs /\ \A q \in Resource \ {r} : thread'[q] = thread[q]
        /\ thread'[r].block = b /\ b \in app.publishers
        /\ thread'[r].dest = (IF list = <<>> THEN Nothing ELSE Head(list))
        /\ thread'[r].missing = Range(list)
    BY <1>0, <1>6, <2>0, PublishStep
  <2>2. /\ list \in Seq(app.subscribers \cap open) /\ app.subscribers \subseteq Block
        /\ Len(list) \in Nat /\ DOMAIN list = 1 .. Len(list)
        /\ \A j \in 1 .. Len(list) : list[j] \in Block
    BY <1>0, <2>1, ListType
  <2>3. SubList(thread[r].block)' = list
    BY <2>1 DEF SubList
  <2>4. Nothing \notin Block
    BY LocalAssumption
  <2> HIDE DEF list
  <2>5. CASE list = <<>>
    <3>1. Range(list) = {}
      BY <2>5 DEF Range
    <3> QED
      <4>1. AheadAt(r)'
        BY <2>1, <2>4, <2>5, <3>1 DEF AheadAt
      <4> QED
        BY <1>0, <2>1, <4>1, AheadStays DEF Ahead
  <2>6. CASE list # <<>>
    <3>1. 1 \in 1 .. Len(list) /\ thread'[r].dest = list[1] /\ list[1] \in Block
      BY <2>1, <2>2, <2>6
    <3>2. \A m \in Range(list) : \E k \in 1 .. Len(list) : list[k] = m
      BY <2>2 DEF Range
    <3>3. AheadAt(r)'
      BY <2>1, <2>3, <2>4, <3>1, <3>2 DEF AheadAt
    <3> QED
      BY <1>0, <2>1, <3>3, AheadStays DEF Ahead
  <2> QED
    BY <2>5, <2>6
<1>7. CASE Stays
  BY <1>0, <1>7, AheadStays DEF Ahead, Stays
<1> QED
  BY <1>1, <1>2, <1>3, <1>4, <1>5, <1>6, <1>7, StepKinds, AheadOpen, AheadClose


LEMMA CountsStays ==
  ASSUME NEW q \in Resource, CountsAt(q), count' = count,
         \/ thread'[q] = thread[q] \/ thread'[q].at \notin {"count", "receive", "store"}
  PROVE  CountsAt(q)'
BY DEF CountsAt, At

(* The publisher that counts has its subscriber for itself, and the        *)
(* subscriber takes off what it has found.                                 *)
LEMMA CountsNext ==
  ASSUME QueueInv, [Next]_vars
  PROVE  Counts'
<1>0. /\ Inv /\ count \in [Block -> 0 .. QueueSize] /\ QueueSize \in Nat \ {0}
      /\ \A r \in Resource : CountsAt(r)
      /\ \A r \in Resource : thread[r].number \in Int /\ thread[r].copy \in Int
  BY LocalAssumption DEF QueueInv, Counts, Inv, Shape, ThreadShape
<1>1. ASSUME NEW r \in Resource, Onward(r), ~AddInterrupt(r) PROVE Counts'
  <2>1. /\ \A q \in Resource \ {r} : thread'[q] = thread[q]
        /\ thread[r].dest \in Block /\ thread'[r].at \in Steps
        /\ thread'[r].dest = thread[r].dest
        /\ thread'[r].at = "count" =>
             thread'[r].copy = count[thread[r].dest] /\ count[thread[r].dest] < QueueSize
    BY <1>0, <1>1, OnwardStep
  <2>2. count' = count
    BY <1>1 DEF Onward, LockTarget, SetFirst, SetSecond, WriteData, InterruptCommFB
  <2>3. count[thread[r].dest] \in Int
    BY <1>0, <2>1
  <2>4. CountsAt(r)'
    BY <2>1, <2>2, <2>3 DEF CountsAt, At, Steps
  <2> QED
    BY <1>0, <2>1, <2>2, <2>4, CountsStays DEF Counts
<1>2. ASSUME NEW r \in Resource, AddInterrupt(r) PROVE Counts'
  <2> DEFINE s == thread[r].dest
  <2>1. /\ \A q \in Resource \ {r} : thread'[q] = thread[q]
        /\ s \in Block /\ thread'[r].at # "count" /\ thread'[r].at \in Steps
        /\ thread[r].at = "count"
    <3>1. Onward(r) /\ thread[r].at = "count"
      BY <1>2 DEF Onward, AddInterrupt, At
    <3>2. ~InterruptCommFB(r)
      BY <3>1 DEF InterruptCommFB, At
    <3> QED
      BY <1>0, <3>1, <3>2, OnwardStep
  <2>2. PICK old \in {thread[r].copy, count[s]} : count' = [count EXCEPT ![s] = old + 1]
    BY <1>2 DEF AddInterrupt
  <2>3. /\ thread[r].copy < QueueSize /\ count[s] <= thread[r].copy
    BY <1>0, <2>1 DEF CountsAt, At
  <2>4. old + 1 \in 0 .. QueueSize /\ count[s] <= old + 1 /\ count[s] \in 0 .. QueueSize
    BY <1>0, <2>1, <2>2, <2>3
  <2>5. count' \in [Block -> 0 .. QueueSize]
    BY <1>0, <2>2, <2>4
  <2>6. \A b \in Block : count[b] <= count'[b] /\ (b # s => count'[b] = count[b])
    BY <1>0, <2>1, <2>2, <2>4
  <2>7. CountsAt(r)'
    BY <2>1 DEF CountsAt, At, Steps
  <2>8. ASSUME NEW q \in Resource \ {r} PROVE CountsAt(q)'
    <3>1. thread'[q] = thread[q] /\ CountsAt(q)
      BY <1>0, <2>1
    <3>2. At(q, "count") => thread[q].dest # s
      BY <1>0, <2>1, WriteAlone DEF At, Steps
    <3>3. At(q, "count")' => thread'[q].copy < QueueSize /\ count'[thread'[q].dest] <= thread'[q].copy
      BY <2>6, <3>1, <3>2 DEF CountsAt, At
    <3>4. thread[q].at \in {"receive", "store"} => thread[q].block \in Block
      BY <1>0 DEF Inv, ReceivesAtHome
    <3>5. thread[q].block \in Block => count[thread[q].block] <= count'[thread[q].block]
                                       /\ {count[thread[q].block], count'[thread[q].block]} \subseteq Int
      BY <1>0, <2>5, <2>6
    <3>6. thread[q].copy \in Int /\ thread[q].number \in Int
      BY <1>0
    <3>7. thread'[q].at = "receive" => 1 <= thread'[q].copy /\ thread'[q].copy <= count'[thread'[q].block]
      BY <3>1, <3>4, <3>5, <3>6 DEF CountsAt
    <3>8. thread'[q].at = "store" => /\ 1 <= thread'[q].copy /\ thread'[q].copy <= thread'[q].number
                                     /\ thread'[q].number <= QueueSize
                                     /\ thread'[q].number - thread'[q].copy <= count'[thread'[q].block]
      BY <3>1, <3>4, <3>5, <3>6 DEF CountsAt
    <3> QED
      BY <3>3, <3>7, <3>8 DEF CountsAt
  <2> QED
    BY <2>5, <2>7, <2>8 DEF Counts
<1>3. ASSUME NEW r \in Resource, StartNewEventChain(r) PROVE Counts'
  <2>1. /\ count' = count /\ \A q \in Resource \ {r} : thread'[q] = thread[q]
        /\ thread'[r].at = "send"
    BY <1>0, <1>3, NextSubStep
  <2> QED
    BY <1>0, <2>1, CountsStays DEF Counts
<1>4. ASSUME NEW r \in Resource, SendDone(r) \/ Indicate(r) PROVE Counts'
  <2>1. thread' = [thread EXCEPT ![r] = Idle] /\ count' = count
    BY <1>4 DEF SendDone, Indicate, Walk, Receive
  <2>2. thread'[r].at = "idle" /\ \A q \in Resource \ {r} : thread'[q] = thread[q]
    BY <1>0, <2>1, IdleStep
  <2> QED
    BY <1>0, <2>1, <2>2, CountsStays DEF Counts
<1>5. ASSUME NEW r \in Resource, BeginExternalEvent(r) PROVE Counts'
  <2> DEFINE s == Head(ext[r])
  <2>1. /\ count' = count /\ \A q \in Resource \ {r} : thread'[q] = thread[q]
        /\ s \in Block
        /\ \/ thread'[r] = thread[r]
           \/ /\ count[s] # 0 /\ thread'[r].at = "receive" /\ thread'[r].block = s
              /\ thread'[r].copy = count[s]
    BY <1>0, <1>5, BeginStep
  <2> HIDE DEF s
  <2>2. CountsAt(r)'
    <3>1. CASE thread'[r] = thread[r]
      BY <1>0, <2>1, <3>1, CountsStays
    <3>2. CASE /\ count[s] # 0 /\ thread'[r].at = "receive" /\ thread'[r].block = s
               /\ thread'[r].copy = count[s]
      <4>1. count[s] \in 1 .. QueueSize
        BY <1>0, <2>1, <3>2
      <4> QED
        BY <2>1, <3>2, <4>1 DEF CountsAt, At
    <3> QED
      BY <2>1, <3>1, <3>2
  <2> QED
    BY <1>0, <2>1, <2>2, CountsStays DEF Counts
<1>6. ASSUME NEW r \in Resource, LoadCount(r) \/ StoreCount(r) PROVE Counts'
  <2> DEFINE s == thread[r].block
  <2>1. /\ \A q \in Resource \ {r} : thread'[q] = thread[q]
        /\ s \in Block /\ Home(s) = r /\ thread'[r].block = s
        /\ \/ /\ thread[r].at = "receive" /\ thread'[r].at = "store" /\ count' = count
              /\ thread'[r].number = count[s] /\ thread'[r].copy = thread[r].copy
           \/ /\ thread[r].at = "store" /\ thread'[r].at = "indicate"
              /\ count' = [count EXCEPT ![s] = thread[r].number - thread[r].copy]
    BY <1>0, <1>6, CountStep
  <2>2. CASE /\ thread[r].at = "receive" /\ thread'[r].at = "store" /\ count' = count
             /\ thread'[r].number = count[s] /\ thread'[r].copy = thread[r].copy
    <3>1. 1 <= thread[r].copy /\ thread[r].copy <= count[s]
      BY <1>0, <2>2 DEF CountsAt
    <3>2. count[s] \in 0 .. QueueSize /\ thread[r].copy \in Int
      BY <1>0, <2>1
    <3>3. CountsAt(r)'
      <4>1. count[s] - thread[r].copy <= count[s]
        BY <3>1, <3>2
      <4> QED
        BY <2>1, <2>2, <3>1, <3>2, <4>1 DEF CountsAt, At
    <3> QED
      BY <1>0, <2>1, <2>2, <3>3, CountsStays DEF Counts
  <2>3. CASE /\ thread[r].at = "store" /\ thread'[r].at = "indicate"
             /\ count' = [count EXCEPT ![s] = thread[r].number - thread[r].copy]
    <3>1. /\ 1 <= thread[r].copy /\ thread[r].copy <= thread[r].number
          /\ thread[r].number <= QueueSize /\ thread[r].number - thread[r].copy <= count[s]
      BY <1>0, <2>3 DEF CountsAt
    <3>2. thread[r].copy \in Int /\ thread[r].number \in Int /\ count[s] \in 0 .. QueueSize
      BY <1>0, <2>1
    <3>3. count' \in [Block -> 0 .. QueueSize] /\ count'[s] <= count[s]
      <4>1. thread[r].number - thread[r].copy \in 0 .. QueueSize
        BY <1>0, <3>1, <3>2
      <4> QED
        BY <1>0, <2>1, <2>3, <3>1, <4>1
    <3>4. \A b \in Block \ {s} : count'[b] = count[b]
      BY <1>0, <2>3
    <3>5. CountsAt(r)'
      BY <2>3 DEF CountsAt, At
    <3> HIDE DEF s
    <3>6. ASSUME NEW q \in Resource \ {r} PROVE CountsAt(q)'
      <4>1. thread'[q] = thread[q] /\ CountsAt(q)
        BY <1>0, <2>1
      <4>2. thread[q].at \in {"receive", "store"} => thread[q].block \in Block \ {s}
        BY <1>0, <2>1 DEF Inv, ReceivesAtHome
      <4>3. thread[q].dest \in Block => count'[thread[q].dest] <= count[thread[q].dest]
                                        /\ {count'[thread[q].dest], count[thread[q].dest]} \subseteq Int
        BY <1>0, <3>3, <3>4
      <4>4. thread[q].copy \in Int
        BY <1>0
      <4>5. At(q, "count")' => thread'[q].copy < QueueSize /\ count'[thread'[q].dest] <= thread'[q].copy
        BY <4>1, <4>3, <4>4 DEF CountsAt, At
      <4> QED
        BY <3>4, <4>1, <4>2, <4>5 DEF CountsAt
    <3> QED
      BY <3>3, <3>5, <3>6 DEF Counts
  <2> QED
    BY <2>1, <2>2, <2>3
<1>7. ASSUME NEW b \in Block, Publish(b) PROVE Counts'
  <2>1. PICK r \in Resource : r = Home(b)
    BY <1>0, HomeType DEF Inv, Shape
  <2>2. /\ count' = count /\ \A q \in Resource \ {r} : thread'[q] = thread[q]
        /\ thread'[r].at = "send"
    BY <1>0, <1>7, <2>1, PublishStep
  <2> QED
    BY <1>0, <2>2, CountsStays DEF Counts
<1>8. ASSUME NEW b \in Block, Closes(b) PROVE Counts'
  <2>1. count' = count /\ CloseConnection(b) /\ Gone \notin Block
    BY <1>8, LocalAssumption DEF Closes
  <2>2. ASSUME NEW r \in Resource PROVE CountsAt(r)'
    <3>1. /\ thread'[r].at = thread[r].at /\ thread'[r].block = thread[r].block
          /\ thread'[r].number = thread[r].number /\ thread'[r].copy = thread[r].copy
          /\ thread'[r].dest \in {Gone, thread[r].dest}
      BY <1>0, <2>1, CloseStep
    <3> QED
      BY <1>0, <2>1, <3>1 DEF CountsAt, At
  <2> QED
    BY <1>0, <2>1, <2>2 DEF Counts
<1>9. CASE Stays \/ \E b \in Block : OpenConnection(b)
  <2>1. thread' = thread /\ count' = count
    BY <1>9 DEF Stays, OpenConnection, Executes
  <2> QED
    BY <1>0, <2>1, CountsStays DEF Counts
<1> QED
  BY <1>1, <1>2, <1>3, <1>4, <1>5, <1>6, <1>7, <1>8, <1>9, StepKinds

(* Faults are remembered.                                                  *)
LEMMA FaultsGrow ==
  ASSUME [Next]_vars
  PROVE  faults \subseteq faults'
BY StepKinds DEF Onward, LockTarget, SetFirst, SetSecond, WriteData, InterruptCommFB, AddInterrupt,
   StartNewEventChain, SendDone, BeginExternalEvent, Indicate, LoadCount, StoreCount, RaceIf,
   Publish, OpenConnection, Executes, Closes, Stays

(* An interrupt that is added is counted, and takes no other away.         *)
LEMMA AddedCount ==
  ASSUME QueueInv, NEW r \in Resource, AddInterrupt(r)
  PROVE  /\ count'[thread[r].dest] > 0
         /\ \A b \in Block : count[b] > 0 => count'[b] > 0
<1> DEFINE s == thread[r].dest
<1>1. At(r, "count") /\ s \in Block
  BY DEF AddInterrupt, At
<1>2. PICK old \in {thread[r].copy, count[s]} : count' = [count EXCEPT ![s] = old + 1]
  BY DEF AddInterrupt
<1>3. count \in [Block -> 0 .. QueueSize] /\ count[s] <= thread[r].copy
  BY <1>1 DEF QueueInv, Counts, CountsAt
<1>4. thread[r].copy \in Int /\ QueueSize \in Nat
  BY LocalAssumption DEF QueueInv, Inv, Shape, ThreadShape
<1>5. old + 1 > 0
  BY <1>1, <1>2, <1>3, <1>4
<1>6. count'[s] = old + 1 /\ \A b \in Block \ {s} : count'[b] = count[b]
  BY <1>1, <1>2, <1>3
<1> QED
  BY <1>5, <1>6

(* A step of a thread that is not about to hand its data over.             *)
LEMMA CountedMove ==
  ASSUME Inv, Counted, NEW r \in Resource, app' = app, faults \subseteq faults',
         thread[r].at # "indicate", \A q \in Resource \ {r} : thread'[q] = thread[q],
         \A b \in Block : count[b] > 0 => count'[b] > 0, CountedAt(r)'
  PROVE  Counted'
<1> SUFFICES ASSUME NEW q \in Resource \ {r} PROVE CountedAt(q)'
  BY DEF Counted
<1>1. CountedAt(q) /\ thread'[q] = thread[q]
  BY DEF Counted
<1>2. thread[q].dest \in Block => Home(thread[q].dest) \in Resource
  BY HomeType DEF Inv, Shape
<1>3. thread[q].dest \in Block /\ IndicatesNext(thread[q].dest) => IndicatesNext(thread[q].dest)'
  BY <1>1, <1>2 DEF IndicatesNext, Home
<1> QED
  BY <1>1, <1>3 DEF CountedAt, At

(* A publisher that finds the queue full finds interrupts in it.           *)
LEMMA CountedNext ==
  ASSUME QueueInv, [Next]_vars
  PROVE  Counted'
<1>0. /\ Inv /\ Counted /\ faults \subseteq faults' /\ app \in Applications
      /\ count \in [Block -> 0 .. QueueSize] /\ QueueSize \in Nat \ {0}
  BY FaultsGrow, LocalAssumption DEF QueueInv, Counts, Inv, Shape
<1>1. ASSUME NEW r \in Resource, Onward(r) PROVE Counted'
  <2> DEFINE s == thread[r].dest
  <2>1. /\ app' = app /\ \A q \in Resource \ {r} : thread'[q] = thread[q]
        /\ thread[r].at # "indicate" /\ s \in Block /\ thread'[r].dest = s
        /\ InterruptCommFB(r) /\ thread'[r].at # "count" => ~(count[s] < QueueSize)
    BY <1>0, <1>1, OnwardStep
  <2>2. CASE AddInterrupt(r)
    <3>1. count'[s] > 0 /\ \A b \in Block : count[b] > 0 => count'[b] > 0
      BY <2>2, AddedCount
    <3>2. CountedAt(r)'
      BY <2>1, <3>1 DEF CountedAt
    <3> QED
      BY <1>0, <2>1, <3>1, <3>2, CountedMove
  <2>3. CASE InterruptCommFB(r)
    <3>1. count' = count
      BY <2>3 DEF InterruptCommFB
    <3>2. thread'[r].at # "count" => count[s] > 0
      BY <1>0, <2>1, <2>3
    <3>3. CountedAt(r)'
      BY <2>1, <3>1, <3>2 DEF CountedAt, At
    <3> QED
      BY <1>0, <2>1, <3>1, <3>3, CountedMove
  <2>4. CASE LockTarget(r) \/ SetFirst(r) \/ SetSecond(r)
    <3>1. count' = count /\ (Goes(r, "write") \/ Goes(r, "half") \/ Goes(r, "interrupt"))
      BY <2>4 DEF LockTarget, SetFirst, SetSecond, WriteData
    <3>2. ThreadShape
      BY <1>0 DEF Inv, Shape
    <3>3. thread'[r].at \in {"write", "half", "interrupt"}
      BY <3>1, <3>2, GoesStep
    <3>4. CountedAt(r)'
      BY <3>3 DEF CountedAt, At
    <3> QED
      BY <1>0, <2>1, <3>1, <3>4, CountedMove
  <2> QED
    BY <1>1, <2>2, <2>3, <2>4 DEF Onward
<1>2. ASSUME NEW r \in Resource, StartNewEventChain(r) PROVE Counted'
  <2>1. /\ app' = app /\ \A q \in Resource \ {r} : thread'[q] = thread[q]
        /\ thread[r].at # "indicate" /\ thread'[r].at = "send" /\ count' = count
    BY <1>0, <1>2, NextSubStep
  <2>2. CountedAt(r)'
    BY <2>1 DEF CountedAt, At
  <2> QED
    BY <1>0, <2>1, <2>2, CountedMove
<1>3. ASSUME NEW r \in Resource, SendDone(r) PROVE Counted'
  <2>1. /\ thread' = [thread EXCEPT ![r] = Idle] /\ app' = app /\ count' = count
        /\ thread[r].at # "indicate"
    BY <1>3 DEF SendDone, Walk
  <2>2. thread'[r].at = "idle" /\ \A q \in Resource \ {r} : thread'[q] = thread[q]
    BY <1>0, <2>1, IdleStep
  <2>3. CountedAt(r)'
    BY <2>2 DEF CountedAt, At
  <2> QED
    BY <1>0, <2>1, <2>2, <2>3, CountedMove
<1>4. ASSUME NEW r \in Resource, Indicate(r) PROVE Counted'
  <2>1. /\ thread' = [thread EXCEPT ![r] = Idle] /\ app' = app /\ count' = count
        /\ holder[r] = Nobody
    BY <1>4 DEF Indicate, Receive
  <2>2. thread'[r].at = "idle" /\ \A q \in Resource \ {r} : thread'[q] = thread[q]
    BY <1>0, <2>1, IdleStep
  <2> SUFFICES ASSUME NEW q \in Resource, At(q, "event")'
               PROVE  CountedAt(q)'
    BY DEF Counted, CountedAt
  <2>3. q # r /\ thread'[q] = thread[q] /\ At(q, "event") /\ CountedAt(q)
    BY <1>0, <2>2 DEF At, Counted
  <2>4. holder[Target(q)] = q /\ Nobody \notin Resource
    BY <1>0, <2>3, LocalAssumption DEF Inv, TargetLock, At, Steps
  <2>5. Target(q) \in Resource \ {r}
    BY <1>0, <2>1, <2>3, <2>4, HomeType DEF Target, At
  <2> QED
    BY <1>0, <2>1, <2>2, <2>3, <2>5 DEF CountedAt, IndicatesNext, Home, Target
<1>5. ASSUME NEW r \in Resource, BeginExternalEvent(r) PROVE Counted'
  <2>1. /\ app' = app /\ \A q \in Resource \ {r} : thread'[q] = thread[q]
        /\ thread[r].at = "idle" /\ count' = count
        /\ thread'[r] = thread[r] \/ thread'[r].at = "receive"
    BY <1>0, <1>5, BeginStep
  <2>2. CountedAt(r)'
    BY <2>1 DEF CountedAt, At
  <2> QED
    BY <1>0, <2>1, <2>2, CountedMove
<1>6. ASSUME NEW r \in Resource, LoadCount(r) \/ StoreCount(r) PROVE Counted'
  <2>0. PICK s \in Block : s = thread[r].block
    BY <1>0, <1>6, CountStep
  <2>1. /\ app' = app /\ \A q \in Resource \ {r} : thread'[q] = thread[q]
        /\ Home(s) = r /\ thread'[r].block = s
        /\ \/ thread[r].at = "receive" /\ thread'[r].at = "store" /\ count' = count
           \/ /\ thread[r].at = "store" /\ thread'[r].at = "indicate"
              /\ count' = [count EXCEPT ![s] = thread[r].number - thread[r].copy]
    BY <1>0, <1>6, <2>0, CountStep
  <2>2. ASSUME NEW q \in Resource PROVE CountedAt(q)'
    <3>1. q # r => thread'[q] = thread[q] /\ CountedAt(q)
      BY <1>0, <2>1 DEF Counted
    <3>2. q = r => CountedAt(q)'
      BY <2>1 DEF CountedAt, At
    <3>3. ASSUME NEW b \in Block, count[b] > 0 \/ IndicatesNext(b)
          PROVE  count'[b] > 0 \/ IndicatesNext(b)'
      <4>1. Home(b) \in Resource /\ Home(b)' = Home(b)
        BY <1>0, <2>1, HomeType DEF Home
      <4>2. IndicatesNext(b) => IndicatesNext(b)'
        BY <2>1, <4>1 DEF IndicatesNext
      <4>3. thread'[r].at = "indicate" => IndicatesNext(s)'
        BY <2>1 DEF IndicatesNext, Home
      <4>4. b # s => count'[b] = count[b]
        BY <1>0, <2>1
      <4> QED
        BY <2>1, <3>3, <4>2, <4>3, <4>4
    <3>4. ASSUME q # r, At(q, "event")'
          PROVE  \E b \in Block : b = thread[q].dest /\ b = thread'[q].dest
      BY <3>1, <3>4 DEF At
    <3> QED
      BY <1>0, <3>1, <3>2, <3>3, <3>4 DEF CountedAt, At
  <2> QED
    BY <2>2 DEF Counted
<1>7. ASSUME NEW b \in Block, Publish(b) PROVE Counted'
  <2>1. PICK r \in Resource : r = Home(b)
    BY <1>0, HomeType
  <2>2. /\ count' = count /\ app' = app /\ \A q \in Resource \ {r} : thread'[q] = thread[q]
        /\ thread[r].at = "idle" /\ thread'[r].at = "send"
    BY <1>0, <1>7, <2>1, PublishStep
  <2>3. CountedAt(r)'
    BY <2>2 DEF CountedAt, At
  <2> QED
    BY <1>0, <2>2, <2>3, CountedMove
<1>8. ASSUME NEW b \in Block, Closes(b) PROVE Counted'
  <2>1. count' = count /\ app' = app /\ CloseConnection(b) /\ Gone \notin Block
    BY <1>8, LocalAssumption DEF Closes
  <2>2. \A r \in Resource : /\ thread'[r].at = thread[r].at /\ thread'[r].block = thread[r].block
                            /\ thread'[r].dest \in {Gone, thread[r].dest}
    BY <1>0, <2>1, CloseStep
  <2>3. ASSUME NEW r \in Resource PROVE CountedAt(r)'
    <3>1. At(r, "event")' => At(r, "event") /\ thread'[r].dest = thread[r].dest
      BY <2>1, <2>2 DEF At
    <3>2. \A s \in Block : IndicatesNext(s) => IndicatesNext(s)'
      BY <1>0, <2>1, <2>2, HomeType DEF IndicatesNext, Home
    <3>3. At(r, "event")' => thread'[r].dest \in Block
      BY DEF At
    <3> QED
      BY <1>0, <2>1, <3>1, <3>2, <3>3 DEF Counted, CountedAt
  <2> QED
    BY <2>3 DEF Counted
<1>9. CASE Stays \/ \E b \in Block : OpenConnection(b)
  <2>1. thread' = thread /\ count' = count /\ app' = app
    BY <1>9 DEF Stays, OpenConnection, Executes
  <2> QED
    BY <1>0, <2>1 DEF Counted, CountedAt, IndicatesNext, Home, At
<1> QED
  BY <1>1, <1>2, <1>3, <1>4, <1>5, <1>6, <1>7, <1>8, <1>9, StepKinds

(* What stays announced, when no event and no interrupt is taken away.     *)
LEMMA InformedStays ==
  ASSUME Inv, NEW s \in Block, Announced(s) \/ seen[s] = rd[s],
         app' = app, faults \subseteq faults', seen'[s] = seen[s], rd'[s] = rd[s],
         Range(ext[Home(s)]) \subseteq Range(ext'[Home(s)]), count[s] > 0 => count'[s] > 0,
         \A r \in Resource : /\ thread[r].block = s => thread'[r].block = s
                             /\ Announces(r, s) => Announces(r, s)'
  PROVE  Announced(s)' \/ (seen[s] = rd[s])'
<1>1. Home(s) \in Resource /\ Home(s)' = Home(s)
  BY HomeType DEF Inv, Shape, Home
<1>2. CASE \E r \in Resource : Announces(r, s)
  BY <1>2 DEF Announced
<1>3. CASE ~\E r \in Resource : Announces(r, s)
  BY <1>1, <1>3 DEF Announced
<1> QED
  BY <1>2, <1>3

LEMMA RangeAppend ==
  ASSUME NEW S, NEW q \in Seq(S), NEW s \in S
  PROVE  Range(Append(q, s)) = Range(q) \cup {s}
<1>1. /\ Len(q) \in Nat /\ DOMAIN q = 1 .. Len(q) /\ DOMAIN Append(q, s) = 1 .. Len(q) + 1
      /\ Append(q, s)[Len(q) + 1] = s
      /\ \A i \in 1 .. Len(q) : Append(q, s)[i] = q[i]
  OBVIOUS
<1>2. \A i \in 1 .. Len(q) + 1 : i \in 1 .. Len(q) \/ i = Len(q) + 1
  BY <1>1
<1>3. ASSUME NEW x \in Range(Append(q, s)) PROVE x \in Range(q) \cup {s}
  BY <1>1, <1>2 DEF Range
<1>4. ASSUME NEW x \in Range(q) PROVE x \in Range(Append(q, s))
  <2>1. PICK i \in 1 .. Len(q) : q[i] = x
    BY <1>1, <1>4 DEF Range
  <2>2. i \in 1 .. Len(q) + 1
    BY <1>1
  <2> QED
    BY <1>1, <2>1, <2>2 DEF Range
<1>5. s \in Range(Append(q, s))
  <2>1. Len(q) + 1 \in 1 .. Len(q) + 1
    BY <1>1
  <2> QED
    BY <1>1, <2>1 DEF Range
<1> QED
  BY <1>3, <1>4, <1>5

LEMMA RangeTail ==
  ASSUME NEW S, NEW q \in Seq(S), q # <<>>
  PROVE  Range(q) \subseteq Range(Tail(q)) \cup {Head(q)}
<1>1. /\ Len(q) \in Nat \ {0} /\ DOMAIN q = 1 .. Len(q) /\ DOMAIN Tail(q) = 1 .. Len(q) - 1
      /\ Head(q) = q[1] /\ \A i \in 1 .. Len(q) - 1 : Tail(q)[i] = q[i + 1]
  OBVIOUS
<1> SUFFICES ASSUME NEW x \in Range(q), x # Head(q) PROVE x \in Range(Tail(q))
  OBVIOUS
<1>2. PICK i \in 1 .. Len(q) : q[i] = x
  BY <1>1 DEF Range
<1>3. i - 1 \in 1 .. Len(q) - 1 /\ (i - 1) + 1 = i
  BY <1>1, <1>2
<1>4. Tail(q)[i - 1] = x
  BY <1>1, <1>2, <1>3
<1> QED
  BY <1>1, <1>3, <1>4 DEF Range

(* The walk's steps tell the subscriber of what they write.                *)
LEMMA InformedOnward ==
  ASSUME QueueInv, [Next]_vars, NEW r \in Resource, Onward(r)
  PROVE  Informed'
<1>0. Inv /\ Informed /\ app \in Applications /\ faults \subseteq faults'
  BY FaultsGrow DEF QueueInv, Inv, Shape
<1> DEFINE d == thread[r].dest
<1>1. /\ UNCHANGED <<app, seen, ext>> /\ \A q \in Resource \ {r} : thread'[q] = thread[q]
      /\ d \in Block /\ thread'[r].at \in Steps
      /\ thread'[r].dest = d /\ thread'[r].block = thread[r].block
  BY <1>0, OnwardStep
<1>2. \A b \in Block \ {d} : rd'[b] = rd[b]
  <2>1. rd \in [Block -> [1 .. 2 -> Int]]
    BY <1>0 DEF Inv, Shape
  <2> QED
    BY <2>1 DEF Onward, LockTarget, SetFirst, SetSecond, WriteData, InterruptCommFB, AddInterrupt
<1>3. \A b \in Block : count[b] > 0 => count'[b] > 0
  <2>1. CASE AddInterrupt(r)
    BY <2>1, AddedCount
  <2>2. CASE ~AddInterrupt(r)
    BY <2>2 DEF Onward, LockTarget, SetFirst, SetSecond, WriteData, InterruptCommFB
  <2> QED
    BY <2>1, <2>2
<1> HIDE DEF d
<1> SUFFICES ASSUME NEW s \in app'.subscribers PROVE Announced(s)' \/ (seen[s] = rd[s])'
  BY DEF Informed
<1>4. s \in app.subscribers /\ s \in Block
  BY <1>0, <1>1, LocalAssumption
<1>5. CASE s = d
  <2>1. Announces(r, s)'
    BY <1>1, <1>5 DEF Announces, Steps
  <2> QED
    BY <2>1 DEF Announced
<1>6. CASE s # d
  <2>1. \A q \in Resource : /\ thread[q].block = s => thread'[q].block = s
                            /\ Announces(q, s) => Announces(q, s)'
    BY <1>1, <1>6 DEF Announces, d, Steps
  <2>2. Announced(s) \/ seen[s] = rd[s]
    BY <1>0, <1>4 DEF Informed
  <2>3. Range(ext[Home(s)]) \subseteq Range(ext'[Home(s)]) /\ seen'[s] = seen[s] /\ rd'[s] = rd[s]
    BY <1>1, <1>2, <1>4, <1>6
  <2> QED
    BY <1>0, <1>1, <1>3, <1>4, <2>1, <2>2, <2>3, InformedStays
<1> QED
  BY <1>5, <1>6

LEMMA InformedStart ==
  ASSUME QueueInv, [Next]_vars, NEW r \in Resource, StartNewEventChain(r)
  PROVE  Informed'
<1>0. /\ Inv /\ Informed /\ app \in Applications /\ faults \subseteq faults'
      /\ ext \in [Resource -> Seq(Block)] /\ CountedAt(r)
  BY FaultsGrow DEF QueueInv, Counted, Inv, Shape
<1>1. PICK d \in Block : d = thread[r].dest
  BY <1>0, NextSubStep
<1>2. PICK q \in Resource : q = Home(d)
  BY <1>0, HomeType
<1>3. /\ UNCHANGED <<app, rd, seen, count>> /\ \A u \in Resource \ {r} : thread'[u] = thread[u]
      /\ thread[r].at = "event" /\ thread'[r].block = thread[r].block
  BY <1>0, NextSubStep
<1>4. \/ ext' = [ext EXCEPT ![q] = Append(ext[q], d)]
      \/ ext' = ext /\ faults' # {}
  BY <1>1, <1>2 DEF StartNewEventChain, Target
<1>5. /\ \A u \in Resource : Range(ext[u]) \subseteq Range(ext'[u])
      /\ d \in Range(ext'[q]) \/ faults' # {}
  <2>1. CASE ext' = ext /\ faults' # {}
    BY <2>1
  <2>2. CASE ext' = [ext EXCEPT ![q] = Append(ext[q], d)]
    <3>1. ext'[q] = Append(ext[q], d) /\ \A u \in Resource \ {q} : ext'[u] = ext[u]
      BY <1>0, <2>2
    <3>2. Range(ext'[q]) = Range(ext[q]) \cup {d}
      BY <1>0, <3>1, RangeAppend
    <3> QED
      BY <3>1, <3>2
  <2> QED
    BY <1>4, <2>1, <2>2
<1> SUFFICES ASSUME NEW s \in app'.subscribers PROVE Announced(s)' \/ (seen[s] = rd[s])'
  BY DEF Informed
<1>6. s \in app.subscribers /\ s \in Block
  BY <1>0, <1>3, LocalAssumption
<1>7. CASE s = d
  <2>1. Home(s)' = q
    BY <1>2, <1>3, <1>7 DEF Home
  <2>2. faults # {} \/ count[s] > 0 \/ thread'[q].block = s
    <3>1. faults # {} \/ count[s] > 0 \/ (thread[q].at = "indicate" /\ thread[q].block = s)
      BY <1>0, <1>1, <1>2, <1>3, <1>7 DEF CountedAt, At, IndicatesNext
    <3> QED
      BY <1>3, <3>1
  <2>3. faults # {} => faults' # {}
    BY <1>0
  <2> QED
    BY <1>3, <1>5, <1>7, <2>1, <2>2, <2>3 DEF Announced
<1>8. CASE s # d
  <2>1. Gone \notin Block
    BY LocalAssumption
  <2>2. \A u \in Resource : /\ thread[u].block = s => thread'[u].block = s
                            /\ Announces(u, s) => Announces(u, s)'
    BY <1>1, <1>3, <1>8, <2>1 DEF Announces
  <2>3. Announced(s) \/ seen[s] = rd[s]
    BY <1>0, <1>6 DEF Informed
  <2>4. Home(s) \in Resource
    BY <1>0, <1>6, HomeType
  <2> QED
    BY <1>0, <1>3, <1>5, <1>6, <2>2, <2>3, <2>4, InformedStays
<1> QED
  BY <1>7, <1>8

(* An event that is taken begins the execution that hands the data over,   *)
(* unless it finds no interrupt: then it is not the one that announces.    *)
LEMMA InformedBegin ==
  ASSUME QueueInv, [Next]_vars, NEW r \in Resource, BeginExternalEvent(r)
  PROVE  Informed'
<1>0. /\ Inv /\ Informed /\ app \in Applications /\ faults \subseteq faults'
      /\ ext \in [Resource -> Seq(Block)] /\ Placed(r)
      /\ Gone \notin Block /\ Nothing \notin Block /\ Gone # Nothing
      /\ \A b \in Block : count[b] \in 0 .. QueueSize
  BY FaultsGrow, LocalAssumption DEF QueueInv, Places, Counts, Inv, Shape
<1>1. PICK h \in Block : h = Head(ext[r])
  BY <1>0, BeginStep
<1>2. /\ UNCHANGED <<app, rd, seen, count>> /\ \A u \in Resource \ {r} : thread'[u] = thread[u]
      /\ thread[r].at = "idle" /\ ext[r] # <<>> /\ ext' = [ext EXCEPT ![r] = Tail(ext[r])]
      /\ Home(h) = r
      /\ \/ faults' = faults \cup {"lost"}
         \/ count[h] = 0 /\ thread'[r] = thread[r]
         \/ thread'[r].block = h
  BY <1>0, <1>1, BeginStep
<1>3. thread[r].block = Nothing /\ thread[r].dest = Nothing
  BY <1>0, <1>2 DEF Placed, Walking
<1>4. Range(ext[r]) \subseteq Range(ext'[r]) \cup {h}
  <2>1. ext'[r] = Tail(ext[r])
    BY <1>0, <1>2
  <2> QED
    BY <1>0, <1>1, <1>2, <2>1, RangeTail
<1>5. \A u \in Resource \ {r} : ext'[u] = ext[u]
  BY <1>0, <1>2
<1> SUFFICES ASSUME NEW s \in app'.subscribers, faults' = {}
             PROVE  Announced(s)' \/ (seen[s] = rd[s])'
  BY DEF Informed, Announced
<1>6. s \in app.subscribers /\ s \in Block /\ Home(s)' = Home(s) /\ Home(s) \in Resource
  BY <1>0, <1>2, LocalAssumption, HomeType DEF Home
<1>7. CASE thread'[r].block = s /\ Home(s) = r
  BY <1>6, <1>7 DEF Announced
<1>8. CASE ~(thread'[r].block = s /\ Home(s) = r)
  <2>1. CASE s \in Range(ext[Home(s)]) /\ count[s] > 0
    <3>1. s = h => count[s] = 0
      BY <1>2, <1>8
    <3>2. s # h
      BY <1>0, <1>6, <2>1, <3>1
    <3>3. s \in Range(ext'[Home(s)])
      BY <1>4, <1>5, <1>6, <2>1, <3>2
    <3> QED
      BY <1>2, <1>6, <2>1, <3>3 DEF Announced
  <2>2. CASE thread[Home(s)].block = s
    <3>1. Home(s) # r
      BY <1>0, <1>3, <1>6, <2>2
    <3> QED
      BY <1>2, <1>6, <2>2, <3>1 DEF Announced
  <2>3. CASE \E u \in Resource : Announces(u, s)
    <3>1. PICK u \in Resource : Announces(u, s)
      BY <2>3
    <3>2. u # r
      BY <1>0, <1>3, <1>6, <3>1 DEF Announces
    <3>3. Announces(u, s)'
      BY <1>2, <3>1, <3>2 DEF Announces
    <3> QED
      BY <3>3 DEF Announced
  <2>4. CASE seen[s] = rd[s]
    BY <1>2, <2>4
  <2>5. faults = {}
    BY <1>0
  <2> QED
    BY <1>0, <1>6, <2>1, <2>2, <2>3, <2>4, <2>5 DEF Informed, Announced
<1> QED
  BY <1>7, <1>8

LEMMA InformedNext ==
  ASSUME QueueInv, [Next]_vars
  PROVE  Informed'
<1>0. /\ Inv /\ Informed /\ app \in Applications /\ faults \subseteq faults'
      /\ \A r \in Resource : Placed(r)
      /\ Gone \notin Block /\ Nothing \notin Block /\ Gone # Nothing
      /\ app.subscribers \subseteq Block /\ app.publishers \cap app.subscribers = {}
      /\ \A b \in Block : Home(b) \in Resource
  BY FaultsGrow, LocalAssumption, HomeType DEF QueueInv, Places, Inv, Shape
<1>1. ASSUME NEW r \in Resource, SendDone(r) PROVE Informed'
  <2>1. /\ thread' = [thread EXCEPT ![r] = Idle] /\ UNCHANGED <<app, rd, seen, count, ext>>
        /\ thread[r].at = "send" /\ thread[r].dest = Nothing
    BY <1>1 DEF SendDone, Walk
  <2>2. \A q \in Resource \ {r} : thread'[q] = thread[q]
    BY <1>0, <2>1, IdleStep
  <2>3. thread[r].block \in app.publishers
    BY <1>0, <2>1 DEF Placed, Walking
  <2> SUFFICES ASSUME NEW s \in app'.subscribers PROVE Announced(s)' \/ (seen[s] = rd[s])'
    BY DEF Informed
  <2>4. s \in app.subscribers /\ s \in Block
    BY <1>0, <2>1
  <2>5. \A q \in Resource : /\ thread[q].block = s => thread'[q].block = s
                            /\ Announces(q, s) => Announces(q, s)'
    BY <1>0, <2>1, <2>2, <2>3, <2>4 DEF Announces
  <2> QED
    BY <1>0, <2>1, <2>4, <2>5, InformedStays DEF Informed
<1>2. ASSUME NEW r \in Resource, Indicate(r) PROVE Informed'
  <2> DEFINE d == thread[r].block
  <2>1. /\ thread' = [thread EXCEPT ![r] = Idle] /\ UNCHANGED <<app, rd, count, ext>>
        /\ thread[r].at = "indicate" /\ seen' = [seen EXCEPT ![d] = rd[d]]
    BY <1>2 DEF Indicate, Receive
  <2>2. \A q \in Resource \ {r} : thread'[q] = thread[q]
    BY <1>0, <2>1, IdleStep
  <2>3. d \in Block /\ thread[r].dest = Nothing /\ seen \in [Block -> [1 .. 2 -> Int]]
    BY <1>0, <2>1 DEF Placed, Walking, Inv, ReceivesAtHome, Shape
  <2>4. seen'[d] = rd[d] /\ \A b \in Block \ {d} : seen'[b] = seen[b]
    BY <2>1, <2>3
  <2> HIDE DEF d
  <2> SUFFICES ASSUME NEW s \in app'.subscribers PROVE Announced(s)' \/ (seen[s] = rd[s])'
    BY DEF Informed
  <2>5. s \in app.subscribers /\ s \in Block
    BY <1>0, <2>1
  <2>6. CASE s = d
    BY <2>1, <2>4, <2>6
  <2>7. CASE s # d
    <3>1. \A q \in Resource : /\ thread[q].block = s => thread'[q].block = s
                              /\ Announces(q, s) => Announces(q, s)'
      BY <1>0, <2>2, <2>3, <2>5, <2>7 DEF Announces, d
    <3>2. seen'[s] = seen[s]
      BY <2>4, <2>5, <2>7
    <3> QED
      BY <1>0, <2>1, <2>5, <3>1, <3>2, InformedStays DEF Informed
  <2> QED
    BY <2>6, <2>7
<1>3. ASSUME NEW r \in Resource, LoadCount(r) \/ StoreCount(r) PROVE Informed'
  <2>0. PICK d \in Block : d = thread[r].block
    BY <1>0, <1>3, CountStep
  <2>1. /\ UNCHANGED <<app, rd, seen, ext>> /\ \A q \in Resource \ {r} : thread'[q] = thread[q]
        /\ Home(d) = r /\ thread'[r].block = d /\ thread[r].at \in {"receive", "store"}
        /\ count' = count \/ count' = [count EXCEPT ![d] = thread[r].number - thread[r].copy]
    BY <1>0, <1>3, <2>0, CountStep
  <2>2. thread[r].dest = Nothing
    BY <1>0, <2>1 DEF Placed, Walking
  <2>3. \A b \in Block \ {d} : count'[b] = count[b]
    BY <1>0, <2>1 DEF Inv, Shape
  <2> SUFFICES ASSUME NEW s \in app'.subscribers PROVE Announced(s)' \/ (seen[s] = rd[s])'
    BY DEF Informed
  <2>4. s \in app.subscribers /\ s \in Block
    BY <1>0, <2>1
  <2>5. CASE s = d
    BY <2>1, <2>5 DEF Announced, Home
  <2>6. CASE s # d
    <3>1. \A q \in Resource : /\ thread[q].block = s => thread'[q].block = s
                              /\ Announces(q, s) => Announces(q, s)'
      BY <1>0, <2>0, <2>1, <2>2, <2>4 DEF Announces
    <3> QED
      BY <1>0, <2>1, <2>3, <2>4, <2>6, <3>1, InformedStays DEF Informed
  <2> QED
    BY <2>5, <2>6
<1>4. ASSUME NEW b \in Block, Publish(b) PROVE Informed'
  <2>0. PICK r \in Resource : r = Home(b)
    BY <1>0
  <2>1. /\ UNCHANGED <<app, rd, seen, count, ext>> /\ \A q \in Resource \ {r} : thread'[q] = thread[q]
        /\ thread[r].at = "idle"
    BY <1>0, <1>4, <2>0, PublishStep
  <2>2. thread[r].dest = Nothing /\ thread[r].block = Nothing
    BY <1>0, <2>1 DEF Placed, Walking
  <2> SUFFICES ASSUME NEW s \in app'.subscribers PROVE Announced(s)' \/ (seen[s] = rd[s])'
    BY DEF Informed
  <2>3. s \in app.subscribers /\ s \in Block
    BY <1>0, <2>1
  <2>4. \A q \in Resource : /\ thread[q].block = s => thread'[q].block = s
                            /\ Announces(q, s) => Announces(q, s)'
    BY <1>0, <2>1, <2>2, <2>3 DEF Announces
  <2> QED
    BY <1>0, <2>1, <2>3, <2>4, InformedStays DEF Informed
<1>5. ASSUME NEW b \in Block, Closes(b) PROVE Informed'
  <2>1. UNCHANGED <<app, rd, seen, count, ext>> /\ CloseConnection(b)
    BY <1>5 DEF Closes
  <2>2. \A r \in Resource : /\ thread'[r].at = thread[r].at /\ thread'[r].block = thread[r].block
                            /\ thread'[r].dest \in {Gone, thread[r].dest}
    BY <1>0, <2>1, CloseStep
  <2> SUFFICES ASSUME NEW s \in app'.subscribers PROVE Announced(s)' \/ (seen[s] = rd[s])'
    BY DEF Informed
  <2>3. s \in app.subscribers /\ s \in Block
    BY <1>0, <2>1
  <2>4. \A q \in Resource : /\ thread[q].block = s => thread'[q].block = s
                            /\ Announces(q, s) => Announces(q, s)'
    BY <2>2 DEF Announces
  <2> QED
    BY <1>0, <2>1, <2>3, <2>4, InformedStays DEF Informed
<1>6. CASE Stays \/ \E b \in Block : OpenConnection(b)
  <2>1. UNCHANGED <<app, rd, seen, count, ext, thread>>
    BY <1>6 DEF Stays, OpenConnection, Executes
  <2> SUFFICES ASSUME NEW s \in app'.subscribers PROVE Announced(s)' \/ (seen[s] = rd[s])'
    BY DEF Informed
  <2>2. s \in app.subscribers /\ s \in Block
    BY <1>0, <2>1
  <2>3. \A q \in Resource : /\ thread[q].block = s => thread'[q].block = s
                            /\ Announces(q, s) => Announces(q, s)'
    BY <2>1 DEF Announces
  <2> QED
    BY <1>0, <2>1, <2>2, <2>3, InformedStays DEF Informed
<1> QED
  BY <1>1, <1>2, <1>3, <1>4, <1>5, <1>6, StepKinds, InformedOnward, InformedStart, InformedBegin

-----------------------------------------------------------------------------

LEMMA InitQueueInv == Init => QueueInv
<1> SUFFICES ASSUME Init PROVE QueueInv
  OBVIOUS
<1>1. Inv
  BY InitInv
<1>2. \A r \in Resource : thread[r] = Idle /\ ext[r] = <<>>
  BY DEF Init
<1>3. Places /\ Ahead /\ Counted
  <2>1. \A r \in Resource : Placed(r) /\ AheadAt(r) /\ CountedAt(r)
    BY <1>2 DEF Placed, AheadAt, CountedAt, At, Idle, Walking, Steps
  <2> QED
    BY <2>1 DEF Places, Ahead, Counted
<1>4. Members
  <2>1. <<>> \in Seq(app.subscribers \cap open) /\ DOMAIN <<>> = {}
    OBVIOUS
  <2>2. IsInjective(<<>>)
    BY <2>1 DEF IsInjective
  <2> QED
    BY <2>1, <2>2 DEF Init, Members
<1>5. Bounds
  <2>1. Zero \in [1 .. 2 -> 0 .. MaxPublished] /\ 0 \in 0 .. MaxPublished
    BY LocalAssumption DEF Zero
  <2>2. \A r \in Resource : Len(ext[r]) <= ExternalLimit
    BY <1>2, LocalAssumption
  <2> QED
    BY <2>1, <2>2 DEF Init, Bounds
<1>6. Counts
  <2>1. \A r \in Resource : CountsAt(r)
    BY <1>2 DEF CountsAt, At, Idle
  <2> QED
    BY <2>1, LocalAssumption DEF Init, Counts
<1>7. Informed
  BY DEF Init, Informed
<1> QED
  BY <1>1, <1>3, <1>4, <1>5, <1>6, <1>7 DEF QueueInv

LEMMA QueueNext == QueueInv /\ [Next]_vars => QueueInv'
<1> SUFFICES ASSUME QueueInv, [Next]_vars PROVE QueueInv'
  OBVIOUS
<1>1. Inv'
  BY NextInv DEF QueueInv
<1> QED
  BY <1>1, PlacesNext, MembersNext, BoundsNext, AheadNext, CountsNext, CountedNext, InformedNext
     DEF QueueInv

LEMMA QueueInvType == QueueInv => TypeOK
<1> SUFFICES ASSUME QueueInv PROVE TypeOK
  OBVIOUS
<1>1. ASSUME NEW g \in Group
      PROVE  Range(subs[g]) \subseteq app.subscribers \cap open /\ IsInjective(subs[g])
  BY DEF QueueInv, Members, Range
<1>2. ASSUME NEW r \in Resource
      PROVE  Len(ext[r]) <= ExternalLimit /\ \A s \in Range(ext[r]) : Home(s) = r
  <2>1. DOMAIN ext[r] = 1 .. Len(ext[r])
    BY DEF QueueInv, Inv, Shape
  <2> QED
    BY <2>1 DEF QueueInv, Bounds, Inv, EventsAtHome, Range
<1>3. \A r \in Resource : thread[r].dest \in Block \cup {Nothing, Gone}
  BY DEF QueueInv, Places, Placed
<1> QED
  BY <1>1, <1>2, <1>3 DEF TypeOK, QueueInv, Bounds, Counts, Inv, Shape

(* A block is in its group's list at most once and only while it is        *)
(* registered, although anyone opens and closes between two entries of a   *)
(* walk, the interrupt queue and the event list keep to their limits,      *)
(* although interruptCommFB() counts with what it read before, and events  *)
(* wait in their block's own resource.                                     *)
THEOREM TypeTheorem == Spec => []TypeOK
BY InitQueueInv, QueueNext, QueueInvType, PTL DEF Spec

(* Once a subscriber has nothing waiting, its connections have what was    *)
(* written last: every walk that writes leaves an event that will find an  *)
(* interrupt, or arrives before the data is handed over, also when the     *)
(* queue was full. Excused are events that were dropped and a data race on *)
(* the count.                                                              *)
THEOREM LatestSeenTheorem == Spec => []LatestSeen
<1>1. QueueInv => LatestSeen
  BY DEF QueueInv, Informed, Announced, Announces, LatestSeen
<1> QED
  BY InitQueueInv, QueueNext, <1>1, PTL DEF Spec

(* A publication reaches each subscriber that stays registered while       *)
(* sendData() walks the list, whoever else comes and goes: those it has    *)
(* still to serve are at its place or behind it, since removeListEntry()   *)
(* keeps the order and new entries come last.                              *)
THEOREM AllServedTheorem == Spec => []AllServed
<1>1. QueueInv => AllServed
  BY DEF QueueInv, Ahead, AheadAt, Walking, AllServed
<1> QED
  BY InitQueueInv, QueueNext, <1>1, PTL DEF Spec
=============================================================================
