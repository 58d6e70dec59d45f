--------------------------- MODULE TimedFBsProofs ---------------------------
(* Theorems about the timer, its arithmetic and its blocks, for words of   *)
(* every length, any number of blocks, every application, every interval   *)
(* and every limit.                                                        *)
EXTENDS TimedFBs, TLAPS, SequenceTheorems, FiniteSetTheorems,
        WellFoundedInduction

-----------------------------------------------------------------------------
(* The timer's arithmetic, for words of every length.                      *)

LEMMA TicksOfTime ==
  ASSUME NEW w \in Nat \ {0}, NEW t \in SForteTime(w)
  PROVE  /\ t.upper \in 0 .. (w - 1) /\ t.lower \in 0 .. (w - 1)
         /\ Ticks(w, t) \in Nat
<1>1. t.upper \in 0 .. (w - 1) /\ t.lower \in 0 .. (w - 1)
  BY DEF SForteTime, Word
<1>2. t.upper * w \in Nat
  BY <1>1
<1> QED BY <1>1, <1>2 DEF Ticks

LEMMA NextWord ==
  ASSUME NEW w \in Int, NEW a \in Int PROVE (a + 1) * w = a * w + w
OBVIOUS

LEMMA MultipleGrows ==
  ASSUME NEW w \in Nat, NEW a \in Int, NEW b \in Int, a < b
  PROVE  a * w + w <= b * w
<1>1. (b - a - 1) * w >= 0
  <2>1. b - a - 1 \in Nat
    OBVIOUS
  <2> DEFINE d == b - a - 1
  <2>2. d \in Nat
    BY <2>1
  <2> HIDE DEF d
  <2>3. d * w >= 0
    BY <2>2
  <2> QED BY <2>3 DEF d
<1>2. (b - a - 1) * w = b * w - a * w - w
  OBVIOUS
<1> QED BY <1>1, <1>2

(* Timeouts are exact: a timeout is the clock plus the interval, across    *)
(* the wrap of the lower word, unless the upper word overflows.            *)
THEOREM PlusAdds ==
  ASSUME NEW w \in Nat \ {0}, NEW t \in SForteTime(w), NEW i \in Word(w),
         t.upper < w - 1
  PROVE  /\ Plus(w, t, i) \in SForteTime(w)
         /\ Ticks(w, Plus(w, t, i)) = Ticks(w, t) + i
<1>1. /\ t.upper \in 0 .. (w - 1) /\ t.lower \in 0 .. (w - 1) /\ i \in 0 .. (w - 1)
  BY TicksOfTime DEF Word
<1>2. CASE t.lower + i < w
  <2>1. Plus(w, t, i) = [lower |-> t.lower + i, upper |-> t.upper]
    BY <1>1, <1>2 DEF Plus, Sum
  <2>2. t.upper * w \in Int
    BY <1>1
  <2> QED BY <1>1, <1>2, <2>1, <2>2 DEF SForteTime, Word, Ticks
<1>3. CASE t.lower + i >= w
  <2>1. Plus(w, t, i) = [lower |-> t.lower + i - w, upper |-> t.upper + 1]
    BY <1>1, <1>3 DEF Plus, Sum
  <2>2. (t.upper + 1) * w = t.upper * w + w /\ t.upper * w \in Int
    BY <1>1, NextWord
  <2> QED BY <1>1, <1>3, <2>1, <2>2 DEF SForteTime, Word, Ticks
<1> QED BY <1>1, <1>2, <1>3

(* operator> is the order of the numbers.                                  *)
THEOREM LaterIsGreater ==
  ASSUME NEW w \in Nat \ {0}, NEW t \in SForteTime(w), NEW u \in SForteTime(w)
  PROVE  IsLater(t, u) <=> Ticks(w, t) > Ticks(w, u)
<1>1. /\ t.upper \in 0 .. (w - 1) /\ t.lower \in 0 .. (w - 1)
      /\ u.upper \in 0 .. (w - 1) /\ u.lower \in 0 .. (w - 1)
      /\ t.upper * w \in Int /\ u.upper * w \in Int
  BY TicksOfTime
<1>2. CASE t.upper = u.upper
  BY <1>1, <1>2 DEF IsLater, Ticks
<1>3. CASE t.upper > u.upper
  <2>1. u.upper * w + w <= t.upper * w
    BY <1>1, <1>3, MultipleGrows
  <2> QED BY <1>1, <1>3, <2>1 DEF IsLater, Ticks
<1>4. CASE t.upper < u.upper
  <2>1. t.upper * w + w <= u.upper * w
    BY <1>1, <1>4, MultipleGrows
  <2> QED BY <1>1, <1>4, <2>1 DEF IsLater, Ticks
<1> QED BY <1>1, <1>2, <1>3, <1>4

(* What timerha.h:66 does to differences: the difference of a later and an *)
(* earlier time is exact while the lower words need no borrow, and one     *)
(* tick short whenever they do.                                            *)
THEOREM MinusIsOneShort ==
  ASSUME NEW w \in Nat \ {0}, NEW t \in SForteTime(w), NEW u \in SForteTime(w),
         IsLater(t, u)
  PROVE  Ticks(w, Minus(w, t, u)) =
           IF t.lower < u.lower THEN Ticks(w, t) - Ticks(w, u) - 1
           ELSE Ticks(w, t) - Ticks(w, u)
<1>1. /\ t.upper \in 0 .. (w - 1) /\ t.lower \in 0 .. (w - 1)
      /\ u.upper \in 0 .. (w - 1) /\ u.lower \in 0 .. (w - 1)
      /\ t.upper * w \in Int /\ u.upper * w \in Int
      /\ t.upper >= u.upper
  BY TicksOfTime DEF IsLater
<1>2. CASE t.lower < u.lower
  <2>1. t.upper - u.upper >= 1
    BY <1>1, <1>2 DEF IsLater
  <2>2. Less(w, Less(w, t.upper, u.upper), 1) = t.upper - u.upper - 1
    BY <1>1, <2>1 DEF Less
  <2>3. Less(w, Less(w, t.lower, 1), u.lower) = t.lower - u.lower - 1 + w
    BY <1>1, <1>2 DEF Less
  <2>4. Minus(w, t, u) = [upper |-> t.upper - u.upper - 1, lower |-> t.lower - u.lower - 1 + w]
    BY <1>2, <2>2, <2>3 DEF Minus
  <2>5. (t.upper - u.upper - 1) * w = t.upper * w - u.upper * w - w
    BY <1>1
  <2> QED BY <1>1, <1>2, <2>4, <2>5 DEF Ticks
<1>3. CASE t.lower >= u.lower
  <2>1. Minus(w, t, u) = [upper |-> t.upper - u.upper, lower |-> t.lower - u.lower]
    BY <1>1, <1>3 DEF Minus, Less
  <2>2. (t.upper - u.upper) * w = t.upper * w - u.upper * w
    BY <1>1
  <2> QED BY <1>1, <1>3, <2>1, <2>2 DEF Ticks
<1> QED BY <1>1, <1>2, <1>3

(* A tick of the clock takes one tick off the interval.                    *)
LEMMA IncrementTakesOne ==
  ASSUME NEW w \in Nat \ {0}, NEW t \in SForteTime(w), NEW i \in Word(w), i > 0
  PROVE  Plus(w, Increment(w, t), i - 1) = Plus(w, t, i)
<1>1. /\ t.upper \in 0 .. (w - 1) /\ t.lower \in 0 .. (w - 1) /\ i \in 1 .. (w - 1)
  BY TicksOfTime DEF Word
<1>2. CASE t.lower = w - 1
  <2>1. Increment(w, t) = [lower |-> 0, upper |-> Sum(w, t.upper, 1)]
    BY <1>1, <1>2 DEF Increment, Sum
  <2>2. Plus(w, Increment(w, t), i - 1) = [lower |-> i - 1, upper |-> Sum(w, t.upper, 1)]
    BY <1>1, <2>1 DEF Plus, Sum
  <2>3. Plus(w, t, i) = [lower |-> i - 1, upper |-> Sum(w, t.upper, 1)]
    BY <1>1, <1>2 DEF Plus, Sum
  <2> QED BY <2>2, <2>3
<1>3. CASE t.lower < w - 1
  <2>1. Increment(w, t) = [lower |-> t.lower + 1, upper |-> t.upper]
    BY <1>1, <1>3 DEF Increment, Sum
  <2>2. CASE t.lower + i < w
    BY <1>1, <1>3, <2>1, <2>2 DEF Plus, Sum
  <2>3. CASE t.lower + i >= w
    BY <1>1, <1>3, <2>1, <2>3 DEF Plus, Sum
  <2> QED BY <1>1, <2>2, <2>3
<1> QED BY <1>1, <1>2, <1>3

(* Why the models may count ticks from the clock on: timeouts compare with *)
(* the clock, and with each other, as the ticks until them do.             *)
THEOREM TimeoutsCompare ==
  ASSUME NEW w \in Nat \ {0}, NEW now \in SForteTime(w), now.upper < w - 1,
         NEW d \in Word(w), NEW e \in Word(w)
  PROVE  /\ IsLater(Plus(w, now, d), now) <=> d > 0
         /\ IsLater(Plus(w, now, d), Plus(w, now, e)) <=> d > e
<1>1. /\ Plus(w, now, d) \in SForteTime(w) /\ Ticks(w, Plus(w, now, d)) = Ticks(w, now) + d
      /\ Plus(w, now, e) \in SForteTime(w) /\ Ticks(w, Plus(w, now, e)) = Ticks(w, now) + e
  BY PlusAdds
<1>2. Ticks(w, now) \in Nat /\ d \in Nat /\ e \in Nat
  BY TicksOfTime DEF Word
<1>3. IsLater(Plus(w, now, d), now) <=> d > 0
  BY <1>1, <1>2, LaterIsGreater
<1>4. IsLater(Plus(w, now, d), Plus(w, now, e)) <=> d > e
  BY <1>1, <1>2, LaterIsGreater
<1> QED BY <1>3, <1>4

-----------------------------------------------------------------------------
(* The timer's list and the blocks.                                        *)

(* Every timeout and interval fits a word. *)
WordsOK ==
  /\ timeout \in [FB -> Word(WordSize)]
  /\ period \in [FB -> Interval \cup {0}]

(* A Stop command that has begun has a block. *)
StopHasBlock == manager # "idle" => stopping \in FB

Inv == TypeOK /\ WordsOK /\ StopHasBlock

LEMMA Constants ==
  /\ Null \notin FB
  /\ WordSize \in Nat \ {0} /\ 0 \in Word(WordSize) /\ Word(WordSize) \subseteq Nat
  /\ Interval \subseteq Word(WordSize)
  /\ \A i \in Interval \cup {0} : Distance(i) \in Word(WordSize)
  /\ \A f \in FB, x \in {"START", "STOP", "EXT"} : <<f, x>> \in Event /\ <<f, x>> # <<>>
BY BlockAssumption, NumberAssumption DEF Word, Distance, Event

(* What addTimedFBEntry() makes of the list's pointers.                    *)
LEMMA InsertType ==
  ASSUME NEW h \in FB \cup {Null}, NEW nx \in [FB -> FB \cup {Null}], NEW at, NEW f \in FB, NEW t,
         NEW list \in Insert(h, nx, at, f, t)
  PROVE  list[1] \in FB \cup {Null} /\ list[2] \in [FB -> FB \cup {Null}]
<1> DEFINE times == [at EXCEPT ![f] = t]
           cut   == [nx EXCEPT ![f] = Null]
           Later == {Null} \cup {p \in FB : times[p] > t}
<1>1. cut \in [FB -> FB \cup {Null}]
  OBVIOUS
<1>2. \A p \in FirstBefore(h, cut, Later) : p \in FB
  BY DEF FirstBefore
<1>3. Insert(h, nx, at, f, t) =
        IF h \in Later THEN {<<f, [cut EXCEPT ![f] = h]>>}
        ELSE {<<h, [cut EXCEPT ![f] = cut[p], ![p] = f]>> : p \in FirstBefore(h, cut, Later)}
  BY DEF Insert
<1> HIDE DEF cut, Later
<1>4. CASE h \in Later
  BY <1>1, <1>3, <1>4
<1>5. CASE h \notin Later
  <2>1. PICK p \in FirstBefore(h, cut, Later) : list = <<h, [cut EXCEPT ![f] = cut[p], ![p] = f]>>
    BY <1>3, <1>5
  <2> QED BY <1>1, <1>2, <2>1
<1> QED BY <1>4, <1>5

ListType ==
  /\ head \in FB \cup {Null} /\ next \in [FB -> FB \cup {Null}] /\ WordsOK

LEMMA RegisterType ==
  ASSUME ListType, NEW f \in FB, NEW i \in Interval, RegisterTimedFB(f, i)
  PROVE  ListType'
<1>1. PICK list \in Insert(head, next, timeout, f, Distance(i)) : head' = list[1] /\ next' = list[2]
  BY DEF RegisterTimedFB
<1>2. head' \in FB \cup {Null} /\ next' \in [FB -> FB \cup {Null}]
  BY <1>1, InsertType DEF ListType
<1>3. WordsOK'
  BY Constants DEF ListType, WordsOK, RegisterTimedFB
<1> QED BY <1>2, <1>3 DEF ListType

LEMMA UnregisterType ==
  ASSUME ListType, NEW f \in FB, UnregisterTimedFB(f)
  PROVE  ListType'
<1> USE DEF ListType
<1>0. period' = period
  BY DEF UnregisterTimedFB
<1>1. CASE head = f /\ head' = next[f] /\ next' = [next EXCEPT ![f] = Null]
           /\ timeout' = [timeout EXCEPT ![f] = 0]
  BY <1>0, <1>1, Constants DEF WordsOK
<1>2. ASSUME head' = head,
             NEW p \in FB,
             IF next[p] = f
             THEN /\ next' = [next EXCEPT ![p] = next[f], ![f] = Null]
                  /\ timeout' = [timeout EXCEPT ![f] = 0]
             ELSE UNCHANGED <<next, timeout>>
      PROVE  ListType'
  <2>1. CASE next[p] = f
    BY <1>0, <1>2, <2>1, Constants DEF WordsOK
  <2>2. CASE next[p] # f
    BY <1>0, <1>2, <2>2 DEF WordsOK
  <2> QED BY <2>1, <2>2
<1>3. CASE UNCHANGED <<head, next, timeout>>
  BY <1>0, <1>3 DEF WordsOK
<1>4. FirstBefore(head, next, {f, Null}) \subseteq FB
  BY DEF FirstBefore
<1> QED BY <1>1, <1>2, <1>3, <1>4 DEF UnregisterTimedFB

LEMMA RequeueType ==
  ASSUME ListType, head \in FB, Requeue(head)
  PROVE  ListType'
<1> USE DEF ListType
<1>0. period' = period /\ next[head] \in FB \cup {Null}
  BY DEF Requeue
<1>1. CASE type[head] = "E_CYCLE"
  <2>1. PICK list \in Insert(next[head], next, timeout, head, Distance(period[head])) :
          head' = list[1] /\ next' = list[2]
    BY <1>1 DEF Requeue
  <2>2. head' \in FB \cup {Null} /\ next' \in [FB -> FB \cup {Null}]
    BY <1>0, <2>1, InsertType
  <2>3. timeout' = [timeout EXCEPT ![head] = Distance(period[head])]
    BY <1>1 DEF Requeue
  <2>4. Distance(period[head]) \in Word(WordSize)
    BY Constants DEF WordsOK
  <2> QED BY <1>0, <2>2, <2>3, <2>4 DEF WordsOK
<1>2. CASE type[head] # "E_CYCLE"
  BY <1>0, <1>2, Constants DEF Requeue, WordsOK
<1> QED BY <1>1, <1>2

LEMMA DownType ==
  /\ \A t \in Word(WordSize) : Down(t) \in Word(WordSize)
  /\ \A t \in Nat \cup {Never} : Down(t) \in Nat \cup {Never}
BY Constants DEF Down, Word, Never

LEMMA ListOfInv == Inv <=> TypeOK /\ ListType /\ StopHasBlock
BY DEF Inv, TypeOK, ListType

LEMMA TimeoutsAreNat == WordsOK => timeout \in [FB -> Nat]
BY Constants DEF WordsOK

LEMMA InitInv == Init => Inv
<1> SUFFICES ASSUME Init PROVE Inv
  OBVIOUS
<1>1. <<>> \in Seq(Event)
  BY EmptySeq
<1>2. WordsOK
  BY Constants DEF Init, WordsOK
<1> QED BY <1>1, <1>2, TimeoutsAreNat DEF Init, Inv, TypeOK, WordsOK, StopHasBlock

(* The timer thread. *)
LEMMA TimerInv ==
  ASSUME Inv, Tick \/ LookAtList \/ Fire \/ TickDone
  PROVE  Inv'
<1> USE DEF timerVars, ecetVars, managerVars, StopHasBlock
<1>0. TypeOK /\ WordsOK /\ ListType /\ StopHasBlock
  BY ListOfInv DEF Inv
<1>1. CASE Tick
  <2>1. timeout' \in [FB -> Word(WordSize)] /\ due' \in [FB -> Nat \cup {Never}]
    BY <1>0, <1>1, DownType DEF Tick, TypeOK, WordsOK
  <2>2. WordsOK'
    BY <1>0, <1>1, <2>1 DEF Tick, WordsOK
  <2> QED BY <1>0, <1>1, <2>1, <2>2, Constants DEF Tick, Inv, TypeOK
<1>2. CASE LookAtList
  BY <1>0, <1>2 DEF LookAtList, Inv, TypeOK, WordsOK
<1>3. CASE Fire
  <2>1. head \in FB /\ Notify(head) /\ Requeue(head)
        /\ UNCHANGED <<tick, type, active, ecetVars, managerVars, due, overtaken>>
    BY <1>0, <1>3 DEF Fire, TypeOK
  <2>2. ListType'
    BY <1>0, <2>1, RequeueType
  <2>3. external' \in Seq(Event) /\ lost' \subseteq FB
    <3>1. Ext(head) \in Event
      BY <2>1, Constants DEF Ext
    <3>2. Append(external, Ext(head)) \in Seq(Event)
      BY <1>0, <3>1, AppendProperties DEF TypeOK
    <3> QED BY <1>0, <2>1, <3>2 DEF Notify, TypeOK
  <2> QED BY <1>0, <2>1, <2>2, <2>3, Constants DEF ListType, WordsOK, Inv, TypeOK
<1>4. CASE TickDone
  BY <1>0, <1>4 DEF TickDone, Inv, TypeOK, WordsOK
<1> QED BY <1>1, <1>2, <1>3, <1>4

(* Events of the application and a round of run(). *)
LEMMA EventInv ==
  ASSUME Inv, \/ \E f \in FB, input \in {"START", "STOP"} : SendInputEvent(f, input)
              \/ ReceiveInputEvent
  PROVE  Inv'
<1> USE DEF timerVars, ecetVars, managerVars, StopHasBlock
<1>0. TypeOK /\ WordsOK /\ StopHasBlock
  BY DEF Inv
<1>1. ASSUME NEW f \in FB, NEW input \in {"START", "STOP"}, SendInputEvent(f, input)
      PROVE  Inv'
  <2>1. queue' \in Seq(Event)
    <3>1. <<f, input>> \in Event
      BY Constants
    <3> QED BY <1>0, <1>1, <3>1, AppendProperties DEF SendInputEvent, TypeOK
  <2> QED BY <1>0, <1>1, <2>1 DEF SendInputEvent, Inv, TypeOK, WordsOK
<1>2. CASE ReceiveInputEvent
  <2>1. queue \o external \in Seq(Event)
    BY <1>0, ConcatProperties DEF TypeOK
  <2> DEFINE all     == queue \o external
             pending == SubSeq(all, 1, IF Len(all) < ListLimit THEN Len(all) ELSE ListLimit)
  <2>2. pending \in Seq(Event)
    <3>1. Len(all) \in Nat /\ ListLimit \in Nat
      BY <2>1, LenProperties, NumberAssumption
    <3>2. \A i \in 1 .. (IF Len(all) < ListLimit THEN Len(all) ELSE ListLimit) : all[i] \in Event
      BY <2>1, <3>1, ElementOfSeq
    <3> HIDE DEF all
    <3> QED BY <2>1, <3>1, <3>2, SubSeqProperties
  <2>3. /\ pending # <<>> /\ queue' = Tail(pending)
        /\ current' \in {Head(pending), <<>>}
        /\ lost' = lost \cup {f \in FB : Ext(f) \in Elements(all) \ Elements(pending)}
        /\ external' = <<>>
        /\ UNCHANGED <<timerVars, tick, type, active, step, managerVars, due, overtaken>>
    BY <1>2 DEF ReceiveInputEvent
  <2> HIDE DEF all, pending
  <2>4. Head(pending) \in Event /\ Tail(pending) \in Seq(Event) /\ <<>> \in Seq(Event)
    BY <2>2, <2>3, HeadTailProperties, EmptySeq
  <2>5. lost' \subseteq FB
    BY <1>0, <2>3 DEF TypeOK
  <2> QED BY <1>0, <2>3, <2>4, <2>5 DEF Inv, TypeOK, WordsOK
<1> QED BY <1>1, <1>2

LEMMA OvertakenType ==
  ASSUME overtaken \subseteq FB, NEW f \in FB, NoteOvertaken(f)
  PROVE  overtaken' \subseteq FB
BY DEF NoteOvertaken

(* A block's handling of an event. *)
LEMMA ExecuteInv ==
  ASSUME Inv, NEW f \in FB, Execute(f)
  PROVE  Inv'
<1> USE DEF timerVars, ecetVars, managerVars, StopHasBlock
<1>0. TypeOK /\ WordsOK /\ ListType /\ StopHasBlock
  BY ListOfInv DEF Inv
<1>1. CASE ExecuteExternalEvent(f)
  BY <1>0, <1>1 DEF ExecuteExternalEvent, Inv, TypeOK, WordsOK
<1>2. ASSUME NEW i \in Interval, StartDelay(f, i) PROVE Inv'
  <2>1. ListType'
    BY <1>0, <1>2, RegisterType DEF StartDelay
  <2>2. DueAfter(f, i) \in Nat \cup {Never}
    BY Constants DEF DueAfter
  <2>3. due' \in [FB -> Nat \cup {Never}]
    BY <1>0, <1>2, <2>2 DEF StartDelay, TypeOK
  <2> QED BY <1>0, <1>2, <2>1, <2>3, Constants DEF StartDelay, ListType, WordsOK, Inv, TypeOK
<1>3. CASE RestartDelay(f)
  <2>1. ListType' /\ overtaken' \subseteq FB
    BY <1>0, <1>3, UnregisterType, OvertakenType DEF RestartDelay, TypeOK
  <2> QED BY <1>0, <1>3, <2>1, Constants DEF RestartDelay, ListType, WordsOK, Inv, TypeOK
<1>4. CASE IgnoreStart(f)
  BY <1>0, <1>4 DEF IgnoreStart, Inv, TypeOK, WordsOK
<1>5. CASE StopDelay(f)
  <2>1. ListType' /\ overtaken' \subseteq FB
    BY <1>0, <1>5, UnregisterType, OvertakenType DEF StopDelay, TypeOK
  <2> QED BY <1>0, <1>5, <2>1, Constants DEF StopDelay, ListType, WordsOK, Inv, TypeOK
<1>6. CASE IgnoreStop(f)
  BY <1>0, <1>6 DEF IgnoreStop, Inv, TypeOK, WordsOK
<1>7. ASSUME NEW input \in {"START", "STOP"}, WriteActive(f, input) PROVE Inv'
  <2>1. (input = "START") \in BOOLEAN
    OBVIOUS
  <2>2. active' \in [FB -> BOOLEAN]
    BY <1>0, <1>7, <2>1 DEF WriteActive, TypeOK
  <2> QED BY <1>0, <1>7, <2>2 DEF WriteActive, Inv, TypeOK, WordsOK
<1> QED BY <1>1, <1>2, <1>3, <1>4, <1>5, <1>6, <1>7 DEF Execute

(* The management interface. *)
LEMMA ManagerInv ==
  ASSUME Inv, \/ \E f \in FB : CommandStop(f) \/ CommandStart(f) \/ CommandDelete(f)
              \/ Stop
  PROVE  Inv'
<1> USE DEF timerVars, ecetVars, managerVars, StopHasBlock
<1>0. TypeOK /\ WordsOK /\ ListType /\ StopHasBlock
  BY ListOfInv DEF Inv
<1>1. ASSUME NEW f \in FB, CommandStop(f) \/ CommandStart(f) \/ CommandDelete(f) PROVE Inv'
  <2>1. fbState' \in [FB -> {"RUNNING", "STOPPED", "DELETED"}]
    BY <1>0, <1>1 DEF CommandStop, CommandStart, CommandDelete, TypeOK
  <2> QED BY <1>0, <1>1, <2>1 DEF CommandStop, CommandStart, CommandDelete, Inv, TypeOK, WordsOK
<1>2. CASE UnregisterStopped
  <2>1. CASE ~active[stopping]
    BY <1>0, <1>2, <2>1 DEF UnregisterStopped, Inv, TypeOK, WordsOK
  <2>2. CASE active[stopping]
    <3>1. ListType' /\ overtaken' \subseteq FB
      BY <1>0, <1>2, <2>2, UnregisterType, OvertakenType DEF UnregisterStopped, TypeOK
    <3> QED BY <1>0, <1>2, <2>2, <3>1, Constants
            DEF UnregisterStopped, ListType, WordsOK, Inv, TypeOK
  <2> QED BY <2>1, <2>2
<1>3. CASE DeactivateStopped
  BY <1>0, <1>3 DEF DeactivateStopped, Inv, TypeOK, WordsOK
<1> QED BY <1>1, <1>2, <1>3 DEF Stop

LEMMA NextInv == Inv /\ [Next]_vars => Inv'
<1>1. ASSUME Inv, UNCHANGED vars PROVE Inv'
  BY <1>1 DEF vars, timerVars, ecetVars, managerVars, Inv, TypeOK, WordsOK, StopHasBlock
<1> QED BY <1>1, TimerInv, EventInv, ExecuteInv, ManagerInv DEF Next, Timer

(* Types, and with them words that hold each timeout of timerha.cpp:39-45. *)
THEOREM InvHolds == Spec => []Inv
<1> QED BY InitInv, NextInv, PTL DEF Spec

(* The timer's pointers, flags, lists and commands never leave their       *)
(* types: addTimedFBEntry(), unregisterTimedFB() and nextTick() make a     *)
(* list of registered blocks' entries only, whatever comes across them.    *)
THEOREM TypeCorrect == Spec => []TypeOK
<1>1. Inv => TypeOK
  BY DEF Inv
<1> QED BY InvHolds, <1>1, PTL

(* nextTick() and addTimedFBEntry() compare SForteTimes of two words. What *)
(* they find is what the model's relative timeouts say, for words of every *)
(* length and wherever the clock stands, up to the last upper word.        *)
THEOREM TimesAlwaysCompare == Spec => []TimesCompare
<1>1. Inv => TimesCompare
  <2> SUFFICES ASSUME Inv, NEW now \in SForteTime(WordSize), now.upper < WordSize - 1,
                      NEW f \in FB, NEW g \in FB
               PROVE  /\ IsLater(Plus(WordSize, now, timeout[f]), now) <=> timeout[f] > 0
                      /\ timeout[f] > 0 =>
                           Plus(WordSize, now, timeout[f])
                             = Plus(WordSize, Increment(WordSize, now), Down(timeout[f]))
                      /\ IsLater(Plus(WordSize, now, timeout[f]), Plus(WordSize, now, timeout[g]))
                           <=> timeout[f] > timeout[g]
    BY DEF TimesCompare
  <2>1. timeout[f] \in Word(WordSize) /\ timeout[g] \in Word(WordSize)
    BY DEF Inv, WordsOK
  <2>2. timeout[f] > 0 => Down(timeout[f]) = timeout[f] - 1
    BY <2>1, Constants DEF Down
  <2> QED BY <2>1, <2>2, Constants, TimeoutsCompare, IncrementTakesOne
<1> QED BY InvHolds, <1>1, PTL

-----------------------------------------------------------------------------
(* The timer's list, the flags of the blocks and the events on their way.  *)

Reach(h, nx) == {Walk(h, nx)[k] : k \in 0 .. Cardinality(FB)} \ {Null}

(* At most one pointer of the list leads to g.                             *)
Single(g, h, nx) ==
  /\ h = g => \A x \in Reach(h, nx) : nx[x] # g
  /\ \A x, y \in Reach(h, nx) : nx[x] = g /\ nx[y] = g => x = y

(* The list does not run in a circle.                                      *)
Ends(h, nx) ==
  \A X \in SUBSET Reach(h, nx) : X # {} => \E x \in X : nx[x] \notin X

Sorted(h, nx, at) == \A f \in Reach(h, nx) : nx[f] # Null => at[f] <= at[nx[f]]

ListShape ==
  /\ \A g \in FB \ overtaken : Single(g, head, next)
  /\ overtaken = {} => Ends(head, next) /\ Sorted(head, next, timeout)

Starting(f) == step = "flag" /\ current = <<f, "START">>
Stopping(f) == step = "flag" /\ current = <<f, "STOP">>
Restarting(f) == step = "register" /\ current = <<f, "START">>
Commanded(f) == manager = "flag" /\ stopping = f
OnCommand(f) == manager # "idle" /\ stopping = f

StepShape ==
  /\ step = "flag" => \E f \in FB : Starting(f) \/ Stopping(f)
  /\ step = "register" => \E f \in FB : Restarting(f) /\ type[f] = "E_RDELAY"

CommandShape ==
  /\ manager # "idle" => fbState[stopping] = "STOPPED"
  /\ overtaken \subseteq Delays

(* A Stop command leaves a block inactive, unless it came during START.    *)
StoppedOK(f) ==
  fbState[f] # "RUNNING" =>
    /\ current # <<f, "START">>
    /\ active[f] => OnCommand(f)
Stopped == \A f \in FB \ crossed : StoppedOK(f)

(* A START that is between its registration and its flag found the flag    *)
(* FALSE, and one that a Stop command overtakes will find it TRUE.         *)
Flagged ==
  \A f \in FB \ Of("E_RDELAY") :
    /\ Starting(f) => ~active[f] /\ ~Commanded(f)
    /\ Commanded(f) /\ current = <<f, "START">> => active[f] /\ step = "begin"

(* The START of an E_RDELAY that a Stop command overtakes finds the flag   *)
(* FALSE, or it was a restart.                                             *)
RestartOK(f) ==
  /\ Restarting(f) => active[f]
  /\ OnCommand(f) /\ current = <<f, "START">> => ~Commanded(f) /\ ~active[f]
RestartsFlagged == \A f \in Of("E_RDELAY") \ overtaken : RestartOK(f)

(* No START, STOP or Stop command is between its timer and its flag.       *)
Idle(f) == ~(Starting(f) \/ Stopping(f) \/ Restarting(f) \/ Commanded(f))

OnList(f) == IF f \in Listed THEN 1 ELSE 0
Timers(f) == Pending(f) + OnList(f)

DelayAtMost(f) ==
  /\ Timers(f) <= 1
  /\ Stopping(f) \/ Restarting(f) \/ Commanded(f) => Timers(f) = 0
  /\ Idle(f) /\ ~active[f] => Timers(f) = 0

DelayAtLeast(f) ==
  fbState[f] = "RUNNING" /\ (Starting(f) \/ (Idle(f) /\ active[f])) => Timers(f) > 0

DelayTime(f) ==
  /\ Pending(f) > 0 => due[f] = 0
  /\ f \in Listed => timeout[f] = due[f]

(* Each delay has at most one timer, on the list or on its way, and when   *)
(* it is active and running, its events are not dropped and no Stop        *)
(* command came during its START, it has one.                              *)
DelaysAtMost == \A f \in Delays \ overtaken : DelayAtMost(f) /\ DelayTime(f)
DelaysAtLeast ==
  \A f \in Delays \ (lost \cup crossed) : overtaken \subseteq {f} => DelayAtLeast(f)

Cycles(f) == Starting(f) \/ (active[f] /\ ~Commanded(f) /\ ~Stopping(f))

(* A cycle is on the list from its registration until it is taken out.     *)
Cycled ==
  \A f \in Of("E_CYCLE") :
    /\ f \in Listed => Cycles(f)
    /\ overtaken = {} => (Cycles(f) => f \in Listed)

TimerShape ==
  /\ ListShape /\ StepShape /\ CommandShape /\ Stopped /\ Flagged /\ RestartsFlagged
  /\ DelaysAtMost /\ DelaysAtLeast /\ Cycled

-----------------------------------------------------------------------------
(* Walks along the list.                                                   *)

(* A nonempty set of natural numbers has a least one.                      *)
LEMMA LeastNumber ==
  ASSUME NEW T \in SUBSET Nat, T # {}
  PROVE  \E n \in T : \A m \in T : n <= m
<1>1. IsWellFoundedOn({ss \in Nat \X Nat : ss[1] < ss[2]}, Nat)
  BY NatLessThanWellFounded DEF OpToRel
<1>2. PICK n \in T : \A m \in T : ~(<<m, n>> \in {ss \in Nat \X Nat : ss[1] < ss[2]})
  BY <1>1, WFMin
<1>3. ASSUME NEW m \in T PROVE n <= m
  <2>1. <<m, n>> \in Nat \X Nat /\ m \in Nat /\ n \in Nat
    OBVIOUS
  <2> QED BY <1>2, <2>1
<1> QED BY <1>3

Steps == Cardinality(FB)

LEMMA StepsType == Steps \in Nat /\ IsFiniteSet(FB)
BY BlockAssumption, FS_CardinalityType DEF Steps

Follows(w, n, h, nx) ==
  w = [k \in 0 .. n |-> IF k = 0 THEN h
                        ELSE IF w[k - 1] = Null THEN Null ELSE nx[w[k - 1]]]

(* A walk of any length exists.                                            *)
LEMMA WalkExists ==
  ASSUME NEW h, NEW nx, NEW n \in Nat
  PROVE  \E w : Follows(w, n, h, nx)
<1> DEFINE T == {m \in Nat : ~\E w : Follows(w, m, h, nx)}
<1> SUFFICES ASSUME T # {} PROVE FALSE
  OBVIOUS
<1>1. PICK m \in T : \A j \in T : m <= j
  <2>1. T \in SUBSET Nat
    OBVIOUS
  <2> HIDE DEF T
  <2> QED BY <2>1, LeastNumber
<1>2. CASE m = 0
  <2> DEFINE w == [k \in 0 .. 0 |-> h]
  <2>1. Follows(w, 0, h, nx)
    BY DEF Follows
  <2> QED BY <1>2, <2>1
<1>3. CASE m # 0
  <2>1. m - 1 \in Nat /\ m - 1 \notin T
    BY <1>1, <1>3
  <2>2. PICK v : Follows(v, m - 1, h, nx)
    BY <2>1
  <2> DEFINE w == [k \in 0 .. m |-> IF k = m THEN IF v[k - 1] = Null THEN Null ELSE nx[v[k - 1]]
                                    ELSE v[k]]
  <2>3. \A k \in 0 .. m - 1 : w[k] = v[k]
    BY <2>1
  <2>4. \A k \in 0 .. m :
          w[k] = IF k = 0 THEN h ELSE IF w[k - 1] = Null THEN Null ELSE nx[w[k - 1]]
    <3> SUFFICES ASSUME NEW k \in 0 .. m
                 PROVE  w[k] = IF k = 0 THEN h
                               ELSE IF w[k - 1] = Null THEN Null ELSE nx[w[k - 1]]
      OBVIOUS
    <3>1. CASE k = m
      <4>1. m - 1 \in 0 .. m - 1 /\ w[m - 1] = v[m - 1]
        BY <2>1, <2>3
      <4> QED BY <1>3, <3>1, <4>1
    <3>2. CASE k # m
      <4>1. k \in 0 .. m - 1 /\ (k # 0 => k - 1 \in 0 .. m - 1)
        BY <3>2
      <4>2. v[k] = IF k = 0 THEN h ELSE IF v[k - 1] = Null THEN Null ELSE nx[v[k - 1]]
        BY <2>2, <4>1 DEF Follows
      <4>3. w[k] = v[k] /\ (k # 0 => w[k - 1] = v[k - 1])
        BY <2>3, <4>1
      <4> HIDE DEF w
      <4> QED BY <4>2, <4>3
    <3> QED BY <3>1, <3>2
  <2>5. w = [k \in 0 .. m |-> w[k]]
    OBVIOUS
  <2> HIDE DEF w
  <2>6. Follows(w, m, h, nx)
    BY <2>4, <2>5 DEF Follows
  <2> QED BY <2>6
<1> QED BY <1>2, <1>3

LEMMA WalkDef ==
  ASSUME NEW h, NEW nx
  PROVE  /\ Walk(h, nx)[0] = h
         /\ \A k \in 1 .. Steps :
              Walk(h, nx)[k] = IF Walk(h, nx)[k - 1] = Null THEN Null ELSE nx[Walk(h, nx)[k - 1]]
<1>1. Walk(h, nx) = CHOOSE w : Follows(w, Steps, h, nx)
  BY DEF Walk, Follows, Steps
<1>2. Follows(Walk(h, nx), Steps, h, nx)
  BY <1>1, WalkExists, StepsType
<1> DEFINE w == Walk(h, nx)
<1> HIDE DEF w
<1>3. \A k \in 0 .. Steps : w[k] = IF k = 0 THEN h ELSE IF w[k - 1] = Null THEN Null ELSE nx[w[k - 1]]
  BY <1>2 DEF Follows, w
<1>4. 0 \in 0 .. Steps /\ \A k \in 1 .. Steps : k \in 0 .. Steps /\ k # 0
  BY StepsType
<1> QED BY <1>3, <1>4 DEF w

Pointers == [FB -> FB \cup {Null}]

LEMMA WalkType ==
  ASSUME NEW h \in FB \cup {Null}, NEW nx \in Pointers, NEW k \in 0 .. Steps
  PROVE  Walk(h, nx)[k] \in FB \cup {Null}
<1> DEFINE T == {m \in 0 .. Steps : Walk(h, nx)[m] \notin FB \cup {Null}}
<1> SUFFICES ASSUME T # {} PROVE FALSE
  OBVIOUS
<1>0. Steps \in Nat
  BY StepsType
<1>1. PICK m \in T : \A j \in T : m <= j
  <2>1. T \in SUBSET Nat
    BY <1>0
  <2> HIDE DEF T
  <2> QED BY <2>1, LeastNumber
<1>2. m # 0
  BY <1>1, WalkDef
<1>3. m \in 1 .. Steps /\ m - 1 \in 0 .. Steps /\ m - 1 \notin T
  BY <1>0, <1>1, <1>2
<1>4. Walk(h, nx)[m - 1] \in FB \cup {Null}
  BY <1>3
<1>5. Walk(h, nx)[m] = IF Walk(h, nx)[m - 1] = Null THEN Null ELSE nx[Walk(h, nx)[m - 1]]
  BY <1>3, WalkDef
<1> QED BY <1>1, <1>4, <1>5 DEF Pointers

(* A walk that has come to the end stays there.                            *)
LEMMA EndStays ==
  ASSUME NEW h \in FB \cup {Null}, NEW nx \in Pointers,
         NEW k \in 0 .. Steps, Walk(h, nx)[k] = Null
  PROVE  Walk(h, nx)[Steps] = Null
<1> DEFINE T == {m \in k .. Steps : Walk(h, nx)[m] # Null}
<1>0. Steps \in Nat /\ k \in Nat
  BY StepsType
<1> SUFFICES ASSUME T # {} PROVE FALSE
  BY <1>0
<1>1. PICK m \in T : \A j \in T : m <= j
  <2>1. T \in SUBSET Nat
    BY <1>0
  <2> HIDE DEF T
  <2> QED BY <2>1, LeastNumber
<1>2. m # k
  BY <1>1
<1>3. m \in 1 .. Steps /\ m - 1 \in k .. Steps /\ m - 1 \notin T
  BY <1>0, <1>1, <1>2
<1>4. Walk(h, nx)[m - 1] = Null
  BY <1>3
<1> QED BY <1>1, <1>3, <1>4, WalkDef

(* What the list reaches is the least set that its pointers do not leave.  *)
LEMMA ReachLeast ==
  ASSUME NEW h \in FB \cup {Null}, NEW nx \in Pointers,
         NEW X, h \in X \cup {Null}, \A x \in X : nx[x] \in X \cup {Null}
  PROVE  Reach(h, nx) \subseteq X
<1> DEFINE T == {m \in 0 .. Steps : Walk(h, nx)[m] \notin X \cup {Null}}
<1> SUFFICES ASSUME T # {} PROVE FALSE
  BY DEF Reach, Steps
<1>0. Steps \in Nat
  BY StepsType
<1>1. PICK m \in T : \A j \in T : m <= j
  <2>1. T \in SUBSET Nat
    BY <1>0
  <2> HIDE DEF T
  <2> QED BY <2>1, LeastNumber
<1>2. m # 0
  BY <1>1, WalkDef
<1>3. m \in 1 .. Steps /\ m - 1 \in 0 .. Steps /\ m - 1 \notin T
  BY <1>0, <1>1, <1>2
<1>4. Walk(h, nx)[m - 1] \in X \cup {Null}
  BY <1>3
<1>5. Walk(h, nx)[m] = IF Walk(h, nx)[m - 1] = Null THEN Null ELSE nx[Walk(h, nx)[m - 1]]
  BY <1>3, WalkDef
<1> QED BY <1>1, <1>4, <1>5

(* A walk that does not end comes back to where it was.                    *)
LEMMA Recurs ==
  ASSUME NEW h \in FB \cup {Null}, NEW nx \in Pointers, Walk(h, nx)[Steps] # Null
  PROVE  /\ \A k \in 0 .. Steps : Walk(h, nx)[k] \in FB
         /\ \E i \in 0 .. Steps : \E j \in i + 1 .. Steps : Walk(h, nx)[i] = Walk(h, nx)[j]
<1> DEFINE S == 0 .. Steps
           w == [k \in S |-> Walk(h, nx)[k]]
<1>0. Steps \in Nat /\ IsFiniteSet(FB) /\ Steps = Cardinality(FB)
  BY StepsType DEF Steps
<1>1. \A k \in S : Walk(h, nx)[k] \in FB
  BY WalkType, EndStays
<1>2. IsFiniteSet(S) /\ Cardinality(S) = Steps + 1
  BY <1>0, FS_Interval
<1>3. w \in [S -> FB]
  BY <1>1
<1> HIDE DEF S, w
<1>4. PICK x \in S, y \in S : x # y /\ w[x] = w[y]
  BY <1>0, <1>2, <1>3, FS_PigeonHole
<1>5. x \in 0 .. Steps /\ y \in 0 .. Steps /\ Walk(h, nx)[x] = Walk(h, nx)[y]
  BY <1>4 DEF S, w
<1>6. CASE x < y
  <2>1. y \in x + 1 .. Steps
    BY <1>0, <1>5, <1>6
  <2> QED BY <1>1, <1>5, <2>1 DEF S
<1>7. CASE y < x
  <2>1. x \in y + 1 .. Steps
    BY <1>0, <1>5, <1>7
  <2> QED BY <1>1, <1>5, <2>1 DEF S
<1> QED BY <1>0, <1>4, <1>5, <1>6, <1>7

LEMMA ReachClosed ==
  ASSUME NEW h \in FB \cup {Null}, NEW nx \in Pointers
  PROVE  /\ Reach(h, nx) \subseteq FB /\ h \in Reach(h, nx) \cup {Null}
         /\ \A x \in Reach(h, nx) : nx[x] \in Reach(h, nx) \cup {Null}
<1> DEFINE w == Walk(h, nx)
           R == Reach(h, nx)
<1>0. Steps \in Nat /\ R = {w[k] : k \in 0 .. Steps} \ {Null}
  BY StepsType DEF Reach, Steps
<1>1. /\ w[0] = h /\ \A k \in 1 .. Steps : w[k] = IF w[k - 1] = Null THEN Null ELSE nx[w[k - 1]]
      /\ \A k \in 0 .. Steps : w[k] \in FB \cup {Null}
  BY WalkDef, WalkType
<1>2. w[Steps] = Null \/ \E i \in 0 .. Steps : \E j \in i + 1 .. Steps : w[i] = w[j]
  BY Recurs
<1>3. \A X : h \in X \cup {Null} /\ (\A x \in X : nx[x] \in X \cup {Null}) => R \subseteq X
  BY ReachLeast
<1> HIDE DEF w, R
<1>4. R \subseteq FB /\ h \in R \cup {Null}
  <2>1. 0 \in 0 .. Steps
    BY <1>0
  <2> QED BY <1>0, <1>1, <2>1
<1>5. ASSUME NEW x \in R PROVE nx[x] \in R \cup {Null}
  <2>1. PICK k \in 0 .. Steps : w[k] = x /\ x # Null
    BY <1>0
  <2>2. CASE k # Steps
    <3>1. k + 1 \in 1 .. Steps /\ (k + 1) - 1 = k /\ k + 1 \in 0 .. Steps
      BY <1>0, <2>1, <2>2
    <3>2. w[k + 1] = nx[x]
      BY <1>1, <2>1, <3>1
    <3>3. w[k + 1] \in FB \cup {Null}
      BY <1>1, <3>1
    <3> QED BY <1>0, <3>1, <3>2, <3>3
  <2>3. CASE k = Steps
    <3>1. PICK i \in 0 .. Steps : \E j \in i + 1 .. Steps : w[i] = w[j]
      BY <1>2, <2>1, <2>3
    <3>2. PICK j \in i + 1 .. Steps : w[i] = w[j]
      BY <3>1
    <3>3. i \in Nat /\ j \in 1 .. Steps /\ i \in 0 .. j - 1 /\ j - 1 \in 0 .. Steps
      BY <1>0, <3>1, <3>2
    <3> DEFINE X == {w[m] : m \in 0 .. j - 1} \ {Null}
    <3>4. h \in X \cup {Null}
      BY <1>1, <3>3
    <3>5. ASSUME NEW y \in X PROVE nx[y] \in X \cup {Null}
      <4>1. PICK m \in 0 .. j - 1 : w[m] = y /\ y # Null
        OBVIOUS
      <4>2. m + 1 \in 1 .. Steps /\ (m + 1) - 1 = m
        BY <1>0, <3>3, <4>1
      <4>3. w[m + 1] = nx[y]
        BY <1>1, <4>1, <4>2
      <4>4. CASE m = j - 1
        <5>1. m + 1 = j
          BY <3>3, <4>1, <4>4
        <5>2. nx[y] = w[i]
          BY <3>2, <4>3, <5>1
        <5> QED BY <3>3, <5>2
      <4>5. CASE m # j - 1
        <5>1. m + 1 \in 0 .. j - 1
          BY <3>3, <4>1, <4>5
        <5> QED BY <4>3, <5>1
      <4> QED BY <4>4, <4>5
    <3>6. R \subseteq X
      <4> HIDE DEF X
      <4> QED BY <1>3, <3>4, <3>5
    <3>7. X \subseteq R
      <4>1. \A m \in 0 .. j - 1 : m \in 0 .. Steps
        BY <1>0, <3>3
      <4> QED BY <1>0, <4>1
    <3> HIDE DEF X
    <3> QED BY <3>5, <3>6, <3>7
  <2> QED BY <2>2, <2>3
<1> QED BY <1>4, <1>5 DEF R

(* A list without a circle ends.                                           *)
LEMMA EndsDef ==
  ASSUME NEW h \in FB \cup {Null}, NEW nx \in Pointers, Ends(h, nx)
  PROVE  Walk(h, nx)[Steps] = Null
<1> SUFFICES ASSUME Walk(h, nx)[Steps] # Null PROVE FALSE
  OBVIOUS
<1> DEFINE w == Walk(h, nx)
<1>0. Steps \in Nat /\ Reach(h, nx) = {w[k] : k \in 0 .. Steps} \ {Null} /\ Null \notin FB
  BY StepsType, BlockAssumption DEF Reach, Steps
<1>1. \A k \in 1 .. Steps : w[k] = IF w[k - 1] = Null THEN Null ELSE nx[w[k - 1]]
  BY WalkDef
<1>2. \A k \in 0 .. Steps : w[k] \in FB
  BY Recurs
<1>3. PICK i \in 0 .. Steps : \E j \in i + 1 .. Steps : w[i] = w[j]
  BY Recurs
<1>4. PICK j \in i + 1 .. Steps : w[i] = w[j]
  BY <1>3
<1> HIDE DEF w
<1> DEFINE X == {w[m] : m \in i .. j - 1}
<1>5. i \in i .. j - 1 /\ j \in 1 .. Steps /\ i \in Nat /\ j - 1 \in 0 .. Steps
  BY <1>0, <1>3, <1>4
<1>6. X \subseteq Reach(h, nx) /\ X # {}
  <2>1. \A m \in i .. j - 1 : m \in 0 .. Steps
    BY <1>0, <1>5
  <2> QED BY <1>0, <1>2, <1>5, <2>1
<1>7. PICK x \in X : nx[x] \notin X
  <2> HIDE DEF X
  <2> QED BY <1>6 DEF Ends
<1>8. PICK m \in i .. j - 1 : w[m] = x
  OBVIOUS
<1>9. m + 1 \in 1 .. Steps /\ (m + 1) - 1 = m /\ m \in 0 .. Steps
  BY <1>0, <1>5, <1>8
<1>10. w[m + 1] = nx[x]
  BY <1>0, <1>1, <1>2, <1>8, <1>9
<1>11. CASE m = j - 1
  <2>1. m + 1 = j
    BY <1>5, <1>8, <1>11
  <2> QED BY <1>4, <1>5, <1>7, <1>10, <2>1
<1>12. CASE m # j - 1
  <2>1. m + 1 \in i .. j - 1
    BY <1>5, <1>8, <1>12
  <2> QED BY <1>7, <1>10, <2>1
<1> QED BY <1>11, <1>12

(* What a search along the list for a successor in S comes to.             *)
LEMMA SearchDef ==
  ASSUME NEW h \in FB \cup {Null}, NEW nx \in Pointers, NEW S, Null \in S, h \notin S,
         NEW p \in FirstBefore(h, nx, S)
  PROVE  /\ p \in FB /\ nx[p] \in S /\ p \notin S /\ p \in Reach(h, nx)
         /\ \A X \in SUBSET FB :
              h \in X /\ (\A x \in X : nx[x] \notin S => nx[x] \in X) => p \in X
         /\ nx[p] = Null => \A x \in Reach(h, nx) : x \notin S
<1> DEFINE w == Walk(h, nx)
<1>0. Steps \in Nat /\ Null \notin FB /\ Reach(h, nx) = {w[k] : k \in 0 .. Steps} \ {Null}
  BY StepsType, BlockAssumption DEF Reach, Steps
<1>1. /\ w[0] = h /\ \A k \in 1 .. Steps : w[k] = IF w[k - 1] = Null THEN Null ELSE nx[w[k - 1]]
      /\ \A k \in 0 .. Steps : w[k] \in FB \cup {Null}
  BY WalkDef, WalkType
<1>2. PICK k \in 0 .. Steps : p \in FB /\ w[k] = p /\ nx[p] \in S /\ \A j \in 0 .. (k - 1) : nx[w[j]] \notin S
  BY DEF FirstBefore, Steps
<1> HIDE DEF w
<1>3. ASSUME NEW X \in SUBSET FB, h \in X, \A x \in X : nx[x] \notin S => nx[x] \in X
      PROVE  \A j \in 0 .. k : w[j] \in X
  <2> DEFINE T == {m \in 0 .. k : w[m] \notin X}
  <2> SUFFICES ASSUME T # {} PROVE FALSE
    OBVIOUS
  <2>1. PICK m \in T : \A j \in T : m <= j
    <3>1. T \in SUBSET Nat
      BY <1>0
    <3> HIDE DEF T
    <3> QED BY <3>1, LeastNumber
  <2>2. m # 0
    BY <1>1, <1>3, <2>1
  <2>3. m \in 1 .. Steps /\ m - 1 \in 0 .. (k - 1) /\ m - 1 \in 0 .. k /\ m - 1 \notin T
    BY <1>0, <2>1, <2>2
  <2>4. w[m - 1] \in X
    BY <2>3
  <2>5. w[m] = nx[w[m - 1]] /\ nx[w[m - 1]] \notin S
    BY <1>0, <1>1, <1>2, <2>3, <2>4
  <2> QED BY <1>3, <2>1, <2>4, <2>5
<1>4. k \in 0 .. k /\ 0 \in 0 .. Steps
  BY <1>0, <1>2
<1>5. p \in Reach(h, nx)
  BY <1>0, <1>2
<1>6. p \notin S /\ h \in FB
  <2> DEFINE X == {x \in FB : x \notin S}
  <2>1. h \in X
    OBVIOUS
  <2>2. \A x \in X : nx[x] \notin S => nx[x] \in X
    BY DEF Pointers
  <2>3. \A j \in 0 .. k : w[j] \in X
    <3> HIDE DEF X
    <3>1. X \in SUBSET FB
      BY DEF X
    <3> QED BY <1>3, <2>1, <2>2, <3>1
  <2> QED BY <1>2, <1>4, <2>3
<1>7. ASSUME nx[p] = Null PROVE \A x \in Reach(h, nx) : x \notin S
  <2> DEFINE Z == {w[j] : j \in 0 .. k}
             X == {x \in Z : x \in FB /\ x \notin S}
  <2>1. \A j \in 0 .. (k - 1) : j \in 0 .. k /\ j + 1 \in 0 .. k /\ j + 1 \in 1 .. Steps /\ (j + 1) - 1 = j
    BY <1>0, <1>2
  <2>2. h \in X
    <3>1. 0 \in 0 .. k
      BY <1>0, <1>2
    <3> QED BY <1>1, <1>6, <3>1
  <2>3. ASSUME NEW x \in X PROVE nx[x] \in X \cup {Null}
    <3>1. PICK j \in 0 .. k : w[j] = x
      OBVIOUS
    <3>2. CASE j = k
      BY <1>2, <1>7, <3>1, <3>2
    <3>3. CASE j # k
      <4>1. j \in 0 .. (k - 1)
        BY <1>0, <1>2, <3>1, <3>3
      <4>2. w[j + 1] = nx[x]
        BY <1>0, <1>1, <2>1, <3>1, <4>1
      <4>3. nx[x] \in Z /\ nx[x] \notin S /\ nx[x] \in FB \cup {Null}
        BY <1>2, <2>1, <3>1, <4>1, <4>2 DEF Pointers
      <4> QED BY <4>3
    <3> QED BY <3>2, <3>3
  <2>4. Reach(h, nx) \subseteq X
    <3> HIDE DEF X
    <3> QED BY <2>2, <2>3, ReachLeast
  <2> QED BY <2>4
<1>8. ASSUME NEW X \in SUBSET FB, h \in X, \A x \in X : nx[x] \notin S => nx[x] \in X
      PROVE  p \in X
  BY <1>2, <1>3, <1>4, <1>8
<1> QED BY <1>2, <1>5, <1>6, <1>7, <1>8

(* What addTimedFBEntry() makes of a list: f in front, or f behind p.      *)
InFront(f, h, nx, h2, nx2) == h2 = f /\ nx2 = [nx EXCEPT ![f] = h]
Behind(p, f, h, nx, h2, nx2) ==
  h2 = h /\ nx2 = [[nx EXCEPT ![f] = Null] EXCEPT ![f] = [nx EXCEPT ![f] = Null][p], ![p] = f]
After(at, f, t) == {Null} \cup {p \in FB : [at EXCEPT ![f] = t][p] > t}

LEMMA InsertDef ==
  ASSUME NEW h \in FB \cup {Null}, NEW nx \in Pointers, NEW at, NEW f \in FB, NEW t,
         NEW list \in Insert(h, nx, at, f, t)
  PROVE  \/ h \in After(at, f, t) /\ InFront(f, h, nx, list[1], list[2])
         \/ /\ h \in FB /\ h \notin After(at, f, t)
            /\ \E p \in FirstBefore(h, [nx EXCEPT ![f] = Null], After(at, f, t)) :
                 Behind(p, f, h, nx, list[1], list[2])
<1> DEFINE times == [at EXCEPT ![f] = t]
           cut   == [nx EXCEPT ![f] = Null]
           Later == {Null} \cup {p \in FB : times[p] > t}
<1>1. Insert(h, nx, at, f, t) =
        IF h \in Later THEN {<<f, [cut EXCEPT ![f] = h]>>}
        ELSE {<<h, [cut EXCEPT ![f] = cut[p], ![p] = f]>> : p \in FirstBefore(h, cut, Later)}
  BY DEF Insert
<1>2. Later = After(at, f, t)
  BY DEF After
<1>3. [cut EXCEPT ![f] = h] = [nx EXCEPT ![f] = h]
  BY DEF Pointers
<1>4. CASE h \in Later
  <2> HIDE DEF Later
  <2> QED BY <1>1, <1>2, <1>3, <1>4 DEF InFront
<1>5. CASE h \notin Later
  <2>1. h \in FB
    BY <1>5
  <2> HIDE DEF Later, cut
  <2>2. PICK p \in FirstBefore(h, cut, Later) : list = <<h, [cut EXCEPT ![f] = cut[p], ![p] = f]>>
    BY <1>1, <1>5
  <2>3. Behind(p, f, h, nx, list[1], list[2])
    BY <2>2 DEF Behind, cut
  <2> QED BY <1>2, <1>5, <2>1, <2>2, <2>3 DEF cut
<1> QED BY <1>4, <1>5

(* Where f has been put, as far as the pointers tell.                      *)
IsFirst(at, f, t, h, nx, h2, n2) ==
  /\ h \in After(at, f, t) /\ h2 = f /\ n2[f] = h
  /\ \A x \in FB \ {f} : n2[x] = nx[x]
IsBehind(p, at, f, t, h, nx, h2, n2) ==
  /\ h \in FB /\ h2 = h /\ p \notin After(at, f, t)
  /\ n2[p] = f
  /\ p # f => nx[p] \in After(at, f, t) /\ n2[f] = nx[p]
  /\ \A x \in FB \ {f, p} : n2[x] = nx[x]
  /\ p \in Reach(h, n2)

LEMMA InsertPlace ==
  ASSUME NEW h \in FB \cup {Null}, NEW nx \in Pointers, NEW at, NEW f \in FB, NEW t,
         NEW list \in Insert(h, nx, at, f, t)
  PROVE  /\ list[1] \in FB \cup {Null} /\ list[2] \in Pointers
         /\ \/ IsFirst(at, f, t, h, nx, list[1], list[2])
            \/ \E p \in Reach(h, nx) : IsBehind(p, at, f, t, h, nx, list[1], list[2])
<1> DEFINE L == After(at, f, t)
           cut == [nx EXCEPT ![f] = Null]
           h2 == list[1]
           n2 == list[2]
<1>0. Null \in L /\ Null \notin FB
  BY BlockAssumption DEF After
<1>1. cut \in Pointers /\ \A x \in FB : cut[x] = IF x = f THEN Null ELSE nx[x]
  BY DEF Pointers
<1>2. CASE h \in L /\ InFront(f, h, nx, h2, n2)
  BY <1>2 DEF InFront, IsFirst, Pointers
<1>3. CASE h \in FB /\ h \notin L /\ \E p \in FirstBefore(h, cut, L) : Behind(p, f, h, nx, h2, n2)
  <2>1. PICK p \in FirstBefore(h, cut, L) : Behind(p, f, h, nx, h2, n2)
    BY <1>3
  <2> HIDE DEF L, cut
  <2>2. /\ p \in FB /\ cut[p] \in L /\ p \notin L /\ p \in Reach(h, cut)
        /\ \A X \in SUBSET FB :
             h \in X /\ (\A x \in X : cut[x] \notin L => cut[x] \in X) => p \in X
    BY <1>0, <1>1, <1>3, SearchDef
  <2>3. /\ h2 = h /\ n2 \in Pointers /\ n2[p] = f /\ (p # f => n2[f] = cut[p])
        /\ \A x \in FB \ {f, p} : n2[x] = cut[x]
    <3>1. n2 = [cut EXCEPT ![f] = cut[p], ![p] = f] /\ h2 = h
      BY <2>1 DEF Behind, cut
    <3> HIDE DEF n2, h2
    <3> QED BY <1>1, <2>2, <3>1 DEF Pointers
  <2> HIDE DEF n2, h2
  <2>4. p \in Reach(h, nx)
    <3>1. /\ h \in Reach(h, nx) \cup {Null} /\ Reach(h, nx) \subseteq FB
          /\ \A x \in Reach(h, nx) : nx[x] \in Reach(h, nx) \cup {Null}
      BY ReachClosed
    <3>2. \A x \in Reach(h, nx) : cut[x] \in Reach(h, nx) \cup {Null}
      BY <1>1, <3>1
    <3>3. Reach(h, cut) \subseteq Reach(h, nx)
      BY <1>1, <3>1, <3>2, ReachLeast
    <3> QED BY <2>2, <3>3
  <2>5. p \in Reach(h, n2)
    <3>1. /\ h \in Reach(h, n2) /\ Reach(h, n2) \subseteq FB
          /\ \A x \in Reach(h, n2) : n2[x] \in Reach(h, n2) \cup {Null}
      BY <1>0, <1>3, <2>3, ReachClosed
    <3>2. ASSUME NEW x \in Reach(h, n2), cut[x] \notin L PROVE cut[x] \in Reach(h, n2)
      <4>1. x \in FB /\ x # f /\ x # p
        BY <1>0, <1>1, <2>2, <3>1, <3>2
      <4> QED BY <1>0, <2>3, <3>1, <3>2, <4>1
    <3> DEFINE X == Reach(h, n2)
    <3>3. X \in SUBSET FB /\ h \in X /\ \A x \in X : cut[x] \notin L => cut[x] \in X
      BY <3>1, <3>2
    <3> HIDE DEF X
    <3>4. p \in X
      BY <2>2, <3>3
    <3> QED BY <3>4 DEF X
  <2>6. IsBehind(p, at, f, t, h, nx, h2, n2)
    BY <1>0, <1>1, <1>3, <2>2, <2>3, <2>5 DEF IsBehind, L
  <2> QED BY <2>3, <2>4, <2>6 DEF h2, n2
<1> QED BY <1>2, <1>3, InsertDef

(* Whatever f was: it is on the list then, with nothing new but itself,    *)
(* and the other blocks have no more pointers than before.                 *)
LEMMA InsertAny ==
  ASSUME NEW h \in FB \cup {Null}, NEW nx \in Pointers, NEW at, NEW f \in FB, NEW t,
         NEW list \in Insert(h, nx, at, f, t)
  PROVE  /\ f \in Reach(list[1], list[2])
         /\ Reach(list[1], list[2]) \subseteq Reach(h, nx) \cup {f}
         /\ \A g \in FB \ {f} : Single(g, h, nx) => Single(g, list[1], list[2])
<1> DEFINE R == Reach(h, nx)
           h2 == list[1]
           n2 == list[2]
           R2 == Reach(h2, n2)
<1>0. Null \notin FB
  BY BlockAssumption
<1>1. /\ R \subseteq FB /\ h \in R \cup {Null} /\ \A x \in R : nx[x] \in R \cup {Null}
  BY ReachClosed
<1>2. h2 \in FB \cup {Null} /\ n2 \in Pointers
  BY InsertPlace
<1>3. /\ R2 \subseteq FB /\ h2 \in R2 \cup {Null} /\ \A x \in R2 : n2[x] \in R2 \cup {Null}
      /\ \A X : h2 \in X \cup {Null} /\ (\A x \in X : n2[x] \in X \cup {Null}) => R2 \subseteq X
  <2> HIDE DEF h2, n2
  <2> QED BY <1>2, ReachClosed, ReachLeast
<1>4. \A g : /\ Single(g, h, nx) <=> /\ h = g => \A x \in R : nx[x] # g
                                     /\ \A x, y \in R : nx[x] = g /\ nx[y] = g => x = y
             /\ Single(g, h2, n2) <=> /\ h2 = g => \A x \in R2 : n2[x] # g
                                      /\ \A x, y \in R2 : n2[x] = g /\ n2[y] = g => x = y
  BY DEF Single
<1>5. CASE /\ h2 = f /\ n2[f] = h
           /\ \A x \in FB \ {f} : n2[x] = nx[x]
  <2> HIDE DEF R, R2, h2, n2
  <2>1. \A x \in R \cup {f} : n2[x] \in R \cup {f} \cup {Null}
    BY <1>1, <1>5
  <2>2. R2 \subseteq R \cup {f}
    BY <1>3, <1>5, <2>1
  <2>3. ASSUME NEW g \in FB \ {f}, Single(g, h, nx) PROVE Single(g, h2, n2)
    <3>1. /\ h = g => \A x \in R : nx[x] # g
          /\ \A x, y \in R : nx[x] = g /\ nx[y] = g => x = y
      BY <1>4, <2>3
    <3>2. \A x \in R2 : n2[x] = IF x = f THEN h ELSE nx[x]
      BY <1>3, <1>5
    <3>3. \A x, y \in R2 : n2[x] = g /\ n2[y] = g => x = y
      BY <2>2, <3>1, <3>2
    <3> QED BY <1>4, <1>5, <2>3, <3>3
  <2> QED BY <1>0, <1>3, <1>5, <2>2, <2>3 DEF R, R2, h2, n2
<1>6. ASSUME NEW p \in R, h2 = h, n2[p] = f, p # f => n2[f] = nx[p],
             \A x \in FB \ {f, p} : n2[x] = nx[x], p \in Reach(h, n2)
      PROVE  /\ f \in R2 /\ R2 \subseteq R \cup {f}
             /\ \A g \in FB \ {f} : Single(g, h, nx) => Single(g, h2, n2)
  <2>0. p \in R2
    BY <1>6
  <2> HIDE DEF R, R2, h2, n2
  <2>1. \A x \in R \cup {f} : n2[x] \in R \cup {f} \cup {Null}
    BY <1>1, <1>6
  <2>2. R2 \subseteq R \cup {f}
    BY <1>1, <1>3, <1>6, <2>1
  <2>3. ASSUME NEW g \in FB \ {f}, Single(g, h, nx) PROVE Single(g, h2, n2)
    <3>1. /\ h = g => \A x \in R : nx[x] # g
          /\ \A x, y \in R : nx[x] = g /\ nx[y] = g => x = y
      BY <1>4, <2>3
    <3>2. \A x \in R2 : n2[x] = g => /\ x # p
                                     /\ x = f => nx[p] = g
                                     /\ x # f => x \in R /\ nx[x] = g
      BY <1>3, <1>6, <2>2, <2>3
    <3>3. h2 = g => \A x \in R2 : n2[x] # g
      BY <1>6, <3>1, <3>2
    <3>4. ASSUME NEW x \in R2, NEW y \in R2, n2[x] = g, n2[y] = g PROVE x = y
      BY <1>6, <3>1, <3>2, <3>4
    <3> QED BY <1>4, <3>3, <3>4
  <2>4. f \in R2
    BY <1>0, <1>3, <1>6, <2>0
  <2> QED BY <2>2, <2>3, <2>4
<1>7. IsFirst(at, f, t, h, nx, h2, n2) \/ \E p \in R : IsBehind(p, at, f, t, h, nx, h2, n2)
  BY InsertPlace
<1>8. ASSUME NEW p \in R, IsBehind(p, at, f, t, h, nx, h2, n2)
      PROVE  /\ f \in R2 /\ R2 \subseteq R \cup {f}
             /\ \A g \in FB \ {f} : Single(g, h, nx) => Single(g, h2, n2)
  <2> HIDE DEF R, R2, h2, n2
  <2> QED BY <1>6, <1>8 DEF IsBehind
<1>9. CASE IsFirst(at, f, t, h, nx, h2, n2)
  <2> HIDE DEF R, R2, h2, n2
  <2>1. /\ f \in R2 /\ R2 \subseteq R \cup {f}
        /\ \A g \in FB \ {f} : Single(g, h, nx) => Single(g, h2, n2)
    BY <1>5, <1>9 DEF IsFirst, R, R2, h2, n2
  <2> QED BY <2>1 DEF R, R2, h2, n2
<1> QED BY <1>7, <1>8, <1>9

(* A block that was not on the list comes in at its place.                 *)
LEMMA InsertNew ==
  ASSUME NEW h \in FB \cup {Null}, NEW nx \in Pointers, NEW at \in [FB -> Nat],
         NEW f \in FB \ Reach(h, nx), NEW t \in Nat,
         NEW list \in Insert(h, nx, at, f, t)
  PROVE  /\ Reach(list[1], list[2]) = Reach(h, nx) \cup {f}
         /\ Single(f, list[1], list[2])
         /\ Ends(h, nx) => Ends(list[1], list[2])
         /\ Sorted(h, nx, at) => Sorted(list[1], list[2], [at EXCEPT ![f] = t])
<1> DEFINE R == Reach(h, nx)
           h2 == list[1]
           n2 == list[2]
           R2 == Reach(h2, n2)
           L == After(at, f, t)
           at2 == [at EXCEPT ![f] = t]
<1>0. Null \notin FB /\ f \in FB /\ f \notin R
  BY BlockAssumption
<1>1. /\ R \subseteq FB /\ h \in R \cup {Null} /\ \A x \in R : nx[x] \in R \cup {Null}
      /\ \A X : h \in X \cup {Null} /\ (\A x \in X : nx[x] \in X \cup {Null}) => R \subseteq X
  BY ReachClosed, ReachLeast
<1>2. h2 \in FB \cup {Null} /\ n2 \in Pointers
  BY InsertPlace
<1>3. /\ R2 \subseteq FB /\ h2 \in R2 \cup {Null} /\ \A x \in R2 : n2[x] \in R2 \cup {Null}
  <2> HIDE DEF h2, n2
  <2> QED BY <1>2, ReachClosed
<1>4. f \in R2 /\ R2 \subseteq R \cup {f}
  BY <1>0, InsertAny
<1>5. /\ Ends(h, nx) <=> \A X \in SUBSET R : X # {} => \E x \in X : nx[x] \notin X
      /\ Ends(h2, n2) <=> \A X \in SUBSET R2 : X # {} => \E x \in X : n2[x] \notin X
      /\ Sorted(h, nx, at) <=> \A x \in R : nx[x] # Null => at[x] <= at[nx[x]]
      /\ Sorted(h2, n2, at2) <=> \A x \in R2 : n2[x] # Null => at2[x] <= at2[n2[x]]
      /\ Single(f, h2, n2) <=> /\ h2 = f => \A x \in R2 : n2[x] # f
                               /\ \A x, y \in R2 : n2[x] = f /\ n2[y] = f => x = y
  BY DEF Ends, Sorted, Single
<1>6. /\ at2 \in [FB -> Nat] /\ at2[f] = t /\ \A x \in FB \ {f} : at2[x] = at[x]
      /\ \A x \in L : x # Null => at2[x] > t
      /\ \A x \in FB : x \notin L => at2[x] <= t
  <2>1. at2 \in [FB -> Nat] /\ at2[f] = t /\ \A x \in FB \ {f} : at2[x] = at[x]
    BY <1>0
  <2>2. L = {Null} \cup {p \in FB : at2[p] > t}
    BY DEF After
  <2> HIDE DEF at2, L
  <2> QED BY <2>1, <2>2
<1>7. IsFirst(at, f, t, h, nx, h2, n2) \/ \E p \in R : IsBehind(p, at, f, t, h, nx, h2, n2)
  BY InsertPlace
<1> DEFINE Goal == /\ R2 = R \cup {f} /\ Single(f, h2, n2)
                   /\ Ends(h, nx) => Ends(h2, n2)
                   /\ Sorted(h, nx, at) => Sorted(h2, n2, at2)
<1>8. ASSUME h \in L, h2 = f, n2[f] = h, \A x \in FB \ {f} : n2[x] = nx[x]
      PROVE  Goal
  <2> HIDE DEF R, R2, h2, n2, at2, L
  <2>1. R \subseteq R2
    <3>1. \A x \in R2 \ {f} : nx[x] \in (R2 \ {f}) \cup {Null}
      BY <1>0, <1>1, <1>3, <1>4, <1>8
    <3>2. h \in (R2 \ {f}) \cup {Null}
      BY <1>0, <1>1, <1>3, <1>4, <1>8
    <3> QED BY <1>1, <3>1, <3>2
  <2>2. R2 = R \cup {f}
    BY <1>4, <2>1
  <2>3. \A x \in R2 : n2[x] # f
    BY <1>0, <1>1, <1>8, <2>2
  <2>4. ASSUME Ends(h, nx), NEW X \in SUBSET R2, X # {} PROVE \E x \in X : n2[x] \notin X
    <3>1. CASE X = {f}
      BY <1>0, <1>4, <2>3, <3>1
    <3>2. CASE X # {f}
      <4>1. X \ {f} \in SUBSET R /\ X \ {f} # {}
        BY <2>2, <2>4, <3>2
      <4>2. PICK x \in X \ {f} : nx[x] \notin X \ {f}
        BY <1>5, <2>4, <4>1
      <4> QED BY <1>0, <1>1, <1>8, <4>1, <4>2
    <3> QED BY <3>1, <3>2
  <2>5. ASSUME Sorted(h, nx, at), NEW x \in R2, n2[x] # Null PROVE at2[x] <= at2[n2[x]]
    <3>1. CASE x = f
      <4>1. at2[h] > t /\ h \in FB
        BY <1>6, <1>8, <2>5, <3>1
      <4> QED BY <1>6, <1>8, <3>1, <4>1
    <3>2. CASE x # f
      <4>1. x \in R /\ n2[x] = nx[x] /\ nx[x] \in R
        BY <1>1, <1>8, <2>2, <2>5, <3>2
      <4>2. at[x] <= at[nx[x]]
        BY <1>5, <2>5, <4>1
      <4> QED BY <1>0, <1>1, <1>6, <4>1, <4>2
    <3> QED BY <3>1, <3>2
  <2> QED BY <1>5, <2>2, <2>3, <2>4, <2>5
<1>9. ASSUME NEW p \in R, h \in FB, h2 = h, p \notin L, n2[p] = f,
             p # f => nx[p] \in L /\ n2[f] = nx[p],
             \A x \in FB \ {f, p} : n2[x] = nx[x]
      PROVE  Goal
  <2> HIDE DEF R, R2, h2, n2, at2, L
  <2>0. p # f /\ p \in FB /\ nx[p] \in L /\ n2[f] = nx[p]
    BY <1>0, <1>1, <1>9
  <2>1. R \subseteq R2
    <3>1. \A x \in R2 \ {f} : nx[x] \in (R2 \ {f}) \cup {Null}
      BY <1>0, <1>1, <1>3, <1>4, <1>9, <2>0
    <3>2. h \in (R2 \ {f}) \cup {Null}
      BY <1>0, <1>1, <1>3, <1>4, <1>9
    <3> QED BY <1>1, <3>1, <3>2
  <2>2. R2 = R \cup {f}
    BY <1>4, <2>1
  <2>3. \A x \in R2 : n2[x] = f => x = p
    BY <1>0, <1>1, <1>9, <2>0, <2>2
  <2>30. h2 # f /\ n2[f] # f
    BY <1>0, <1>1, <1>9, <2>0
  <2>4. ASSUME Ends(h, nx), NEW X \in SUBSET R2, X # {} PROVE \E x \in X : n2[x] \notin X
    <3>1. CASE X = {f}
      BY <2>30, <3>1
    <3>2. CASE X # {f}
      <4>1. X \ {f} \in SUBSET R /\ X \ {f} # {}
        BY <2>2, <2>4, <3>2
      <4>2. PICK x \in X \ {f} : nx[x] \notin X \ {f}
        BY <1>5, <2>4, <4>1
      <4>3. nx[x] # f /\ x \in R /\ x \in FB
        BY <1>0, <1>1, <4>1, <4>2
      <4>4. CASE x = p
        BY <1>9, <2>0, <4>2, <4>3, <4>4
      <4>5. CASE x # p
        BY <1>9, <4>2, <4>3, <4>5
      <4> QED BY <4>4, <4>5
    <3> QED BY <3>1, <3>2
  <2>5. ASSUME Sorted(h, nx, at), NEW x \in R2, n2[x] # Null PROVE at2[x] <= at2[n2[x]]
    <3>1. CASE x = f
      <4>1. at2[nx[p]] > t /\ nx[p] \in FB
        BY <1>1, <1>6, <2>0, <2>5, <3>1
      <4> QED BY <1>6, <2>0, <3>1, <4>1
    <3>2. CASE x = p
      <4>1. at2[p] <= t
        BY <1>6, <1>9, <2>0
      <4> QED BY <1>6, <1>9, <3>2, <4>1
    <3>3. CASE x # f /\ x # p
      <4>1. x \in R /\ n2[x] = nx[x] /\ nx[x] \in R
        BY <1>1, <1>9, <2>2, <2>5, <3>3
      <4>2. at[x] <= at[nx[x]]
        BY <1>5, <2>5, <4>1
      <4> QED BY <1>0, <1>1, <1>6, <4>1, <4>2
    <3> QED BY <3>1, <3>2, <3>3
  <2> QED BY <1>5, <2>2, <2>3, <2>30, <2>4, <2>5
<1> HIDE DEF R, R2, h2, n2, at2, L, Goal
<1>10. Goal
  BY <1>7, <1>8, <1>9 DEF IsFirst, IsBehind, L
<1> QED BY <1>10 DEF Goal, R, R2, h2, n2, at2

(* What unregisterTimedFB(), and nextTick() for its first entry, make of   *)
(* a list: f goes from the front, or from behind p, or it was not there.   *)
FromFront(f, h, nx, h2, n2) ==
  h = f /\ h2 = nx[f] /\ n2[f] = Null /\ \A x \in FB \ {f} : n2[x] = nx[x]
FromBehind(p, f, h, nx, h2, n2) ==
  /\ h # f /\ h2 = h /\ p # f /\ nx[p] = f /\ n2[p] = nx[f] /\ n2[f] = Null
  /\ \A x \in FB \ {f, p} : n2[x] = nx[x]
  /\ p \in Reach(h, n2)
NotThere(f, h, nx, h2, n2) == h # f /\ f \notin Reach(h, nx) /\ h2 = h /\ n2 = nx

TakenOut(f, h, nx, h2, n2) ==
  /\ h2 \in FB \cup {Null} /\ n2 \in Pointers
  /\ \/ FromFront(f, h, nx, h2, n2)
     \/ \E p \in Reach(h, nx) : FromBehind(p, f, h, nx, h2, n2)
     \/ NotThere(f, h, nx, h2, n2)

(* Whatever f was, the others stay and have no more pointers than before.  *)
LEMMA TakenOutAny ==
  ASSUME NEW h \in FB \cup {Null}, NEW nx \in Pointers, NEW f \in FB,
         NEW h2, NEW n2, TakenOut(f, h, nx, h2, n2)
  PROVE  /\ Reach(h2, n2) \subseteq Reach(h, nx)
         /\ Reach(h, nx) \subseteq Reach(h2, n2) \cup {f}
         /\ \A g \in FB \ {f} : Single(g, h, nx) => Single(g, h2, n2)
<1> DEFINE R == Reach(h, nx)
           R2 == Reach(h2, n2)
<1>0. Null \notin FB
  BY BlockAssumption
<1>1. /\ R \subseteq FB /\ h \in R \cup {Null} /\ \A x \in R : nx[x] \in R \cup {Null}
      /\ \A X : h \in X \cup {Null} /\ (\A x \in X : nx[x] \in X \cup {Null}) => R \subseteq X
  BY ReachClosed, ReachLeast
<1>2. h2 \in FB \cup {Null} /\ n2 \in Pointers
  BY DEF TakenOut
<1>3. /\ R2 \subseteq FB /\ h2 \in R2 \cup {Null} /\ \A x \in R2 : n2[x] \in R2 \cup {Null}
      /\ \A X : h2 \in X \cup {Null} /\ (\A x \in X : n2[x] \in X \cup {Null}) => R2 \subseteq X
  BY <1>2, ReachClosed, ReachLeast
<1>4. \A g : /\ Single(g, h, nx) <=> /\ h = g => \A x \in R : nx[x] # g
                                     /\ \A x, y \in R : nx[x] = g /\ nx[y] = g => x = y
             /\ Single(g, h2, n2) <=> /\ h2 = g => \A x \in R2 : n2[x] # g
                                      /\ \A x, y \in R2 : n2[x] = g /\ n2[y] = g => x = y
  BY DEF Single
<1> DEFINE Goal == /\ R2 \subseteq R /\ R \subseteq R2 \cup {f}
                   /\ \A g \in FB \ {f} : Single(g, h, nx) => Single(g, h2, n2)
<1>5. ASSUME FromFront(f, h, nx, h2, n2) PROVE Goal
  <2> HIDE DEF R, R2
  <2>0. f \in R /\ nx[f] \in R \cup {Null}
    BY <1>0, <1>1, <1>5 DEF FromFront
  <2>1. \A x \in R : n2[x] \in R \cup {Null}
    BY <1>1, <1>5 DEF FromFront
  <2>2. R2 \subseteq R
    BY <1>3, <1>5, <2>0, <2>1 DEF FromFront
  <2>3. \A x \in R2 \cup {f} : nx[x] \in R2 \cup {f} \cup {Null}
    BY <1>3, <1>5 DEF FromFront
  <2>4. R \subseteq R2 \cup {f}
    BY <1>1, <1>5, <2>3 DEF FromFront
  <2>5. ASSUME NEW g \in FB \ {f}, Single(g, h, nx) PROVE Single(g, h2, n2)
    <3>1. \A x \in R2 : n2[x] = g => x \in R /\ x # f /\ nx[x] = g
      BY <1>0, <1>3, <1>5, <2>2, <2>5 DEF FromFront
    <3>2. \A x, y \in R : nx[x] = g /\ nx[y] = g => x = y
      BY <1>4, <2>5
    <3>3. h2 = g => \A x \in R2 : n2[x] # g
      BY <1>5, <2>0, <3>1, <3>2 DEF FromFront
    <3>4. ASSUME NEW x \in R2, NEW y \in R2, n2[x] = g, n2[y] = g PROVE x = y
      BY <3>1, <3>2, <3>4
    <3> QED BY <1>4, <3>3, <3>4
  <2> QED BY <2>2, <2>4, <2>5
<1>6. ASSUME NEW p \in R, FromBehind(p, f, h, nx, h2, n2) PROVE Goal
  <2>00. p \in R2
    BY <1>6 DEF FromBehind
  <2> HIDE DEF R, R2
  <2>0. f \in R /\ nx[f] \in R \cup {Null} /\ p \in FB
    BY <1>0, <1>1, <1>6 DEF FromBehind
  <2>1. \A x \in R : n2[x] \in R \cup {Null}
    BY <1>1, <1>6, <2>0 DEF FromBehind
  <2>2. R2 \subseteq R
    BY <1>1, <1>3, <1>6, <2>1 DEF FromBehind
  <2>3. \A x \in R2 \cup {f} : nx[x] \in R2 \cup {f} \cup {Null}
    BY <1>3, <1>6, <2>00 DEF FromBehind
  <2>4. R \subseteq R2 \cup {f}
    BY <1>1, <1>3, <1>6, <2>3 DEF FromBehind
  <2>5. ASSUME NEW g \in FB \ {f}, Single(g, h, nx) PROVE Single(g, h2, n2)
    <3>1. \A x \in R2 : n2[x] = g => /\ x # f /\ x \in R
                                     /\ x = p => nx[f] = g
                                     /\ x # p => nx[x] = g
      BY <1>0, <1>3, <1>6, <2>2, <2>5 DEF FromBehind
    <3>2. /\ h = g => \A x \in R : nx[x] # g
          /\ \A x, y \in R : nx[x] = g /\ nx[y] = g => x = y
      BY <1>4, <2>5
    <3>3. h2 = g => \A x \in R2 : n2[x] # g
      BY <1>6, <2>0, <3>1, <3>2 DEF FromBehind
    <3>4. ASSUME NEW x \in R2, NEW y \in R2, n2[x] = g, n2[y] = g PROVE x = y
      BY <2>0, <3>1, <3>2, <3>4
    <3> QED BY <1>4, <3>3, <3>4
  <2> QED BY <2>2, <2>4, <2>5
<1>7. ASSUME NotThere(f, h, nx, h2, n2) PROVE Goal
  BY <1>0, <1>1, <1>7 DEF NotThere
<1> HIDE DEF Goal, R, R2
<1>8. Goal
  BY <1>5, <1>6, <1>7 DEF TakenOut, R, Goal
<1> QED BY <1>8 DEF Goal, R, R2

LEMMA NotReached ==
  ASSUME NEW h \in FB \cup {Null}, NEW nx \in Pointers, NEW f \in FB \ Reach(h, nx)
  PROVE  Single(f, h, nx)
<1>1. /\ h \in Reach(h, nx) \cup {Null} /\ f # Null
      /\ \A x \in Reach(h, nx) : nx[x] \in Reach(h, nx) \cup {Null}
  BY ReachClosed, BlockAssumption
<1> QED BY <1>1 DEF Single

(* A block to which one pointer leads has gone, and what was in order is.  *)
LEMMA TakenOutSingle ==
  ASSUME NEW h \in FB \cup {Null}, NEW nx \in Pointers, NEW f \in FB,
         NEW h2, NEW n2, TakenOut(f, h, nx, h2, n2), Single(f, h, nx),
         NEW at \in [FB -> Nat], NEW at2 \in [FB -> Nat], \A x \in FB \ {f} : at2[x] = at[x]
  PROVE  /\ f \notin Reach(h2, n2)
         /\ Ends(h, nx) => Ends(h2, n2)
         /\ Sorted(h, nx, at) => Sorted(h2, n2, at2)
<1> DEFINE R == Reach(h, nx)
           R2 == Reach(h2, n2)
<1>0. Null \notin FB
  BY BlockAssumption
<1>1. /\ R \subseteq FB /\ h \in R \cup {Null} /\ \A x \in R : nx[x] \in R \cup {Null}
  BY ReachClosed
<1>2. h2 \in FB \cup {Null} /\ n2 \in Pointers
  BY DEF TakenOut
<1>3. /\ R2 \subseteq FB /\ h2 \in R2 \cup {Null} /\ \A x \in R2 : n2[x] \in R2 \cup {Null}
      /\ \A X : h2 \in X \cup {Null} /\ (\A x \in X : n2[x] \in X \cup {Null}) => R2 \subseteq X
  BY <1>2, ReachClosed, ReachLeast
<1>4. /\ h = f => \A x \in R : nx[x] # f
      /\ \A x, y \in R : nx[x] = f /\ nx[y] = f => x = y
  BY DEF Single
<1>5. R2 \subseteq R
  BY TakenOutAny
<1>6. /\ Ends(h, nx) <=> \A X \in SUBSET R : X # {} => \E x \in X : nx[x] \notin X
      /\ Ends(h2, n2) <=> \A X \in SUBSET R2 : X # {} => \E x \in X : n2[x] \notin X
      /\ Sorted(h, nx, at) <=> \A x \in R : nx[x] # Null => at[x] <= at[nx[x]]
      /\ Sorted(h2, n2, at2) <=> \A x \in R2 : n2[x] # Null => at2[x] <= at2[n2[x]]
  BY DEF Ends, Sorted
<1> DEFINE Goal == /\ f \notin R2
                   /\ Ends(h, nx) => Ends(h2, n2)
                   /\ Sorted(h, nx, at) => Sorted(h2, n2, at2)
<1> HIDE DEF R, R2
<1>7. ASSUME FromFront(f, h, nx, h2, n2) PROVE Goal
  <2>0. f \in R
    BY <1>0, <1>1, <1>7 DEF FromFront
  <2>1. f \notin R2
    <3>1. h2 \in (R \ {f}) \cup {Null} /\ \A x \in R \ {f} : n2[x] \in (R \ {f}) \cup {Null}
      BY <1>1, <1>4, <1>7, <2>0 DEF FromFront
    <3> QED BY <1>3, <3>1
  <2>2. \A x \in R2 : n2[x] = nx[x] /\ x # f /\ x \in R
    BY <1>3, <1>5, <1>7, <2>1 DEF FromFront
  <2>3. Ends(h, nx) => Ends(h2, n2)
    BY <1>5, <1>6, <2>2
  <2>4. ASSUME Sorted(h, nx, at), NEW x \in R2, n2[x] # Null PROVE at2[x] <= at2[n2[x]]
    <3>1. n2[x] \in R2 /\ n2[x] # f /\ n2[x] \in FB /\ x \in FB
      BY <1>3, <2>1, <2>4
    <3> QED BY <1>6, <2>2, <2>4, <3>1
  <2> QED BY <1>6, <2>1, <2>3, <2>4
<1>8. ASSUME NEW p \in R, FromBehind(p, f, h, nx, h2, n2) PROVE Goal
  <2>0. f \in R /\ p \in FB /\ nx[f] # f
    BY <1>0, <1>1, <1>4, <1>8 DEF FromBehind
  <2>1. f \notin R2
    <3>1. h2 \in (R \ {f}) \cup {Null}
      BY <1>1, <1>8 DEF FromBehind
    <3>2. ASSUME NEW x \in R \ {f} PROVE n2[x] \in (R \ {f}) \cup {Null}
      <4>1. CASE x = p
        BY <1>1, <1>8, <2>0, <4>1 DEF FromBehind
      <4>2. CASE x # p
        BY <1>1, <1>4, <1>8, <2>0, <4>2 DEF FromBehind
      <4> QED BY <4>1, <4>2
    <3> QED BY <1>3, <3>1, <3>2
  <2>2. \A x \in R2 : /\ x # f /\ x \in R /\ x \in FB
                      /\ x = p => n2[x] = nx[f]
                      /\ x # p => n2[x] = nx[x]
    BY <1>3, <1>5, <1>8, <2>1 DEF FromBehind
  <2>3. ASSUME Ends(h, nx), NEW X \in SUBSET R2, X # {} PROVE \E x \in X : n2[x] \notin X
    <3>1. CASE p \notin X
      BY <1>5, <1>6, <2>2, <2>3, <3>1
    <3>2. CASE p \in X
      <4>1. X \cup {f} \in SUBSET R /\ X \cup {f} # {}
        BY <1>5, <2>0, <2>3
      <4>2. PICK x \in X \cup {f} : nx[x] \notin X \cup {f}
        BY <1>6, <2>3, <4>1
      <4>3. x # p
        BY <1>8, <4>2 DEF FromBehind
      <4>4. CASE x = f
        BY <2>2, <3>2, <4>2, <4>4
      <4>5. CASE x # f
        BY <2>2, <4>2, <4>3, <4>5
      <4> QED BY <4>4, <4>5
    <3> QED BY <3>1, <3>2
  <2>4. ASSUME Sorted(h, nx, at), NEW x \in R2, n2[x] # Null PROVE at2[x] <= at2[n2[x]]
    <3>1. n2[x] \in R2 /\ n2[x] # f /\ n2[x] \in FB /\ x \in FB /\ at2[x] = at[x] /\ at2[n2[x]] = at[n2[x]]
      BY <1>3, <2>1, <2>4
    <3>2. CASE x = p
      <4>1. at[p] <= at[f]
        <5>1. nx[p] = f /\ f # Null
          BY <1>0, <1>8 DEF FromBehind
        <5> QED BY <1>6, <2>4, <5>1
      <4>2. at[f] <= at[nx[f]] /\ nx[f] = n2[x]
        BY <1>6, <2>0, <2>2, <2>4, <3>2
      <4> QED BY <2>0, <3>1, <3>2, <4>1, <4>2
    <3>3. CASE x # p
      BY <1>6, <2>2, <2>4, <3>1, <3>3
    <3> QED BY <3>2, <3>3
  <2> QED BY <1>6, <2>1, <2>3, <2>4
<1>9. ASSUME NotThere(f, h, nx, h2, n2) PROVE Goal
  <2>1. f \notin R2 /\ h2 = h /\ n2 = nx /\ R2 = R
    BY <1>9 DEF NotThere, R, R2
  <2>2. ASSUME Sorted(h, nx, at), NEW x \in R2, n2[x] # Null PROVE at2[x] <= at2[n2[x]]
    <3>1. n2[x] \in R2 /\ n2[x] # f /\ n2[x] \in FB /\ x \in FB /\ x # f
      BY <1>3, <2>1, <2>2
    <3> QED BY <1>6, <2>1, <2>2, <3>1
  <2> QED BY <1>6, <2>1, <2>2
<1> HIDE DEF Goal
<1>10. Goal
  BY <1>7, <1>8, <1>9 DEF TakenOut, R, Goal
<1> QED BY <1>10 DEF Goal, R, R2

(* How the actions change the timer's list: f is taken out, put in, or, as *)
(* the first entry, put in again.                                          *)
OthersStay(f) ==
  \A g \in FB \ {f} : /\ Single(g, head, next) => Single(g, head', next')
                      /\ timeout'[g] = timeout[g]
KeepsOrder ==
  /\ Ends(head, next) => Ends(head', next')
  /\ Sorted(head, next, timeout) => Sorted(head', next', timeout')

Removes(f) ==
  /\ Listed' \subseteq Listed /\ Listed \subseteq Listed' \cup {f}
  /\ OthersStay(f)
  /\ Single(f, head, next) => f \notin Listed' /\ Single(f, head', next') /\ KeepsOrder

Adds(f, t) ==
  /\ f \in Listed' /\ Listed' \subseteq Listed \cup {f}
  /\ OthersStay(f)
  /\ timeout'[f] = t
  /\ f \notin Listed => Listed' = Listed \cup {f} /\ Single(f, head', next') /\ KeepsOrder

Renews(f) ==
  /\ Listed' = Listed /\ OthersStay(f) /\ Single(f, head', next') /\ KeepsOrder

LEMMA ListedIsReach == Listed = Reach(head, next) /\ Listed' = Reach(head', next')
BY DEF Listed, Reach

LEMMA ListTypes ==
  ListType => /\ head \in FB \cup {Null} /\ next \in Pointers /\ timeout \in [FB -> Nat]
              /\ \A i \in Interval \cup {0} : Distance(i) \in Nat
              /\ Null \notin FB
BY TimeoutsAreNat, Constants DEF ListType, Pointers

LEMMA RegisterAdds ==
  ASSUME ListType, NEW f \in FB, NEW i \in Interval, RegisterTimedFB(f, i)
  PROVE  Adds(f, Distance(i))
<1>0. /\ head \in FB \cup {Null} /\ next \in Pointers /\ timeout \in [FB -> Nat]
      /\ Distance(i) \in Nat
  BY ListTypes
<1>1. PICK list \in Insert(head, next, timeout, f, Distance(i)) : head' = list[1] /\ next' = list[2]
  BY DEF RegisterTimedFB
<1>2. timeout' = [timeout EXCEPT ![f] = Distance(i)]
  BY DEF RegisterTimedFB
<1>3. /\ f \in Reach(list[1], list[2])
      /\ Reach(list[1], list[2]) \subseteq Reach(head, next) \cup {f}
      /\ \A g \in FB \ {f} : Single(g, head, next) => Single(g, list[1], list[2])
  BY <1>0, <1>1, InsertAny
<1>4. ASSUME f \notin Listed
      PROVE  /\ Reach(list[1], list[2]) = Reach(head, next) \cup {f}
             /\ Single(f, list[1], list[2])
             /\ Ends(head, next) => Ends(list[1], list[2])
             /\ Sorted(head, next, timeout) => Sorted(list[1], list[2], timeout')
  <2>1. f \in FB \ Reach(head, next)
    BY <1>4, ListedIsReach
  <2>2. /\ Reach(list[1], list[2]) = Reach(head, next) \cup {f}
        /\ Single(f, list[1], list[2])
        /\ Ends(head, next) => Ends(list[1], list[2])
        /\ Sorted(head, next, timeout)
             => Sorted(list[1], list[2], [timeout EXCEPT ![f] = Distance(i)])
    BY <1>0, <1>1, <2>1, InsertNew
  <2> QED BY <1>2, <2>2
<1>5. OthersStay(f) /\ timeout'[f] = Distance(i)
  BY <1>0, <1>1, <1>2, <1>3 DEF OthersStay
<1>6. f \notin Listed => Listed' = Listed \cup {f} /\ Single(f, head', next') /\ KeepsOrder
  BY <1>1, <1>4, ListedIsReach DEF KeepsOrder
<1> QED BY <1>1, <1>3, <1>5, <1>6, ListedIsReach DEF Adds

LEMMA TakenOutRemoves ==
  ASSUME ListType, NEW f \in FB, TakenOut(f, head, next, head', next'),
         timeout' \in [FB -> Nat], \A g \in FB \ {f} : timeout'[g] = timeout[g]
  PROVE  Removes(f)
<1>0. head \in FB \cup {Null} /\ next \in Pointers /\ timeout \in [FB -> Nat]
  BY ListTypes
<1> DEFINE h2 == head'
           n2 == next'
           t2 == timeout'
<1>1. TakenOut(f, head, next, h2, n2) /\ t2 \in [FB -> Nat] /\ \A g \in FB \ {f} : t2[g] = timeout[g]
  OBVIOUS
<1> HIDE DEF h2, n2, t2
<1>2. /\ Reach(h2, n2) \subseteq Reach(head, next)
      /\ Reach(head, next) \subseteq Reach(h2, n2) \cup {f}
      /\ \A g \in FB \ {f} : Single(g, head, next) => Single(g, h2, n2)
  BY <1>0, <1>1, TakenOutAny
<1>3. ASSUME Single(f, head, next)
      PROVE  /\ f \notin Reach(h2, n2) /\ Single(f, h2, n2)
             /\ Ends(head, next) => Ends(h2, n2)
             /\ Sorted(head, next, timeout) => Sorted(h2, n2, t2)
  <2>1. /\ f \notin Reach(h2, n2)
        /\ Ends(head, next) => Ends(h2, n2)
        /\ Sorted(head, next, timeout) => Sorted(h2, n2, t2)
    BY <1>0, <1>1, <1>3, TakenOutSingle
  <2>2. h2 \in FB \cup {Null} /\ n2 \in Pointers
    BY <1>1 DEF TakenOut
  <2> QED BY <2>1, <2>2, NotReached
<1>4. OthersStay(f)
  BY <1>1, <1>2 DEF OthersStay, h2, n2, t2
<1>5. Single(f, head, next) => f \notin Listed' /\ Single(f, head', next') /\ KeepsOrder
  BY <1>3, ListedIsReach DEF KeepsOrder, h2, n2, t2
<1> QED BY <1>2, <1>4, <1>5, ListedIsReach DEF Removes, h2, n2

(* The first entry goes.                                                   *)
LEMMA PopRemoves ==
  ASSUME ListType, NEW f \in FB, head = f, head' = next[f], next' = [next EXCEPT ![f] = Null],
         timeout' = [timeout EXCEPT ![f] = 0]
  PROVE  Removes(f)
<1>0. head \in FB \cup {Null} /\ next \in Pointers /\ timeout \in [FB -> Nat]
  BY ListTypes
<1>1. FromFront(f, head, next, head', next') /\ head' \in FB \cup {Null} /\ next' \in Pointers
  BY <1>0 DEF FromFront, Pointers
<1>2. TakenOut(f, head, next, head', next')
  BY <1>1 DEF TakenOut
<1>3. timeout' \in [FB -> Nat] /\ \A g \in FB \ {f} : timeout'[g] = timeout[g]
  BY <1>0
<1> QED BY <1>2, <1>3, TakenOutRemoves

LEMMA UnregisterRemoves ==
  ASSUME ListType, NEW f \in FB, UnregisterTimedFB(f)
  PROVE  Removes(f)
<1>0. /\ head \in FB \cup {Null} /\ next \in Pointers /\ timeout \in [FB -> Nat] /\ Null \notin FB
  BY ListTypes
<1>1. CASE head = f /\ head' = next[f] /\ next' = [next EXCEPT ![f] = Null]
           /\ timeout' = [timeout EXCEPT ![f] = 0]
  BY <1>1, PopRemoves
<1>2. ASSUME head \notin {f, Null}, head' = head,
             NEW p \in FirstBefore(head, next, {f, Null}),
             IF next[p] = f
             THEN /\ next' = [next EXCEPT ![p] = next[f], ![f] = Null]
                  /\ timeout' = [timeout EXCEPT ![f] = 0]
             ELSE UNCHANGED <<next, timeout>>
      PROVE  Removes(f)
  <2> DEFINE S == {f, Null}
  <2>0. Null \in S /\ head \notin S /\ p \in FirstBefore(head, next, S)
    BY <1>2
  <2> HIDE DEF S
  <2>1. /\ p \in FB /\ next[p] \in S /\ p \notin S /\ p \in Reach(head, next)
        /\ \A X \in SUBSET FB :
             head \in X /\ (\A x \in X : next[x] \notin S => next[x] \in X) => p \in X
        /\ next[p] = Null => \A x \in Reach(head, next) : x \notin S
    BY <1>0, <2>0, SearchDef
  <2>2. CASE next[p] = f
    <3>1. next' = [next EXCEPT ![p] = next[f], ![f] = Null] /\ timeout' = [timeout EXCEPT ![f] = 0]
      BY <1>2, <2>2
    <3>2. p # f /\ head # f
      BY <1>2, <2>1 DEF S
    <3>3. /\ next' \in Pointers /\ next'[p] = next[f] /\ next'[f] = Null
          /\ \A x \in FB \ {f, p} : next'[x] = next[x]
      BY <1>0, <2>1, <3>1, <3>2 DEF Pointers
    <3>4. p \in Reach(head', next')
      <4> DEFINE n2 == next'
                 h2 == head'
                 Y == Reach(h2, n2)
                 X == Y \ {f}
      <4>1. h2 \in FB \cup {Null} /\ n2 \in Pointers /\ h2 = head
        BY <1>0, <1>2, <3>3
      <4>2. /\ \A x \in FB \ {f, p} : n2[x] = next[x]
        BY <3>3
      <4> HIDE DEF h2, n2
      <4>3. Y \subseteq FB /\ h2 \in Y \cup {Null} /\ \A x \in Y : n2[x] \in Y \cup {Null}
        BY <4>1, ReachClosed
      <4> HIDE DEF Y
      <4>4. head \in X /\ X \in SUBSET FB
        BY <1>0, <1>2, <4>1, <4>3
      <4>5. ASSUME NEW x \in X, next[x] \notin S PROVE next[x] \in X
        <5>1. x \in FB \ {f, p}
          BY <2>2, <4>3, <4>5 DEF S
        <5> QED BY <4>2, <4>3, <4>5, <5>1 DEF S
      <4> HIDE DEF X
      <4>6. p \in X
        BY <2>1, <4>4, <4>5
      <4> QED BY <4>6 DEF X, Y, h2, n2
    <3>5. FromBehind(p, f, head, next, head', next')
      BY <1>2, <2>2, <3>2, <3>3, <3>4 DEF FromBehind
    <3>6. TakenOut(f, head, next, head', next')
      BY <1>0, <1>2, <2>1, <3>3, <3>5 DEF TakenOut
    <3>7. timeout' \in [FB -> Nat] /\ \A g \in FB \ {f} : timeout'[g] = timeout[g]
      BY <1>0, <3>1
    <3> QED BY <3>6, <3>7, TakenOutRemoves
  <2>3. CASE next[p] # f
    <3>1. next[p] = Null
      BY <2>1, <2>3 DEF S
    <3>2. UNCHANGED <<next, timeout>>
      BY <1>2, <2>3
    <3>3. NotThere(f, head, next, head', next')
      BY <1>2, <2>1, <3>1, <3>2 DEF NotThere, S
    <3>4. TakenOut(f, head, next, head', next')
      BY <1>0, <1>2, <3>2, <3>3 DEF TakenOut
    <3> QED BY <1>0, <3>2, <3>4, TakenOutRemoves
  <2> QED BY <2>2, <2>3
<1>3. CASE head = Null /\ UNCHANGED <<head, next, timeout>>
  <2>1. Reach(head, next) \subseteq {}
    <3> DEFINE X == {}
    <3>1. head \in X \cup {Null} /\ \A x \in X : next[x] \in X \cup {Null}
      BY <1>3
    <3> HIDE DEF X
    <3>2. Reach(head, next) \subseteq X
      BY <1>0, <3>1, ReachLeast
    <3> QED BY <3>2 DEF X
  <2>2. NotThere(f, head, next, head', next')
    BY <1>0, <1>3, <2>1 DEF NotThere
  <2>3. TakenOut(f, head, next, head', next')
    BY <1>0, <1>3, <2>2 DEF TakenOut
  <2> QED BY <1>0, <1>3, <2>3, TakenOutRemoves
<1>4. CASE /\ head \notin {f, Null}
           /\ \E p \in FirstBefore(head, next, {f, Null}) :
                IF next[p] = f
                THEN /\ next' = [next EXCEPT ![p] = next[f], ![f] = Null]
                     /\ timeout' = [timeout EXCEPT ![f] = 0]
                ELSE UNCHANGED <<next, timeout>>
           /\ UNCHANGED head
  BY <1>2, <1>4
<1> QED BY <1>1, <1>3, <1>4 DEF UnregisterTimedFB

(* f's own pointer and timeout do not matter when it is put in.            *)
PutIn(h, cut, times, f, t) ==
  LET Later == {Null} \cup {p \in FB : times[p] > t}
  IN  IF h \in Later THEN {<<f, [cut EXCEPT ![f] = h]>>}
      ELSE {<<h, [cut EXCEPT ![f] = cut[p], ![p] = f]>> : p \in FirstBefore(h, cut, Later)}

LEMMA InsertResets ==
  ASSUME NEW h, NEW n1, NEW n2, NEW at1, NEW at2, NEW f, NEW t,
         [n1 EXCEPT ![f] = Null] = [n2 EXCEPT ![f] = Null],
         [at1 EXCEPT ![f] = t] = [at2 EXCEPT ![f] = t]
  PROVE  Insert(h, n1, at1, f, t) = Insert(h, n2, at2, f, t)
<1>1. Insert(h, n1, at1, f, t) = PutIn(h, [n1 EXCEPT ![f] = Null], [at1 EXCEPT ![f] = t], f, t)
  BY Zenon DEF Insert, PutIn
<1>2. Insert(h, n2, at2, f, t) = PutIn(h, [n2 EXCEPT ![f] = Null], [at2 EXCEPT ![f] = t], f, t)
  BY Zenon DEF Insert, PutIn
<1> QED BY <1>1, <1>2

(* The first entry, of a cycle, goes and comes in again.                   *)
LEMMA RequeueRenews ==
  ASSUME ListType, NEW f \in FB, head = f, type[f] = "E_CYCLE", Single(f, head, next),
         Requeue(f)
  PROVE  Renews(f) /\ timeout'[f] = Distance(period[f])
<1>0. /\ head \in FB \cup {Null} /\ next \in Pointers /\ timeout \in [FB -> Nat] /\ Null \notin FB
      /\ Distance(period[f]) \in Nat
  BY ListTypes DEF ListType, WordsOK
<1> DEFINE h1 == next[f]
           n1 == [next EXCEPT ![f] = Null]
           at1 == [timeout EXCEPT ![f] = 0]
           t == Distance(period[f])
<1>1. timeout' = [timeout EXCEPT ![f] = t]
  BY DEF Requeue
<1>2. PICK list \in Insert(h1, next, timeout, f, t) : head' = list[1] /\ next' = list[2]
  BY DEF Requeue
<1>3. list \in Insert(h1, n1, at1, f, t)
  <2>1. [at1 EXCEPT ![f] = t] = [timeout EXCEPT ![f] = t] /\ [n1 EXCEPT ![f] = Null] = [next EXCEPT ![f] = Null]
    BY <1>0 DEF Pointers
  <2> HIDE DEF h1, n1, at1, t
  <2>2. Insert(h1, n1, at1, f, t) = Insert(h1, next, timeout, f, t)
    BY <2>1, InsertResets
  <2> QED BY <1>2, <2>2
<1>4. h1 \in FB \cup {Null} /\ n1 \in Pointers /\ at1 \in [FB -> Nat] /\ t \in Nat
  BY <1>0 DEF Pointers
<1>5. FromFront(f, head, next, h1, n1) /\ \A x \in FB \ {f} : at1[x] = timeout[x]
  BY <1>0 DEF FromFront, Pointers
<1>6. head = f /\ \A g \in FB \ {f} : timeout'[g] = timeout[g]
  BY <1>0, <1>1
<1> DEFINE at2 == [at1 EXCEPT ![f] = t]
<1>7. at2 = timeout' /\ timeout'[f] = t
  BY <1>0, <1>1
<1> HIDE DEF h1, n1, at1, t, at2
<1>8. TakenOut(f, head, next, h1, n1)
  BY <1>4, <1>5 DEF TakenOut
<1>9. /\ Reach(h1, n1) \subseteq Reach(head, next)
      /\ Reach(head, next) \subseteq Reach(h1, n1) \cup {f}
      /\ \A g \in FB \ {f} : Single(g, head, next) => Single(g, h1, n1)
  BY <1>0, <1>8, TakenOutAny
<1>10. /\ f \notin Reach(h1, n1)
       /\ Ends(head, next) => Ends(h1, n1)
       /\ Sorted(head, next, timeout) => Sorted(h1, n1, at1)
  BY <1>0, <1>4, <1>5, <1>8, TakenOutSingle
<1>11. \A g \in FB \ {f} : Single(g, h1, n1) => Single(g, list[1], list[2])
  BY <1>3, <1>4, InsertAny
<1>12. /\ Reach(list[1], list[2]) = Reach(h1, n1) \cup {f}
       /\ Single(f, list[1], list[2])
       /\ Ends(h1, n1) => Ends(list[1], list[2])
       /\ Sorted(h1, n1, at1) => Sorted(list[1], list[2], at2)
  <2>1. f \in FB \ Reach(h1, n1)
    BY <1>10
  <2> QED BY <1>3, <1>4, <2>1, InsertNew DEF at2
<1>13. f \in Reach(head, next)
  BY <1>0, <1>6, ReachClosed
<1>14. Listed' = Listed
  BY <1>2, <1>9, <1>12, <1>13, ListedIsReach
<1>15. OthersStay(f)
  BY <1>2, <1>6, <1>9, <1>11 DEF OthersStay
<1>16. KeepsOrder
  <2>1. Sorted(head, next, timeout) => Sorted(list[1], list[2], timeout')
    BY <1>7, <1>10, <1>12
  <2> QED BY <1>2, <1>10, <1>12, <2>1 DEF KeepsOrder
<1> QED BY <1>2, <1>7, <1>12, <1>14, <1>15, <1>16 DEF Renews, t

(* The shape of the list after each of these changes.                      *)
LEMMA RemovesShape ==
  ASSUME ListShape, NEW f \in FB, Removes(f), overtaken \subseteq overtaken'
  PROVE  ListShape'
<1>1. \A g \in FB \ overtaken' : Single(g, head', next')
  BY DEF ListShape, Removes, OthersStay
<1>2. overtaken' = {} => Ends(head', next') /\ Sorted(head', next', timeout')
  BY DEF ListShape, Removes, KeepsOrder
<1> QED BY <1>1, <1>2 DEF ListShape

LEMMA AddsShape ==
  ASSUME ListShape, NEW f \in FB, NEW t, Adds(f, t), overtaken' = overtaken,
         f \in Listed => f \in overtaken
  PROVE  ListShape'
<1>1. \A g \in FB \ overtaken' : Single(g, head', next')
  BY DEF ListShape, Adds, OthersStay
<1>2. overtaken' = {} => Ends(head', next') /\ Sorted(head', next', timeout')
  BY DEF ListShape, Adds, KeepsOrder
<1> QED BY <1>1, <1>2 DEF ListShape

LEMMA RenewsShape ==
  ASSUME ListShape, NEW f \in FB, Renews(f), overtaken' = overtaken
  PROVE  ListShape'
<1>1. \A g \in FB \ overtaken' : Single(g, head', next')
  BY DEF ListShape, Renews, OthersStay
<1>2. overtaken' = {} => Ends(head', next') /\ Sorted(head', next', timeout')
  BY DEF ListShape, Renews, KeepsOrder
<1> QED BY <1>1, <1>2 DEF ListShape

-----------------------------------------------------------------------------
(* How often an event is in an event list.                                 *)

PlacesOf(q, e) == {k \in DOMAIN q : q[k] = e}
Count(q, e) == Cardinality(PlacesOf(q, e))

LEMMA CountType ==
  ASSUME NEW S, NEW q \in Seq(S), NEW e
  PROVE  /\ PlacesOf(q, e) = {k \in 1 .. Len(q) : q[k] = e}
         /\ IsFiniteSet(PlacesOf(q, e)) /\ Count(q, e) \in Nat
         /\ Count(q, e) > 0 <=> \E k \in 1 .. Len(q) : q[k] = e
<1>1. Len(q) \in Nat /\ DOMAIN q = 1 .. Len(q)
  BY LenProperties
<1>2. PlacesOf(q, e) = {k \in 1 .. Len(q) : q[k] = e}
  BY <1>1 DEF PlacesOf
<1>3. IsFiniteSet(1 .. Len(q)) /\ PlacesOf(q, e) \in SUBSET (1 .. Len(q))
  BY <1>1, <1>2, FS_Interval
<1>4. IsFiniteSet(PlacesOf(q, e))
  BY <1>3, FS_Subset
<1>5. Count(q, e) \in Nat /\ (Count(q, e) = 0 <=> PlacesOf(q, e) = {})
  BY <1>4, FS_CardinalityType, FS_EmptySet DEF Count
<1> QED BY <1>2, <1>4, <1>5

LEMMA ShiftCardinality ==
  ASSUME NEW T \in SUBSET Nat, IsFiniteSet(T), NEW n \in Nat
  PROVE  /\ IsFiniteSet({k + n : k \in T})
         /\ Cardinality({k + n : k \in T}) = Cardinality(T)
<1> DEFINE U == {k + n : k \in T}
           m == [k \in T |-> k + n]
<1>1. m \in [T -> U]
  OBVIOUS
<1>2. \A a, b \in T : m[a] = m[b] => a = b
  OBVIOUS
<1>3. \A u \in U : \E k \in T : m[k] = u
  OBVIOUS
<1> HIDE DEF m, U
<1>4. m \in Bijection(T, U)
  BY <1>1, <1>2, <1>3 DEF Bijection, Injection, Surjection, IsInjective
<1>5. ExistsBijection(T, U)
  BY <1>4 DEF ExistsBijection
<1>6. IsFiniteSet(U) /\ Cardinality(U) = Cardinality(T)
  BY <1>5, FS_Bijection
<1> QED BY <1>6 DEF U

LEMMA CountConcat ==
  ASSUME NEW S, NEW q \in Seq(S), NEW r \in Seq(S), NEW e
  PROVE  Count(q \o r, e) = Count(q, e) + Count(r, e)
<1> DEFINE s == q \o r
           A == PlacesOf(q, e)
           B == PlacesOf(r, e)
           C == {k + Len(q) : k \in B}
<1>1. /\ s \in Seq(S) /\ Len(s) = Len(q) + Len(r) /\ Len(q) \in Nat /\ Len(r) \in Nat
      /\ \A i \in 1 .. Len(q) + Len(r) : s[i] = IF i <= Len(q) THEN q[i] ELSE r[i - Len(q)]
  BY ConcatProperties, LenProperties
<1>2. /\ A = {k \in 1 .. Len(q) : q[k] = e} /\ B = {k \in 1 .. Len(r) : r[k] = e}
      /\ IsFiniteSet(A) /\ IsFiniteSet(B) /\ Count(q, e) \in Nat /\ Count(r, e) \in Nat
  BY CountType
<1>3. PlacesOf(s, e) = {k \in 1 .. Len(s) : s[k] = e}
  BY <1>1, CountType
<1> HIDE DEF s, A, B
<1>4. PlacesOf(s, e) = A \cup C
  <2>1. ASSUME NEW k \in PlacesOf(s, e) PROVE k \in A \cup C
    <3>1. k \in 1 .. Len(q) + Len(r) /\ s[k] = e
      BY <1>1, <1>3
    <3>2. CASE k <= Len(q)
      BY <1>1, <1>2, <3>1, <3>2
    <3>3. CASE ~(k <= Len(q))
      <4>1. k - Len(q) \in 1 .. Len(r) /\ (k - Len(q)) + Len(q) = k
        BY <1>1, <3>1, <3>3
      <4>2. r[k - Len(q)] = e
        BY <1>1, <3>1, <3>3
      <4> QED BY <1>2, <4>1, <4>2
    <3> QED BY <3>2, <3>3
  <2>2. ASSUME NEW k \in A PROVE k \in PlacesOf(s, e)
    BY <1>1, <1>2, <1>3
  <2>3. ASSUME NEW j \in B PROVE j + Len(q) \in PlacesOf(s, e)
    <3>1. j \in 1 .. Len(r) /\ r[j] = e
      BY <1>2
    <3>2. j + Len(q) \in 1 .. Len(q) + Len(r) /\ ~(j + Len(q) <= Len(q)) /\ (j + Len(q)) - Len(q) = j
      BY <1>1, <3>1
    <3>3. s[j + Len(q)] = r[j]
      BY <1>1, <3>2
    <3> QED BY <1>1, <1>3, <3>1, <3>2, <3>3
  <2> QED BY <2>1, <2>2, <2>3
<1>5. A \cap C = {}
  BY <1>1, <1>2
<1>6. B \in SUBSET Nat
  BY <1>1, <1>2
<1>7. IsFiniteSet(C) /\ Cardinality(C) = Cardinality(B)
  BY <1>1, <1>2, <1>6, ShiftCardinality
<1> HIDE DEF C
<1>8. Cardinality(A \cup C) = Cardinality(A) + Cardinality(C) - Cardinality(A \cap C)
  BY <1>2, <1>7, FS_Union
<1>9. Cardinality(A \cap C) = 0
  BY <1>5, FS_EmptySet
<1> QED BY <1>2, <1>4, <1>7, <1>8, <1>9 DEF Count, A, B, s

LEMMA CountOne ==
  ASSUME NEW S, NEW x \in S, NEW e
  PROVE  <<x>> \in Seq(S) /\ Count(<<x>>, e) = IF x = e THEN 1 ELSE 0
<1>1. <<x>> \in Seq(S) /\ Len(<<x>>) = 1 /\ <<x>>[1] = x
  OBVIOUS
<1>2. PlacesOf(<<x>>, e) = {k \in 1 .. 1 : <<x>>[k] = e}
  BY <1>1, CountType
<1>3. PlacesOf(<<x>>, e) = IF x = e THEN {1} ELSE {}
  BY <1>1, <1>2
<1>4. Cardinality({1}) = 1 /\ Cardinality({}) = 0
  BY FS_Singleton, FS_EmptySet
<1> QED BY <1>1, <1>3, <1>4 DEF Count

LEMMA CountAppend ==
  ASSUME NEW S, NEW q \in Seq(S), NEW x \in S, NEW e
  PROVE  Count(Append(q, x), e) = Count(q, e) + (IF x = e THEN 1 ELSE 0)
<1>1. Append(q, x) = q \o <<x>>
  BY AppendIsConcat
<1>2. <<x>> \in Seq(S) /\ Count(<<x>>, e) = IF x = e THEN 1 ELSE 0
  BY CountOne
<1>3. Count(q \o <<x>>, e) = Count(q, e) + Count(<<x>>, e)
  BY <1>2, CountConcat
<1> QED BY <1>1, <1>2, <1>3

LEMMA CountTail ==
  ASSUME NEW S, NEW q \in Seq(S), q # <<>>, NEW e
  PROVE  Count(q, e) = Count(Tail(q), e) + (IF Head(q) = e THEN 1 ELSE 0)
<1> DEFINE h == Head(q)
           t == Tail(q)
           s == <<h>> \o t
<1>1. /\ h \in S /\ t \in Seq(S) /\ Len(t) = Len(q) - 1 /\ Len(q) \in Nat /\ Len(q) > 0
      /\ \A i \in 1 .. Len(t) : t[i] = q[i + 1]
  BY HeadTailProperties, LenProperties, EmptySeq
<1>2. h = q[1]
  OBVIOUS
<1>3. <<h>> \in Seq(S) /\ Len(<<h>>) = 1 /\ <<h>>[1] = h /\ Count(<<h>>, e) = IF h = e THEN 1 ELSE 0
  BY <1>1, CountOne
<1> HIDE DEF h, t
<1>4. /\ s \in Seq(S) /\ Len(s) = 1 + Len(t)
      /\ \A i \in 1 .. 1 + Len(t) : s[i] = IF i <= 1 THEN <<h>>[i] ELSE t[i - 1]
  BY <1>1, <1>3, ConcatProperties
<1>5. ASSUME NEW i \in 1 .. Len(q) PROVE s[i] = q[i]
  <2>1. CASE i = 1
    BY <1>1, <1>2, <1>3, <1>4, <2>1
  <2>2. CASE i # 1
    <3>1. i - 1 \in 1 .. Len(t) /\ (i - 1) + 1 = i /\ i \in 1 .. 1 + Len(t) /\ ~(i <= 1)
      BY <1>1, <2>2
    <3>2. t[i - 1] = q[(i - 1) + 1]
      BY <1>1, <3>1
    <3> QED BY <1>4, <3>1, <3>2
  <2> QED BY <2>1, <2>2
<1>6. Count(s, e) = Count(<<h>>, e) + Count(t, e)
  BY <1>1, <1>3, CountConcat
<1>7. PlacesOf(q, e) = {k \in 1 .. Len(q) : q[k] = e} /\ Count(t, e) \in Nat
  BY <1>1, CountType
<1> HIDE DEF s
<1>8. PlacesOf(s, e) = {k \in 1 .. Len(s) : s[k] = e} /\ Len(s) = Len(q)
  BY <1>1, <1>4, CountType
<1>9. PlacesOf(s, e) = PlacesOf(q, e)
  BY <1>5, <1>7, <1>8
<1>10. Count(q, e) = Count(<<h>>, e) + Count(t, e)
  BY <1>6, <1>9 DEF Count
<1> QED BY <1>3, <1>7, <1>10 DEF h, t

LEMMA CountPrefix ==
  ASSUME NEW S, NEW q \in Seq(S), NEW n \in 0 .. Len(q), NEW e
  PROVE  /\ SubSeq(q, 1, n) \in Seq(S)
         /\ Count(SubSeq(q, 1, n), e) <= Count(q, e)
         /\ \A x : x \in Elements(SubSeq(q, 1, n)) <=> Count(SubSeq(q, 1, n), x) > 0
         /\ \A x : x \in Elements(q) <=> Count(q, x) > 0
<1> DEFINE p == SubSeq(q, 1, n)
<1>0. Len(q) \in Nat /\ n \in Nat /\ n <= Len(q) /\ DOMAIN q = 1 .. Len(q)
  BY LenProperties
<1>1. \A i \in 1 .. n : q[i] \in S /\ i \in 1 .. Len(q) /\ 1 + i - 1 = i
  <2>1. \A i \in 1 .. n : i \in 1 .. Len(q) /\ 1 + i - 1 = i
    BY <1>0
  <2> QED BY <1>0, <2>1, ElementOfSeq
<1>2. p \in Seq(S) /\ Len(p) = n /\ \A i \in 1 .. n : p[i] = q[i]
  <2>1. /\ p \in Seq(S) /\ Len(p) = IF 1 <= n THEN n - 1 + 1 ELSE 0
        /\ \A i \in 1 .. n - 1 + 1 : p[i] = q[1 + i - 1]
    BY <1>0, <1>1, SubSeqProperties
  <2>2. n - 1 + 1 = n /\ (~(1 <= n) => n = 0)
    BY <1>0
  <2>3. Len(p) = n
    BY <2>1, <2>2
  <2>4. ASSUME NEW i \in 1 .. n PROVE p[i] = q[i]
    BY <1>1, <2>1, <2>2
  <2> QED BY <2>1, <2>3, <2>4
<1> HIDE DEF p
<1>3. PlacesOf(p, e) \in SUBSET PlacesOf(q, e) /\ IsFiniteSet(PlacesOf(q, e))
  <2>1. /\ PlacesOf(p, e) = {k \in 1 .. Len(p) : p[k] = e}
        /\ PlacesOf(q, e) = {k \in 1 .. Len(q) : q[k] = e}
        /\ IsFiniteSet(PlacesOf(q, e))
    BY <1>2, CountType
  <2> QED BY <1>1, <1>2, <2>1
<1>4. Count(p, e) <= Count(q, e)
  BY <1>3, FS_Subset DEF Count
<1>5. DOMAIN p = 1 .. Len(p)
  BY <1>2, LenProperties
<1>6. ASSUME NEW x
      PROVE  /\ x \in Elements(p) <=> Count(p, x) > 0
             /\ x \in Elements(q) <=> Count(q, x) > 0
  <2>1. /\ Count(p, x) > 0 <=> \E k \in 1 .. Len(p) : p[k] = x
        /\ Count(q, x) > 0 <=> \E k \in 1 .. Len(q) : q[k] = x
    BY <1>2, CountType
  <2> QED BY <1>0, <1>5, <2>1 DEF Elements
<1> QED BY <1>2, <1>4, <1>6 DEF p

-----------------------------------------------------------------------------
(* The timer events that are on the way to a block.                        *)

LEMMA PendingIs ==
  ASSUME NEW f
  PROVE  /\ Pending(f) = Count(external, Ext(f)) + Count(queue, Ext(f))
                           + (IF current = Ext(f) THEN 1 ELSE 0)
         /\ Pending(f)' = Count(external', Ext(f)) + Count(queue', Ext(f))
                            + (IF current' = Ext(f) THEN 1 ELSE 0)
BY DEF Pending, Executing, Ext, Count, PlacesOf

LEMMA PendingType ==
  ASSUME TypeOK, NEW f
  PROVE  /\ Count(external, Ext(f)) \in Nat /\ Count(queue, Ext(f)) \in Nat
         /\ Pending(f) \in Nat /\ OnList(f) \in {0, 1} /\ Timers(f) \in Nat
<1>1. Count(external, Ext(f)) \in Nat /\ Count(queue, Ext(f)) \in Nat
  BY CountType DEF TypeOK
<1>2. Pending(f) \in Nat
  BY <1>1, PendingIs
<1> QED BY <1>1, <1>2 DEF OnList, Timers

(* Neither event list changes, and f does not get or handle its event.     *)
LEMMA PendingKept ==
  ASSUME UNCHANGED <<external, queue>>, NEW f, current' = Ext(f) <=> current = Ext(f)
  PROVE  Pending(f)' = Pending(f)
<1>1. (IF current' = Ext(f) THEN 1 ELSE 0) = (IF current = Ext(f) THEN 1 ELSE 0)
  OBVIOUS
<1> QED BY <1>1, PendingIs

LEMMA PendingSent ==
  ASSUME TypeOK, NEW g \in FB, NEW input \in {"START", "STOP"}, SendInputEvent(g, input), NEW f
  PROVE  Pending(f)' = Pending(f)
<1>1. <<g, input>> \in Event /\ <<g, input>> # Ext(f)
  BY DEF Event, Ext
<1>2. queue' = Append(queue, <<g, input>>) /\ external' = external /\ current' = current
  BY DEF SendInputEvent
<1>3. Count(queue', Ext(f)) = Count(queue, Ext(f)) + 0
  BY <1>1, <1>2, CountAppend DEF TypeOK
<1>4. Count(queue, Ext(f)) \in Nat
  BY PendingType
<1> QED BY <1>2, <1>3, <1>4, PendingIs

LEMMA PendingNotified ==
  ASSUME TypeOK, NEW g \in FB, Notify(g), UNCHANGED <<queue, current>>, NEW f \in FB
  PROVE  /\ f # g => Pending(f)' = Pending(f)
         /\ Pending(g)' <= Pending(g) + 1
         /\ g \notin lost' => Pending(g)' = Pending(g) + 1
         /\ lost \subseteq lost'
<1>1. Ext(g) \in Event /\ (f # g => Ext(f) # Ext(g))
  BY DEF Event, Ext
<1>2. \A x : Count(external, x) \in Nat /\ Count(queue, x) \in Nat
  BY CountType DEF TypeOK
<1>3. CASE Len(external) < ExternalLimit
  <2>1. external' = Append(external, Ext(g)) /\ lost' = lost
    BY <1>3 DEF Notify
  <2>2. Count(external', Ext(g)) = Count(external, Ext(g)) + 1
    BY <1>1, <2>1, CountAppend DEF TypeOK
  <2>3. f # g => Count(external', Ext(f)) = Count(external, Ext(f)) + 0
    BY <1>1, <2>1, CountAppend DEF TypeOK
  <2>4. Pending(g)' = Pending(g) + 1
    BY <1>2, <2>2, PendingIs
  <2>5. f # g => Pending(f)' = Pending(f)
    BY <1>2, <2>3, PendingIs
  <2>6. Pending(g) \in Nat
    BY PendingType
  <2> QED BY <2>1, <2>4, <2>5, <2>6
<1>4. CASE ~(Len(external) < ExternalLimit)
  <2>1. external' = external /\ lost' = lost \cup {g}
    BY <1>4 DEF Notify
  <2>2. Pending(g)' = Pending(g) /\ Pending(f)' = Pending(f)
    BY <2>1, PendingKept
  <2>3. Pending(g) \in Nat
    BY PendingType
  <2> QED BY <2>1, <2>2, <2>3
<1> QED BY <1>3, <1>4

LEMMA PendingReceived ==
  ASSUME TypeOK, ReceiveInputEvent, NEW f \in FB
  PROVE  /\ Pending(f)' <= Pending(f)
         /\ Pending(f)' \in Nat
         /\ f \notin lost' /\ fbState[f] = "RUNNING" /\ Pending(f) > 0 => Pending(f)' > 0
         /\ current' # <<>> => \E g \in FB : current'[1] = g /\ fbState[g] = "RUNNING"
         /\ lost \subseteq lost'
<1> DEFINE all     == queue \o external
           n       == IF Len(all) < ListLimit THEN Len(all) ELSE ListLimit
           pending == SubSeq(all, 1, n)
           e       == Ext(f)
<1>1. /\ current = <<>> /\ external' = <<>> /\ pending # <<>> /\ queue' = Tail(pending)
      /\ current' = IF fbState[Head(pending)[1]] = "RUNNING" THEN Head(pending) ELSE <<>>
      /\ lost' = lost \cup {g \in FB : Ext(g) \in Elements(all) \ Elements(pending)}
  BY DEF ReceiveInputEvent
<1>2. all \in Seq(Event) /\ Count(all, e) = Count(queue, e) + Count(external, e)
  BY CountConcat, ConcatProperties DEF TypeOK
<1>3. n \in 0 .. Len(all)
  BY <1>2, LenProperties, NumberAssumption
<1> HIDE DEF all, n
<1>4. /\ pending \in Seq(Event) /\ Count(pending, e) <= Count(all, e)
      /\ e \in Elements(pending) <=> Count(pending, e) > 0
      /\ e \in Elements(all) <=> Count(all, e) > 0
  BY <1>2, <1>3, CountPrefix
<1> HIDE DEF pending
<1>5. /\ Count(pending, e) = Count(Tail(pending), e) + (IF Head(pending) = e THEN 1 ELSE 0)
      /\ Tail(pending) \in Seq(Event) /\ Head(pending) \in Event
  BY <1>1, <1>4, CountTail, HeadTailProperties
<1>6. Count(<<>>, e) = 0
  <2>1. PlacesOf(<<>>, e) = {}
    BY DEF PlacesOf
  <2> QED BY <2>1, FS_EmptySet DEF Count
<1>7. /\ Count(pending, e) \in Nat /\ Count(all, e) \in Nat /\ Count(Tail(pending), e) \in Nat
      /\ Count(queue, e) \in Nat /\ Count(external, e) \in Nat
  BY <1>2, <1>4, <1>5, CountType DEF TypeOK
<1>8. e # <<>> /\ e[1] = f
  BY DEF Ext
<1>9. Pending(f) = Count(all, e)
  BY <1>1, <1>2, <1>7, <1>8, PendingIs
<1>10. Pending(f)' = Count(Tail(pending), e) + (IF current' = e THEN 1 ELSE 0)
  BY <1>1, <1>6, <1>7, PendingIs
<1>11. current' = e => Head(pending) = e
  BY <1>1, <1>8
<1>12. fbState[f] = "RUNNING" => (current' = e <=> Head(pending) = e)
  BY <1>1, <1>8
<1>13. Pending(f)' <= Pending(f) /\ Pending(f)' \in Nat
  BY <1>4, <1>5, <1>7, <1>9, <1>10, <1>11
<1>14. f \notin lost' /\ fbState[f] = "RUNNING" /\ Pending(f) > 0 => Pending(f)' > 0
  BY <1>1, <1>4, <1>5, <1>7, <1>9, <1>10, <1>12
<1>15. current' # <<>> => \E g \in FB : current'[1] = g /\ fbState[g] = "RUNNING"
  BY <1>1, <1>5 DEF Event
<1> QED BY <1>1, <1>13, <1>14, <1>15

LEMMA PendingExecuted ==
  ASSUME TypeOK, NEW g \in FB, Executing(g, "EXT"), current' = <<>>,
         UNCHANGED <<external, queue>>, NEW f \in FB
  PROVE  /\ f # g => Pending(f)' = Pending(f)
         /\ Pending(g)' = Pending(g) - 1 /\ Pending(g)' \in Nat
<1>1. /\ current = Ext(g) /\ current' # Ext(g) /\ current' # Ext(f)
      /\ f # g => current # Ext(f)
  BY DEF Executing, Ext
<1>2. /\ Count(external, Ext(g)) \in Nat /\ Count(queue, Ext(g)) \in Nat
      /\ Count(external, Ext(f)) \in Nat /\ Count(queue, Ext(f)) \in Nat
  BY PendingType
<1> QED BY <1>1, <1>2, PendingIs

-----------------------------------------------------------------------------
(* The invariant, block by block.                                          *)

DelayOK(f) ==
  /\ f \notin overtaken => DelayAtMost(f) /\ DelayTime(f)
  /\ f \notin lost \cup crossed /\ overtaken \subseteq {f} => DelayAtLeast(f)
CycleOK(f) ==
  /\ f \in Listed => Cycles(f)
  /\ overtaken = {} => (Cycles(f) => f \in Listed)
FlagOK(f) ==
  /\ Starting(f) => ~active[f] /\ ~Commanded(f)
  /\ Commanded(f) /\ current = <<f, "START">> => active[f] /\ step = "begin"
BlockOK(f) ==
  /\ type[f] # "E_CYCLE" => DelayOK(f)
  /\ type[f] = "E_CYCLE" => CycleOK(f)
  /\ type[f] # "E_RDELAY" => FlagOK(f)
  /\ type[f] = "E_RDELAY" /\ f \notin overtaken => RestartOK(f)
  /\ f \notin crossed => StoppedOK(f)

Blocks == \A f \in FB : BlockOK(f)

LEMMA ShapeIsBlocks ==
  /\ TimerShape <=> ListShape /\ StepShape /\ CommandShape /\ Blocks
  /\ TimerShape' <=> ListShape' /\ StepShape' /\ CommandShape' /\ Blocks'
<1>1. Stopped /\ Flagged /\ RestartsFlagged /\ DelaysAtMost /\ DelaysAtLeast /\ Cycled <=> Blocks
  BY DEF Blocks, BlockOK, DelayOK, CycleOK, FlagOK, Stopped, Flagged, RestartsFlagged, DelaysAtMost,
         DelaysAtLeast, Cycled, Delays, Of
<1>2. Stopped' /\ Flagged' /\ RestartsFlagged' /\ DelaysAtMost' /\ DelaysAtLeast' /\ Cycled' <=> Blocks'
  BY DEF Blocks, BlockOK, DelayOK, CycleOK, FlagOK, Stopped, Flagged, RestartsFlagged, DelaysAtMost,
         DelaysAtLeast, Cycled, Delays, Of
<1> QED BY <1>1, <1>2 DEF TimerShape

(* What a step that is not about g may do to it: take it out of a list     *)
(* that is broken, and drop its events as far as it notes that, or as far  *)
(* as g does not run.                                                      *)
Kept(g) ==
  /\ active'[g] = active[g]
  /\ Starting(g)' <=> Starting(g)
  /\ Stopping(g)' <=> Stopping(g)
  /\ Restarting(g)' <=> Restarting(g)
  /\ Commanded(g)' <=> Commanded(g)
  /\ OnCommand(g)' <=> OnCommand(g)
  /\ fbState'[g] = fbState[g]
  /\ fbState[g] # "RUNNING" /\ current' = <<g, "START">>
       => current = <<g, "START">> /\ step' = step
  /\ Pending(g)' <= Pending(g) /\ Pending(g)' \in Nat
  /\ g \in Listed' => g \in Listed
  /\ g \notin lost' /\ fbState[g] = "RUNNING" /\ overtaken \subseteq {g} /\ Timers(g) > 0
       => Timers(g)' > 0
  /\ overtaken = {} /\ g \in Listed => g \in Listed'
  /\ DelayTime(g) => DelayTime(g)'

Grows == /\ type' = type /\ overtaken \subseteq overtaken' /\ lost \subseteq lost'
         /\ crossed \subseteq crossed'

LEMMA KeptOK ==
  ASSUME TypeOK, CommandShape, NEW g \in FB, BlockOK(g), Kept(g), Grows
  PROVE  BlockOK(g)'
<1>1. /\ Timers(g)' = Pending(g)' + (IF g \in Listed' THEN 1 ELSE 0)
      /\ Timers(g) = Pending(g) + (IF g \in Listed THEN 1 ELSE 0)
  BY DEF Timers, OnList
<1>2. Timers(g)' <= Timers(g) /\ Timers(g)' \in Nat /\ Timers(g) \in Nat
  BY <1>1, PendingType DEF Kept
<1>3. Idle(g)' <=> Idle(g)
  BY DEF Kept, Idle
<1>4. type' = type
  BY DEF Grows
<1>5. ASSUME type[g] # "E_CYCLE" PROVE DelayOK(g)'
  <2>1. ASSUME g \notin overtaken' PROVE DelayAtMost(g)' /\ DelayTime(g)'
    <3>1. DelayAtMost(g) /\ DelayTime(g)
      BY <1>5, <2>1 DEF BlockOK, DelayOK, Grows
    <3>2. DelayTime(g)'
      BY <3>1 DEF Kept
    <3>3. Timers(g)' <= 1
      BY <1>2, <3>1 DEF DelayAtMost
    <3>4. Stopping(g)' \/ Restarting(g)' \/ Commanded(g)' => Timers(g)' = 0
      BY <1>2, <3>1 DEF DelayAtMost, Kept
    <3>5. Idle(g)' /\ ~active'[g] => Timers(g)' = 0
      BY <1>2, <1>3, <3>1 DEF DelayAtMost, Kept
    <3> QED BY <3>2, <3>3, <3>4, <3>5 DEF DelayAtMost
  <2>2. ASSUME g \notin lost' \cup crossed', overtaken' \subseteq {g}
        PROVE  DelayAtLeast(g)'
    <3>1. DelayAtLeast(g) /\ overtaken \subseteq {g}
      BY <1>4, <1>5, <2>2 DEF BlockOK, DelayOK, Grows
    <3>2. fbState[g] = "RUNNING" /\ Timers(g) > 0 => Timers(g)' > 0
      BY <2>2, <3>1 DEF Kept
    <3> QED BY <1>3, <3>1, <3>2 DEF DelayAtLeast, Kept
  <2> QED BY <2>1, <2>2 DEF DelayOK
<1>6. ASSUME type[g] = "E_CYCLE" PROVE CycleOK(g)'
  <2>1. Cycles(g)' <=> Cycles(g)
    BY DEF Cycles, Kept
  <2>2. CycleOK(g)
    BY <1>6 DEF BlockOK
  <2> QED BY <2>1, <2>2 DEF CycleOK, Kept, Grows
<1>7. OnCommand(g) => fbState[g] # "RUNNING"
  BY DEF CommandShape, OnCommand
<1>8. ASSUME type[g] # "E_RDELAY" PROVE FlagOK(g)'
  <2>1. FlagOK(g)
    BY <1>8 DEF BlockOK
  <2>2. Commanded(g) => OnCommand(g)
    BY DEF Commanded, OnCommand
  <2> QED BY <1>7, <2>1, <2>2 DEF FlagOK, Kept
<1>9. ASSUME type[g] = "E_RDELAY", g \notin overtaken' PROVE RestartOK(g)'
  <2>1. RestartOK(g)
    BY <1>9 DEF BlockOK, Grows
  <2> QED BY <1>7, <2>1 DEF RestartOK, Kept
<1>10. ASSUME g \notin crossed' PROVE StoppedOK(g)'
  <2>1. StoppedOK(g)
    BY <1>10 DEF BlockOK, Grows
  <2> QED BY <2>1 DEF StoppedOK, Kept
<1> QED BY <1>4, <1>5, <1>6, <1>8, <1>9, <1>10 DEF BlockOK

LEMMA ListShapeKept ==
  ASSUME ListShape, UNCHANGED <<head, next, timeout, overtaken>>
  PROVE  ListShape' /\ Listed' = Listed
BY DEF ListShape, Listed

(* Steps that change neither lists nor flags nor the event at hand.        *)
LEMMA QuietKept ==
  ASSUME TypeOK, UNCHANGED <<head, next, timeout, active, current, step, manager, stopping,
                              fbState, due, overtaken>>,
         NEW g \in FB, Pending(g)' = Pending(g)
  PROVE  Kept(g)
<1>1. Listed' = Listed
  BY DEF Listed
<1>2. /\ Starting(g)' <=> Starting(g)
      /\ Stopping(g)' <=> Stopping(g)
      /\ Restarting(g)' <=> Restarting(g)
      /\ Commanded(g)' <=> Commanded(g)
      /\ OnCommand(g)' <=> OnCommand(g)
  BY DEF Starting, Stopping, Restarting, Commanded, OnCommand
<1>3. Timers(g)' = Timers(g) /\ Pending(g) \in Nat
  BY <1>1, PendingType DEF Timers, OnList
<1>4. DelayTime(g) => DelayTime(g)'
  BY <1>1 DEF DelayTime
<1> QED BY <1>1, <1>2, <1>3, <1>4 DEF Kept

LEMMA InitShape == Init => TimerShape
<1> SUFFICES ASSUME Init PROVE TimerShape
  OBVIOUS
<1>0. head = Null /\ next \in Pointers /\ TypeOK
  BY InitInv DEF Init, Pointers, Inv
<1>1. Reach(head, next) = {}
  <2> DEFINE X == {}
  <2>1. head \in X \cup {Null} /\ \A x \in X : next[x] \in X \cup {Null}
    BY <1>0
  <2> HIDE DEF X
  <2>2. Reach(head, next) \subseteq X
    BY <1>0, <2>1, ReachLeast
  <2> QED BY <2>2 DEF X
<1>2. ListShape
  <2>1. Null \notin FB /\ overtaken = {}
    BY BlockAssumption DEF Init
  <2> QED BY <1>0, <1>1, <2>1 DEF ListShape, Single, Ends, Sorted
<1>3. StepShape /\ CommandShape
  BY DEF Init, StepShape, CommandShape, Delays
<1>4. ASSUME NEW f \in FB PROVE BlockOK(f)
  <2>1. f \notin Listed
    BY <1>1, ListedIsReach
  <2>2. Pending(f) = 0
    <3>1. PlacesOf(<<>>, Ext(f)) = {}
      BY DEF PlacesOf
    <3>2. Count(<<>>, Ext(f)) = 0
      BY <3>1, FS_EmptySet DEF Count
    <3>3. current # Ext(f)
      BY DEF Init, Ext
    <3> QED BY <3>2, <3>3, PendingIs DEF Init
  <2>3. ~Starting(f) /\ ~Stopping(f) /\ ~Restarting(f) /\ ~Commanded(f) /\ ~active[f] /\ Timers(f) = 0
    BY <2>1, <2>2 DEF Init, Starting, Stopping, Restarting, Commanded, Timers, OnList
  <2>4. DelayOK(f)
    BY <2>1, <2>2, <2>3 DEF DelayOK, DelayAtMost, DelayTime, DelayAtLeast
  <2>5. CycleOK(f) /\ FlagOK(f)
    BY <2>1, <2>3 DEF CycleOK, Cycles, FlagOK
  <2>6. RestartOK(f) /\ StoppedOK(f)
    BY <2>3 DEF Init, RestartOK, StoppedOK, OnCommand
  <2> QED BY <2>4, <2>5, <2>6 DEF BlockOK
<1> QED BY <1>2, <1>3, <1>4, ShapeIsBlocks DEF Blocks

(* The lists and the thread of the timer: Tick, Fire and the rest.         *)
LEMMA TickShape ==
  ASSUME TypeOK, TimerShape, Tick
  PROVE  TimerShape'
<1> USE DEF timerVars, ecetVars, managerVars
<1>0. ListShape /\ StepShape /\ CommandShape /\ Blocks
  BY ShapeIsBlocks
<1>1. /\ UNCHANGED <<head, next, active, external, queue, current, step, manager, stopping,
                     fbState, crossed, type, lost, overtaken>>
      /\ timeout \in [FB -> Nat] /\ due \in [FB -> Nat \cup {Never}]
      /\ \A f \in FB : timeout'[f] = Down(timeout[f]) /\ due'[f] = Down(due[f])
      /\ head \in FB \cup {Null} /\ next \in Pointers
  BY DEF Tick, TypeOK, Pointers
<1>2. Listed' = Listed
  BY <1>1 DEF Listed
<1>3. ListShape'
  <2>1. \A g \in FB \ overtaken' : Single(g, head', next')
    BY <1>0, <1>1 DEF ListShape
  <2>2. ASSUME Sorted(head, next, timeout) PROVE Sorted(head', next', timeout')
    <3>1. ASSUME NEW f \in Reach(head, next), next[f] # Null PROVE timeout'[f] <= timeout'[next[f]]
      <4>1. timeout[f] <= timeout[next[f]]
        BY <2>2, <3>1 DEF Sorted
      <4>2. f \in FB /\ next[f] \in FB
        BY <1>1, <3>1, ReachClosed
      <4>3. timeout[f] \in Nat /\ timeout[next[f]] \in Nat
        BY <1>1, <4>2
      <4> QED BY <1>1, <4>1, <4>2, <4>3 DEF Down
    <3> QED BY <1>1, <3>1 DEF Sorted
  <2>3. overtaken' = {} => Ends(head', next') /\ Sorted(head', next', timeout')
    BY <1>0, <1>1, <2>2 DEF ListShape
  <2> QED BY <2>1, <2>3 DEF ListShape
<1>4. StepShape' /\ CommandShape'
  BY <1>0, <1>1 DEF StepShape, CommandShape, Starting, Stopping, Restarting, Delays
<1>5. ASSUME NEW g \in FB PROVE BlockOK(g)'
  <2>1. Pending(g)' = Pending(g)
    BY <1>1, PendingKept
  <2>2. /\ Starting(g)' <=> Starting(g)
        /\ Stopping(g)' <=> Stopping(g)
        /\ Restarting(g)' <=> Restarting(g)
        /\ Commanded(g)' <=> Commanded(g)
        /\ OnCommand(g)' <=> OnCommand(g)
    BY <1>1 DEF Starting, Stopping, Restarting, Commanded, OnCommand
  <2>3. Timers(g)' = Timers(g) /\ Pending(g) \in Nat
    BY <1>2, <2>1, PendingType DEF Timers, OnList
  <2>4. DelayTime(g) => DelayTime(g)'
    <3>1. due[g] = 0 => due'[g] = 0
      BY <1>1 DEF Down
    <3>2. timeout[g] = due[g] => timeout'[g] = due'[g]
      BY <1>1
    <3> QED BY <1>2, <2>1, <3>1, <3>2 DEF DelayTime
  <2>5. Kept(g)
    BY <1>1, <1>2, <2>1, <2>2, <2>3, <2>4 DEF Kept
  <2>6. Grows
    BY <1>1 DEF Grows
  <2> QED BY <1>0, <2>5, <2>6, KeptOK DEF Blocks
<1> QED BY <1>3, <1>4, <1>5, ShapeIsBlocks DEF Blocks

(* Steps that the list, the flags and the events do not see.               *)
LEMMA UnseenShape ==
  ASSUME TypeOK, TimerShape, UNCHANGED <<timerVars, active, external, ecetVars, managerVars, due,
                                         type, lost, overtaken>>
  PROVE  TimerShape'
<1> USE DEF timerVars, ecetVars, managerVars
<1>0. ListShape /\ StepShape /\ CommandShape /\ Blocks
  BY ShapeIsBlocks
<1>1. StepShape' /\ CommandShape'
  BY <1>0 DEF StepShape, CommandShape, Starting, Stopping, Restarting, Delays
<1>2. ASSUME NEW g \in FB PROVE BlockOK(g)'
  <2>1. Pending(g)' = Pending(g)
    BY PendingKept
  <2>2. Kept(g)
    BY <2>1, QuietKept
  <2>3. Grows
    BY DEF Grows
  <2> QED BY <1>0, <2>2, <2>3, KeptOK DEF Blocks
<1> QED BY <1>0, <1>1, <1>2, ListShapeKept, ShapeIsBlocks DEF Blocks

LEMMA FireShape ==
  ASSUME Inv, TimerShape, Fire
  PROVE  TimerShape'
<1> USE DEF timerVars, ecetVars, managerVars
<1>0. ListShape /\ StepShape /\ CommandShape /\ Blocks /\ TypeOK /\ ListType
  BY ShapeIsBlocks, ListOfInv DEF Inv
<1>1. PICK f \in FB : f = head
  BY <1>0 DEF Fire, TypeOK
<1>2. /\ timeout[f] = 0 /\ Notify(f) /\ Requeue(f)
      /\ UNCHANGED <<tick, type, active, queue, current, step, manager, stopping, fbState,
                     crossed, due, overtaken>>
  BY <1>1 DEF Fire
<1>3. f \in Listed
  <2>1. head \in FB \cup {Null} /\ next \in Pointers /\ Null \notin FB
    BY <1>0, ListTypes
  <2> QED BY <1>1, <2>1, ReachClosed, ListedIsReach
<1>4. /\ \A g \in FB \ {f} : Pending(g)' = Pending(g)
      /\ Pending(f)' <= Pending(f) + 1
      /\ f \notin lost' => Pending(f)' = Pending(f) + 1
      /\ lost \subseteq lost'
  BY <1>0, <1>2, PendingNotified
<1>5. StepShape' /\ CommandShape'
  BY <1>0, <1>2 DEF StepShape, CommandShape, Starting, Stopping, Restarting, Delays
<1>6. \A g \in FB : /\ Starting(g)' <=> Starting(g)
                    /\ Stopping(g)' <=> Stopping(g)
                    /\ Restarting(g)' <=> Restarting(g)
                    /\ Commanded(g)' <=> Commanded(g)
                    /\ OnCommand(g)' <=> OnCommand(g)
  BY <1>2 DEF Starting, Stopping, Restarting, Commanded, OnCommand
<1>7. Grows
  BY <1>2, <1>4 DEF Grows
<1>8. Pending(f)' \in Nat /\ \A g \in FB : Pending(g) \in Nat
  <2>1. external' \in Seq(Event) /\ queue' \in Seq(Event)
    BY TimerInv DEF Inv, TypeOK
  <2>2. Count(external', Ext(f)) \in Nat /\ Count(queue', Ext(f)) \in Nat
    BY <2>1, CountType
  <2> QED BY <1>0, <2>2, PendingIs, PendingType
<1>9. ASSUME OthersStay(f), Listed' \subseteq Listed, Listed \subseteq Listed' \cup {f},
             NEW g \in FB \ {f}
      PROVE  BlockOK(g)'
  <2>1. Pending(g)' = Pending(g) /\ timeout'[g] = timeout[g] /\ due'[g] = due[g]
    BY <1>2, <1>4, <1>9 DEF OthersStay
  <2>2. g \in Listed' <=> g \in Listed
    BY <1>9
  <2>3. Timers(g)' = Timers(g)
    BY <2>1, <2>2 DEF Timers, OnList
  <2>4. DelayTime(g) => DelayTime(g)'
    BY <2>1, <2>2 DEF DelayTime
  <2>5. Kept(g)
    BY <1>2, <1>6, <1>8, <2>1, <2>2, <2>3, <2>4 DEF Kept
  <2> QED BY <1>0, <1>7, <2>5, KeptOK DEF Blocks
<1>10. CASE type[f] = "E_CYCLE"
  <2>1. Single(f, head, next)
    BY <1>0, <1>10 DEF ListShape, CommandShape, Delays
  <2>2. Renews(f)
    BY <1>0, <1>1, <1>2, <1>10, <2>1, RequeueRenews
  <2>3. ListShape'
    BY <1>0, <1>2, <2>2, RenewsShape
  <2>4. BlockOK(f)'
    <3>1. CycleOK(f) /\ FlagOK(f) /\ (f \notin crossed => StoppedOK(f))
      BY <1>0, <1>10 DEF Blocks, BlockOK
    <3>2. CycleOK(f)'
      BY <1>2, <1>6, <2>2, <3>1 DEF CycleOK, Cycles, Renews
    <3>3. FlagOK(f)'
      BY <1>2, <1>6, <3>1 DEF FlagOK
    <3>4. f \notin crossed' => StoppedOK(f)'
      BY <1>2, <1>6, <3>1 DEF StoppedOK
    <3> QED BY <1>2, <1>10, <3>2, <3>3, <3>4 DEF BlockOK
  <2> QED BY <1>5, <1>9, <2>2, <2>3, <2>4, ShapeIsBlocks DEF Blocks, Renews
<1>11. CASE type[f] # "E_CYCLE"
  <2>1. head = f /\ head' = next[f] /\ next' = [next EXCEPT ![f] = Null]
        /\ timeout' = [timeout EXCEPT ![f] = 0]
    BY <1>1, <1>2, <1>11 DEF Requeue
  <2>2. Removes(f)
    BY <1>0, <2>1, PopRemoves
  <2>3. ListShape'
    BY <1>0, <1>2, <2>2, RemovesShape
  <2>4. BlockOK(f)'
    <3>1. /\ DelayOK(f) /\ (type[f] # "E_RDELAY" => FlagOK(f))
          /\ type[f] = "E_RDELAY" /\ f \notin overtaken => RestartOK(f)
          /\ f \notin crossed => StoppedOK(f)
      BY <1>0, <1>11 DEF Blocks, BlockOK
    <3>2. /\ Timers(f)' = Pending(f)' + (IF f \in Listed' THEN 1 ELSE 0)
          /\ Timers(f) = Pending(f) + 1
      BY <1>3 DEF Timers, OnList
    <3>3. ASSUME f \notin overtaken' PROVE DelayAtMost(f)' /\ DelayTime(f)'
      <4>1. DelayAtMost(f) /\ DelayTime(f) /\ Single(f, head, next)
        BY <1>0, <1>2, <3>1, <3>3 DEF DelayOK, ListShape
      <4>2. f \notin Listed'
        BY <2>2, <4>1 DEF Removes
      <4>3. Timers(f)' <= Timers(f) /\ Timers(f)' \in Nat /\ Timers(f) \in Nat
        BY <1>4, <1>8, <3>2, <4>2
      <4>4. due'[f] = 0
        BY <1>2, <1>3, <4>1 DEF DelayTime
      <4>5. DelayAtMost(f)'
        BY <1>2, <1>6, <4>1, <4>3 DEF DelayAtMost, Idle
      <4>6. DelayTime(f)'
        BY <4>2, <4>4 DEF DelayTime
      <4> QED BY <4>5, <4>6
    <3>4. ASSUME f \notin lost' PROVE DelayAtLeast(f)'
      <4>1. Timers(f)' > 0
        BY <1>4, <1>8, <3>2, <3>4
      <4> QED BY <4>1 DEF DelayAtLeast
    <3>5. DelayOK(f)'
      BY <3>3, <3>4 DEF DelayOK
    <3>6. type[f] # "E_RDELAY" => FlagOK(f)'
      BY <1>2, <1>6, <3>1 DEF FlagOK
    <3>7. type[f] = "E_RDELAY" /\ f \notin overtaken' => RestartOK(f)'
      BY <1>2, <1>6, <3>1 DEF RestartOK
    <3>8. f \notin crossed' => StoppedOK(f)'
      BY <1>2, <1>6, <3>1 DEF StoppedOK
    <3> QED BY <1>2, <1>11, <3>5, <3>6, <3>7, <3>8 DEF BlockOK
  <2> QED BY <1>5, <1>9, <2>2, <2>3, <2>4, ShapeIsBlocks DEF Blocks, Removes
<1> QED BY <1>10, <1>11

LEMMA TimerShapeKept ==
  ASSUME Inv, TimerShape, Timer
  PROVE  TimerShape'
<1>1. TypeOK
  BY DEF Inv
<1>2. CASE LookAtList \/ TickDone
  BY <1>1, <1>2, UnseenShape DEF LookAtList, TickDone
<1> QED BY <1>1, <1>2, TickShape, FireShape DEF Timer

(* Events that come: from other blocks, and from the lists to a block.     *)
LEMMA SendShape ==
  ASSUME TypeOK, TimerShape, NEW f \in FB, NEW input \in {"START", "STOP"}, SendInputEvent(f, input)
  PROVE  TimerShape'
<1> USE DEF timerVars, ecetVars, managerVars
<1>0. ListShape /\ StepShape /\ CommandShape /\ Blocks
  BY ShapeIsBlocks
<1>1. UNCHANGED <<head, next, timeout, active, current, step, manager, stopping, fbState,
                  crossed, due, type, lost, overtaken>>
  BY DEF SendInputEvent
<1>2. StepShape' /\ CommandShape'
  BY <1>0, <1>1 DEF StepShape, CommandShape, Starting, Stopping, Restarting, Delays
<1>3. ASSUME NEW g \in FB PROVE BlockOK(g)'
  <2>1. Pending(g)' = Pending(g)
    BY PendingSent
  <2>2. Kept(g)
    BY <1>1, <2>1, QuietKept
  <2>3. Grows
    BY <1>1 DEF Grows
  <2> QED BY <1>0, <2>2, <2>3, KeptOK DEF Blocks
<1> QED BY <1>0, <1>1, <1>2, <1>3, ListShapeKept, ShapeIsBlocks DEF Blocks

LEMMA ReceiveShape ==
  ASSUME TypeOK, TimerShape, ReceiveInputEvent
  PROVE  TimerShape'
<1> USE DEF timerVars, ecetVars, managerVars
<1>0. ListShape /\ StepShape /\ CommandShape /\ Blocks
  BY ShapeIsBlocks
<1>1. /\ UNCHANGED <<head, next, timeout, active, step, manager, stopping, fbState,
                     crossed, due, type, overtaken>>
      /\ current = <<>>
  BY DEF ReceiveInputEvent
<1>2. step = "begin"
  BY <1>0, <1>1 DEF TypeOK, StepShape, Starting, Stopping, Restarting
<1>3. StepShape' /\ CommandShape'
  BY <1>0, <1>1, <1>2 DEF StepShape, CommandShape, Delays
<1>4. lost \subseteq lost' /\ (current' # <<>> => \E g \in FB : current'[1] = g /\ fbState[g] = "RUNNING")
  <2>1. ASSUME NEW g \in FB
        PROVE  lost \subseteq lost' /\ (current' # <<>> => \E x \in FB : current'[1] = x /\ fbState[x] = "RUNNING")
    BY PendingReceived
  <2>2. CASE FB = {}
    <3>1. Event = {}
      BY <2>2 DEF Event
    <3>2. queue = <<>> /\ external = <<>>
      BY <3>1 DEF TypeOK
    <3>3. queue \o external = <<>>
      BY <3>2
    <3>4. SubSeq(<<>>, 1, 0) = <<>>
      BY SubSeqEmpty
    <3> QED BY <3>3, <3>4, NumberAssumption DEF ReceiveInputEvent
  <2> QED BY <2>1, <2>2
<1>5. Grows
  BY <1>1, <1>4 DEF Grows
<1>6. ASSUME NEW g \in FB PROVE BlockOK(g)'
  <2>1. /\ Pending(g)' <= Pending(g) /\ Pending(g)' \in Nat /\ Pending(g) \in Nat
        /\ g \notin lost' /\ fbState[g] = "RUNNING" /\ Pending(g) > 0 => Pending(g)' > 0
    BY PendingReceived, PendingType
  <2>2. Listed' = Listed
    BY <1>1 DEF Listed
  <2>3. /\ Starting(g)' <=> Starting(g)
        /\ Stopping(g)' <=> Stopping(g)
        /\ Restarting(g)' <=> Restarting(g)
        /\ Commanded(g)' <=> Commanded(g)
        /\ OnCommand(g)' <=> OnCommand(g)
    BY <1>1, <1>2 DEF Starting, Stopping, Restarting, Commanded, OnCommand
  <2>4. fbState[g] # "RUNNING" => current' # <<g, "START">>
    BY <1>4
  <2>5. g \notin lost' /\ fbState[g] = "RUNNING" /\ Timers(g) > 0 => Timers(g)' > 0
    <3>1. /\ Timers(g)' = Pending(g)' + OnList(g) /\ Timers(g) = Pending(g) + OnList(g)
          /\ OnList(g) \in {0, 1}
      BY <2>2 DEF Timers, OnList
    <3> QED BY <2>1, <3>1
  <2>6. DelayTime(g) => DelayTime(g)'
    BY <1>1, <2>1, <2>2 DEF DelayTime
  <2>7. Kept(g)
    BY <1>1, <2>1, <2>2, <2>3, <2>4, <2>5, <2>6 DEF Kept
  <2> QED BY <1>0, <1>5, <2>7, KeptOK DEF Blocks
<1> QED BY <1>0, <1>1, <1>3, <1>6, ListShapeKept, ShapeIsBlocks DEF Blocks

(* What the handling of an event by f leaves of the other blocks.          *)
LEMMA OtherKept ==
  ASSUME TypeOK, StepShape, NEW f \in FB, NEW input \in {"START", "STOP", "EXT"}, Executing(f, input),
         current' \in {current, <<>>}, UNCHANGED <<external, queue, manager, stopping, fbState, type, lost>>,
         step' \in {"begin", "register", "flag"},
         NEW g \in FB \ {f}, active'[g] = active[g], due'[g] = due[g], timeout'[g] = timeout[g],
         g \in Listed' => g \in Listed,
         overtaken \subseteq {g} /\ g \in Listed => g \in Listed'
  PROVE  Kept(g)
<1>1. current[1] = f /\ current # <<>> /\ current # Ext(g) /\ current' # Ext(g) /\ current # <<g, "START">>
      /\ current' # <<g, "START">> /\ current # <<g, "STOP">> /\ current' # <<g, "STOP">>
  BY DEF Executing, Ext
<1>2. Pending(g)' = Pending(g) /\ Pending(g) \in Nat
  BY <1>1, PendingKept, PendingType
<1>3. /\ Starting(g)' <=> Starting(g)
      /\ Stopping(g)' <=> Stopping(g)
      /\ Restarting(g)' <=> Restarting(g)
      /\ Commanded(g)' <=> Commanded(g)
      /\ OnCommand(g)' <=> OnCommand(g)
  BY <1>1 DEF Starting, Stopping, Restarting, Commanded, OnCommand
<1>4. overtaken \subseteq {g} /\ Timers(g) > 0 => Timers(g)' > 0
  BY <1>2 DEF Timers, OnList
<1>5. DelayTime(g) => DelayTime(g)'
  BY <1>2 DEF DelayTime
<1> QED BY <1>1, <1>2, <1>3, <1>4, <1>5 DEF Kept

LEMMA FacesOf ==
  ASSUME TypeOK, StepShape, NEW f \in FB, NEW input \in {"START", "STOP", "EXT"}, Executing(f, input)
  PROVE  /\ step = "register" => Restarting(f) /\ type[f] = "E_RDELAY" /\ input = "START"
         /\ step = "flag" => input # "EXT"
         /\ step = "begin" => ~Starting(f) /\ ~Stopping(f) /\ ~Restarting(f)
BY DEF StepShape, Starting, Stopping, Restarting, Executing

(* A block whose START is executed is on the list only if it has been      *)
(* overtaken, and otherwise no Stop command is between its timer and its   *)
(* flag.                                                                   *)
LEMMA FreeToStart ==
  ASSUME TypeOK, TimerShape, NEW f \in FB, Executing(f, "START"),
         (step = "begin" /\ ~active[f]) \/ step = "register"
  PROVE  /\ f \in Listed => f \in overtaken
         /\ type[f] # "E_RDELAY" \/ f \notin overtaken => ~Commanded(f)
         /\ type[f] # "E_CYCLE" /\ f \notin overtaken => Timers(f) = 0
         /\ step = "register" => type[f] = "E_RDELAY"
<1>0. StepShape /\ CommandShape /\ BlockOK(f)
  BY ShapeIsBlocks DEF Blocks
<1>1. /\ step = "register" => Restarting(f) /\ type[f] = "E_RDELAY"
      /\ step = "begin" => ~Starting(f) /\ ~Stopping(f) /\ ~Restarting(f)
  BY <1>0, FacesOf
<1>2. type[f] # "E_RDELAY" \/ f \notin overtaken => ~Commanded(f)
  <2>1. CASE type[f] = "E_RDELAY"
    BY <1>0, <2>1 DEF BlockOK, RestartOK, Commanded, OnCommand, Executing
  <2>2. CASE type[f] # "E_RDELAY"
    BY <1>0, <1>1, <2>2 DEF BlockOK, FlagOK, Executing
  <2> QED BY <2>1, <2>2
<1>3. type[f] # "E_CYCLE" /\ f \notin overtaken => Timers(f) = 0
  BY <1>0, <1>1, <1>2 DEF BlockOK, DelayOK, DelayAtMost, Idle
<1>4. type[f] # "E_CYCLE" /\ f \notin overtaken => f \notin Listed
  BY <1>3, PendingType DEF Timers, OnList
<1>5. type[f] = "E_CYCLE" => f \notin Listed
  BY <1>0, <1>1 DEF BlockOK, CycleOK, Cycles, Starting
<1> QED BY <1>1, <1>2, <1>3, <1>4, <1>5

LEMMA StartShape ==
  ASSUME Inv, TimerShape, NEW f \in FB, NEW i \in Interval, StartDelay(f, i)
  PROVE  TimerShape'
<1> USE DEF timerVars, ecetVars, managerVars
<1>0. ListShape /\ StepShape /\ CommandShape /\ Blocks /\ TypeOK /\ ListType
  BY ShapeIsBlocks, ListOfInv DEF Inv
<1>1. /\ Executing(f, "START") /\ ((step = "begin" /\ ~active[f]) \/ step = "register")
      /\ RegisterTimedFB(f, i)
      /\ step' = "flag" /\ due' = [due EXCEPT ![f] = DueAfter(f, i)]
      /\ UNCHANGED <<tick, active, external, queue, current, manager, stopping, fbState,
                     crossed, type, lost, overtaken>>
  BY DEF StartDelay
<1>2. /\ f \in Listed => f \in overtaken
      /\ type[f] # "E_RDELAY" \/ f \notin overtaken => ~Commanded(f)
      /\ type[f] # "E_CYCLE" /\ f \notin overtaken => Timers(f) = 0
      /\ step = "register" => type[f] = "E_RDELAY"
  BY <1>0, <1>1, FreeToStart
<1>3. Adds(f, Distance(i))
  BY <1>0, <1>1, RegisterAdds
<1>4. ListShape'
  BY <1>0, <1>1, <1>2, <1>3, AddsShape
<1>5. /\ Starting(f)'
      /\ type[f] # "E_RDELAY" \/ f \notin overtaken => ~Commanded(f)'
      /\ OnCommand(f)' <=> OnCommand(f)
      /\ Commanded(f)' <=> Commanded(f)
  BY <1>1, <1>2 DEF Starting, Executing, Commanded, OnCommand
<1>6. StepShape' /\ CommandShape'
  BY <1>0, <1>1, <1>5 DEF StepShape, CommandShape, Delays
<1>7. Grows
  BY <1>1 DEF Grows
<1>8. ASSUME NEW g \in FB \ {f} PROVE BlockOK(g)'
  <2>1. /\ current' \in {current, <<>>} /\ active'[g] = active[g] /\ due'[g] = due[g]
        /\ step' \in {"begin", "register", "flag"}
    BY <1>0, <1>1 DEF TypeOK
  <2>2. timeout'[g] = timeout[g] /\ (g \in Listed' => g \in Listed)
    BY <1>3 DEF Adds, OthersStay
  <2>3. overtaken \subseteq {g} /\ g \in Listed => g \in Listed'
    BY <1>2, <1>3 DEF Adds
  <2>4. Kept(g)
    BY <1>0, <1>1, <2>1, <2>2, <2>3, OtherKept
  <2> QED BY <1>0, <1>7, <2>4, KeptOK DEF Blocks
<1>9. BlockOK(f)'
  <2>1. Pending(f)' = Pending(f) /\ Pending(f) \in Nat
    BY <1>0, <1>1, PendingKept, PendingType
  <2>2. f \in Listed' /\ Timers(f)' = Pending(f)' + 1 /\ timeout'[f] = Distance(i)
        /\ due'[f] = DueAfter(f, i)
    BY <1>0, <1>1, <1>3 DEF Adds, Timers, OnList, TypeOK
  <2>3. ASSUME type[f] # "E_CYCLE" PROVE DelayOK(f)'
    <3>1. ASSUME f \notin overtaken' PROVE DelayAtMost(f)' /\ DelayTime(f)'
      <4>1. Pending(f) = 0
        BY <1>0, <1>1, <1>2, <2>3, <3>1, PendingType DEF Timers
      <4>2. Timers(f)' = 1
        BY <2>1, <2>2, <4>1
      <4>3. ~Stopping(f)' /\ ~Restarting(f)'
        BY <1>1 DEF Stopping, Restarting, Executing
      <4>4. ~Commanded(f)'
        BY <1>1, <1>5, <3>1
      <4>5. due'[f] = Distance(i)
        BY <2>2, <2>3 DEF DueAfter
      <4> QED BY <1>5, <2>1, <2>2, <4>1, <4>2, <4>3, <4>4, <4>5 DEF DelayAtMost, DelayTime, Idle
    <3>2. DelayAtLeast(f)'
      BY <2>1, <2>2 DEF DelayAtLeast
    <3> QED BY <3>1, <3>2 DEF DelayOK
  <2>4. CycleOK(f)'
    BY <1>5, <2>2 DEF CycleOK, Cycles
  <2>5. type[f] # "E_RDELAY" => FlagOK(f)'
    BY <1>1, <1>2, <1>5 DEF FlagOK
  <2>6. BlockOK(f) /\ ~Restarting(f)'
    BY <1>0, <1>1 DEF Blocks, Restarting
  <2>7. type[f] = "E_RDELAY" /\ f \notin overtaken' => RestartOK(f)'
    BY <1>1, <1>5, <2>6 DEF BlockOK, RestartOK
  <2>8. f \notin crossed' => StoppedOK(f)'
    BY <1>1, <1>5, <2>6 DEF BlockOK, StoppedOK
  <2> QED BY <1>1, <2>3, <2>4, <2>5, <2>7, <2>8 DEF BlockOK
<1> QED BY <1>4, <1>6, <1>8, <1>9, ShapeIsBlocks DEF Blocks

(* An event or a command takes f out of the list.                          *)
LEMMA TakenOutShape ==
  ASSUME Inv, TimerShape, NEW f \in FB, UnregisterTimedFB(f), NoteOvertaken(f), type' = type
  PROVE  /\ ListShape' /\ Removes(f) /\ overtaken \subseteq overtaken' /\ overtaken' \subseteq Delays
         /\ f \notin overtaken' => Pending(f) = 0 \/ type[f] = "E_CYCLE"
         /\ f \notin overtaken' => f \notin Listed'
<1>0. ListShape /\ StepShape /\ CommandShape /\ Blocks /\ TypeOK /\ ListType
  BY ShapeIsBlocks, ListOfInv DEF Inv
<1>1. Removes(f)
  BY <1>0, UnregisterRemoves
<1>2. overtaken \subseteq overtaken' /\ overtaken' \subseteq Delays
  BY <1>0 DEF NoteOvertaken, CommandShape, Delays
<1>3. f \notin overtaken' => Pending(f) = 0 \/ type[f] = "E_CYCLE"
  BY <1>0, PendingType DEF NoteOvertaken
<1>4. f \notin overtaken' => f \notin Listed'
  BY <1>0, <1>1, <1>2 DEF ListShape, Removes
<1> QED BY <1>0, <1>1, <1>2, <1>3, <1>4, RemovesShape

LEMMA RestartShape ==
  ASSUME Inv, TimerShape, NEW f \in FB, RestartDelay(f) \/ StopDelay(f)
  PROVE  TimerShape'
<1> USE DEF timerVars, ecetVars, managerVars
<1>0. ListShape /\ StepShape /\ CommandShape /\ Blocks /\ TypeOK
  BY ShapeIsBlocks DEF Inv
<1>1. /\ \/ Executing(f, "START") /\ step' = "register" /\ type[f] = "E_RDELAY" /\ active[f]
         \/ Executing(f, "STOP") /\ step' = "flag"
      /\ UnregisterTimedFB(f) /\ NoteOvertaken(f) /\ \A g \in FB \ {f} : due'[g] = due[g]
      /\ UNCHANGED <<tick, active, external, queue, current, manager, stopping, fbState, crossed,
                     type, lost>>
  BY <1>0 DEF RestartDelay, StopDelay, TypeOK
<1>2. /\ ListShape' /\ Removes(f) /\ overtaken \subseteq overtaken' /\ overtaken' \subseteq Delays
      /\ f \notin overtaken' => Pending(f) = 0 \/ type[f] = "E_CYCLE"
      /\ f \notin overtaken' => f \notin Listed'
  BY <1>1, TakenOutShape
<1>3. (Restarting(f)' /\ type[f] = "E_RDELAY") \/ Stopping(f)'
  BY <1>1 DEF Executing, Restarting, Stopping
<1>4. ~Starting(f)'
  BY <1>1 DEF Executing, Starting
<1>5. StepShape' /\ CommandShape'
  BY <1>0, <1>1, <1>2, <1>3 DEF StepShape, CommandShape, Delays, Restarting, Stopping
<1>6. Grows
  BY <1>1, <1>2 DEF Grows
<1>7. ASSUME NEW g \in FB \ {f} PROVE BlockOK(g)'
  <2>1. /\ current' \in {current, <<>>} /\ active'[g] = active[g] /\ due'[g] = due[g]
        /\ step' \in {"begin", "register", "flag"}
    BY <1>0, <1>1 DEF TypeOK
  <2>2. timeout'[g] = timeout[g] /\ (g \in Listed' <=> g \in Listed)
    BY <1>2 DEF Removes, OthersStay
  <2>3. Kept(g)
    BY <1>0, <1>1, <2>1, <2>2, OtherKept
  <2> QED BY <1>0, <1>6, <2>3, KeptOK DEF Blocks
<1>8. BlockOK(f)'
  <2>1. Pending(f)' = Pending(f)
    BY <1>1, PendingKept
  <2>2. ASSUME type[f] # "E_CYCLE" PROVE DelayOK(f)'
    <3>1. ASSUME f \notin overtaken' PROVE DelayAtMost(f)' /\ DelayTime(f)'
      <4>1. Pending(f)' = 0 /\ f \notin Listed'
        BY <1>2, <2>1, <2>2, <3>1
      <4>2. Timers(f)' = 0
        BY <4>1 DEF Timers, OnList
      <4> QED BY <4>1, <4>2 DEF DelayAtMost, DelayTime
    <3>2. DelayAtLeast(f)'
      BY <1>3, <1>4 DEF DelayAtLeast, Idle
    <3> QED BY <3>1, <3>2 DEF DelayOK
  <2>3. ASSUME type[f] = "E_CYCLE" PROVE CycleOK(f)'
    <3>1. f \notin Listed'
      BY <1>2, <2>3 DEF Delays
    <3>2. Stopping(f)'
      BY <1>3, <2>3
    <3> QED BY <1>4, <3>1, <3>2 DEF CycleOK, Cycles
  <2>4. type[f] # "E_RDELAY" => FlagOK(f)'
    BY <1>1, <1>4 DEF FlagOK, Executing
  <2>5. BlockOK(f) /\ (OnCommand(f)' <=> OnCommand(f))
    BY <1>0, <1>1 DEF Blocks, OnCommand
  <2>6. ASSUME type[f] = "E_RDELAY", f \notin overtaken' PROVE RestartOK(f)'
    <3>1. RestartOK(f)
      BY <1>2, <2>5, <2>6 DEF BlockOK
    <3>2. CASE Executing(f, "START") /\ active[f]
      <4>1. ~OnCommand(f)
        BY <3>1, <3>2 DEF RestartOK, Executing
      <4> QED BY <1>1, <2>5, <3>2, <4>1 DEF RestartOK
    <3>3. CASE Executing(f, "STOP")
      <4>1. current' # <<f, "START">>
        BY <1>1, <3>3 DEF Executing
      <4> QED BY <4>1 DEF RestartOK, Restarting
    <3> QED BY <1>1, <3>2, <3>3
  <2>7. f \notin crossed' => StoppedOK(f)'
    BY <1>1, <2>5 DEF BlockOK, StoppedOK
  <2> QED BY <1>1, <2>2, <2>3, <2>4, <2>6, <2>7 DEF BlockOK
<1> QED BY <1>2, <1>5, <1>7, <1>8, ShapeIsBlocks DEF Blocks

(* The handlers of f that leave the list alone.                            *)
LEMMA HandledOthers ==
  ASSUME TypeOK, TimerShape, NEW f \in FB, NEW input \in {"START", "STOP", "EXT"},
         Executing(f, input), current' = <<>>, step' = "begin",
         UNCHANGED <<timerVars, external, queue, managerVars, type, lost, overtaken>>,
         \A g \in FB \ {f} : active'[g] = active[g] /\ due'[g] = due[g],
         BlockOK(f)'
  PROVE  TimerShape'
<1> USE DEF timerVars, ecetVars, managerVars
<1>0. ListShape /\ StepShape /\ CommandShape /\ Blocks
  BY ShapeIsBlocks
<1>1. ListShape' /\ Listed' = Listed
  BY <1>0, ListShapeKept
<1>2. StepShape' /\ CommandShape'
  BY <1>0 DEF StepShape, CommandShape, Delays
<1>3. Grows
  BY DEF Grows
<1>4. ASSUME NEW g \in FB \ {f} PROVE BlockOK(g)'
  <2>1. current' \in {current, <<>>} /\ step' \in {"begin", "register", "flag"}
    OBVIOUS
  <2>2. Kept(g)
    BY <1>0, <1>1, <2>1, OtherKept
  <2> QED BY <1>0, <1>3, <2>2, KeptOK DEF Blocks
<1> QED BY <1>1, <1>2, <1>4, ShapeIsBlocks DEF Blocks

LEMMA HandledShape ==
  ASSUME TypeOK, TimerShape, NEW f \in FB,
         ExecuteExternalEvent(f) \/ IgnoreStart(f) \/ IgnoreStop(f)
  PROVE  TimerShape'
<1> USE DEF timerVars, ecetVars, managerVars
<1>0. ListShape /\ StepShape /\ CommandShape /\ BlockOK(f)
  BY ShapeIsBlocks DEF Blocks
<1>1. /\ current' = <<>>
      /\ UNCHANGED <<timerVars, tick, external, queue, step, managerVars, type, lost, overtaken>>
      /\ \A g \in FB \ {f} : active'[g] = active[g] /\ due'[g] = due[g]
  BY DEF ExecuteExternalEvent, IgnoreStart, IgnoreStop, TypeOK
<1>2. PICK input \in {"START", "STOP", "EXT"} : Executing(f, input)
  BY DEF ExecuteExternalEvent, IgnoreStart, IgnoreStop
<1>3. step = "begin"
  BY <1>0, FacesOf DEF ExecuteExternalEvent, IgnoreStart, IgnoreStop, TypeOK
<1>4. /\ ~Starting(f) /\ ~Stopping(f) /\ ~Restarting(f)
      /\ ~Starting(f)' /\ ~Stopping(f)' /\ ~Restarting(f)'
      /\ Commanded(f)' <=> Commanded(f)
      /\ OnCommand(f)' <=> OnCommand(f)
  BY <1>1, <1>3 DEF Starting, Stopping, Restarting, Commanded, OnCommand
<1>5. Listed' = Listed
  BY <1>1 DEF Listed
<1>6. /\ FlagOK(f)' /\ RestartOK(f)'
      /\ f \notin crossed' /\ (active'[f] => active[f]) => StoppedOK(f)'
  <2>1. FlagOK(f)' /\ RestartOK(f)'
    BY <1>1, <1>4 DEF FlagOK, RestartOK
  <2>2. f \notin crossed' /\ (active'[f] => active[f]) => StoppedOK(f)'
    BY <1>0, <1>1, <1>4 DEF BlockOK, StoppedOK
  <2> QED BY <2>1, <2>2
<1>7. CASE ExecuteExternalEvent(f)
  <2>1. /\ Executing(f, "EXT") /\ due' = due
        /\ active' = IF type[f] = "E_CYCLE" THEN active ELSE [active EXCEPT ![f] = FALSE]
    BY <1>7 DEF ExecuteExternalEvent
  <2>2. Pending(f)' = Pending(f) - 1 /\ Pending(f)' \in Nat /\ Pending(f) \in Nat
    BY <1>1, <2>1, PendingExecuted, PendingType
  <2>3. Timers(f)' = Timers(f) - 1 /\ Timers(f)' \in Nat /\ Timers(f) \in Nat
    BY <1>5, <2>2 DEF Timers, OnList
  <2>4. ASSUME type[f] # "E_CYCLE" PROVE DelayOK(f)'
    <3>1. ASSUME f \notin overtaken' PROVE DelayAtMost(f)' /\ DelayTime(f)'
      <4>1. DelayAtMost(f) /\ DelayTime(f)
        BY <1>0, <1>1, <2>4, <3>1 DEF BlockOK, DelayOK
      <4>2. Timers(f)' = 0
        BY <2>3, <4>1 DEF DelayAtMost
      <4>3. DelayTime(f)'
        BY <1>1, <1>5, <2>1, <2>2, <4>1 DEF DelayTime
      <4> QED BY <4>2, <4>3 DEF DelayAtMost
    <3>2. ~active'[f]
      BY <2>1, <2>4 DEF TypeOK
    <3>3. DelayAtLeast(f)'
      BY <1>4, <3>2 DEF DelayAtLeast
    <3> QED BY <3>1, <3>3 DEF DelayOK
  <2>5. type[f] = "E_CYCLE" => CycleOK(f)'
    <3>1. type[f] = "E_CYCLE" => CycleOK(f) /\ active' = active
      BY <1>0, <2>1 DEF BlockOK
    <3> QED BY <1>1, <1>4, <1>5, <3>1 DEF CycleOK, Cycles
  <2>6. active'[f] => active[f]
    BY <2>1 DEF TypeOK
  <2>7. BlockOK(f)'
    BY <1>1, <1>6, <2>4, <2>5, <2>6 DEF BlockOK
  <2> QED BY <1>1, <1>3, <2>1, <2>7, HandledOthers
<1>8. CASE IgnoreStart(f) \/ IgnoreStop(f)
  <2>1. active' = active /\ current # Ext(f) /\ (IgnoreStop(f) => ~active[f]) /\ (IgnoreStart(f) => due' = due)
        /\ current' # Ext(f)
    BY <1>1, <1>8 DEF IgnoreStart, IgnoreStop, Executing, Ext
  <2>2. Pending(f)' = Pending(f) /\ Timers(f)' = Timers(f) /\ Pending(f) \in Nat /\ Timers(f) \in Nat
    <3>1. Pending(f)' = Pending(f)
      BY <1>1, <2>1, PendingKept
    <3> QED BY <1>5, <3>1, PendingType DEF Timers, OnList
  <2>3. ASSUME type[f] # "E_CYCLE" PROVE DelayOK(f)'
    <3>1. ASSUME f \notin overtaken' PROVE DelayAtMost(f)' /\ DelayTime(f)'
      <4>1. DelayAtMost(f) /\ DelayTime(f)
        BY <1>0, <1>1, <2>3, <3>1 DEF BlockOK, DelayOK
      <4>2. DelayAtMost(f)'
        BY <1>4, <2>1, <2>2, <4>1 DEF DelayAtMost, Idle
      <4>3. CASE IgnoreStart(f)
        BY <1>1, <1>5, <2>1, <2>2, <4>1, <4>2, <4>3 DEF DelayTime
      <4>4. CASE IgnoreStop(f)
        <5>1. Timers(f) = 0
          BY <1>4, <2>1, <4>1, <4>4 DEF DelayAtMost, Idle
        <5>2. Pending(f) = 0 /\ f \notin Listed
          BY <2>2, <5>1 DEF Timers, OnList
        <5>3. DelayTime(f)'
          BY <1>5, <2>2, <5>2 DEF DelayTime
        <5> QED BY <4>2, <5>3
      <4> QED BY <1>8, <4>3, <4>4
    <3>2. ASSUME f \notin lost' \cup crossed', overtaken' \subseteq {f}
          PROVE  DelayAtLeast(f)'
      <4>1. DelayAtLeast(f)
        BY <1>0, <1>1, <2>3, <3>2 DEF BlockOK, DelayOK
      <4> QED BY <1>1, <1>4, <2>1, <2>2, <4>1 DEF DelayAtLeast, Idle
    <3> QED BY <3>1, <3>2 DEF DelayOK
  <2>4. type[f] = "E_CYCLE" => CycleOK(f)'
    BY <1>0, <1>1, <1>4, <1>5, <2>1 DEF BlockOK, CycleOK, Cycles
  <2>5. BlockOK(f)'
    BY <1>1, <1>6, <2>1, <2>3, <2>4 DEF BlockOK
  <2> QED BY <1>1, <1>2, <1>3, <2>1, <2>5, HandledOthers
<1> QED BY <1>7, <1>8

LEMMA WriteShape ==
  ASSUME TypeOK, TimerShape, NEW f \in FB,
         NEW input \in {"START", "STOP"}, WriteActive(f, input)
  PROVE  TimerShape'
<1> USE DEF timerVars, ecetVars, managerVars
<1>0. ListShape /\ StepShape /\ CommandShape /\ BlockOK(f)
  BY ShapeIsBlocks DEF Blocks
<1>1. /\ Executing(f, input) /\ step = "flag" /\ current' = <<>> /\ step' = "begin"
      /\ active' = [active EXCEPT ![f] = (input = "START")]
      /\ UNCHANGED <<timerVars, tick, external, queue, managerVars, due, type, lost, overtaken>>
  BY DEF WriteActive
<1>2. /\ ~Starting(f)' /\ ~Stopping(f)' /\ ~Restarting(f)' /\ ~Restarting(f)
      /\ Commanded(f)' <=> Commanded(f)
      /\ OnCommand(f)' <=> OnCommand(f)
      /\ Starting(f) <=> input = "START"
      /\ Stopping(f) <=> input = "STOP"
  BY <1>1 DEF Starting, Stopping, Restarting, Commanded, OnCommand, Executing
<1>3. Listed' = Listed
  BY <1>1 DEF Listed
<1>4. FlagOK(f)' /\ RestartOK(f)'
  BY <1>1, <1>2 DEF FlagOK, RestartOK
<1>5. active'[f] <=> input = "START"
  BY <1>1 DEF TypeOK
<1>6. input = "START" /\ type[f] = "E_CYCLE" => ~Commanded(f)
  BY <1>0, <1>2 DEF BlockOK, FlagOK
<1>7. Pending(f)' = Pending(f) /\ Timers(f)' = Timers(f) /\ Pending(f) \in Nat /\ Timers(f) \in Nat
  <2>1. current # Ext(f) /\ current' # Ext(f)
    BY <1>1 DEF Executing, Ext
  <2>2. Pending(f)' = Pending(f)
    BY <1>1, <2>1, PendingKept
  <2> QED BY <1>3, <2>2, PendingType DEF Timers, OnList
<1>8. ASSUME type[f] # "E_CYCLE" PROVE DelayOK(f)'
  <2>1. ASSUME f \notin overtaken' PROVE DelayAtMost(f)' /\ DelayTime(f)'
    <3>1. DelayAtMost(f) /\ DelayTime(f)
      BY <1>0, <1>1, <1>8, <2>1 DEF BlockOK, DelayOK
    <3>2. DelayTime(f)'
      BY <1>1, <1>3, <1>7, <3>1 DEF DelayTime
    <3>3. DelayAtMost(f)'
      BY <1>2, <1>5, <1>7, <3>1 DEF DelayAtMost
    <3> QED BY <3>2, <3>3
  <2>2. ASSUME f \notin lost' \cup crossed', overtaken' \subseteq {f}
        PROVE  DelayAtLeast(f)'
    <3>1. DelayAtLeast(f)
      BY <1>0, <1>1, <1>8, <2>2 DEF BlockOK, DelayOK
    <3> QED BY <1>1, <1>2, <1>5, <1>7, <3>1 DEF DelayAtLeast
  <2> QED BY <2>1, <2>2 DEF DelayOK
<1>9. type[f] = "E_CYCLE" => CycleOK(f)'
  <2>1. type[f] = "E_CYCLE" => CycleOK(f)
    BY <1>0 DEF BlockOK
  <2>2. type[f] = "E_CYCLE" => (Cycles(f)' <=> Cycles(f))
    BY <1>1, <1>2, <1>5, <1>6 DEF Cycles
  <2> QED BY <1>1, <1>3, <2>1, <2>2 DEF CycleOK
<1>10. f \notin crossed' => StoppedOK(f)'
  BY <1>0, <1>1, <1>2, <1>5 DEF BlockOK, StoppedOK, Executing
<1>11. BlockOK(f)'
  BY <1>1, <1>4, <1>8, <1>9, <1>10 DEF BlockOK
<1>12. \A g \in FB \ {f} : active'[g] = active[g] /\ due'[g] = due[g]
  BY <1>1 DEF TypeOK
<1> QED BY <1>1, <1>11, <1>12, HandledOthers

LEMMA ExecuteShape ==
  ASSUME Inv, TimerShape, NEW f \in FB, Execute(f)
  PROVE  TimerShape'
<1>1. TypeOK
  BY DEF Inv
<1> QED BY <1>1, StartShape, RestartShape, HandledShape, WriteShape DEF Execute

(* The management interface.                                               *)
LEMMA CommandKeeps ==
  ASSUME TypeOK, TimerShape, NEW f \in FB, CommandStop(f) \/ CommandStart(f) \/ CommandDelete(f)
  PROVE  TimerShape'
<1> USE DEF timerVars, ecetVars, managerVars
<1>0. ListShape /\ StepShape /\ CommandShape /\ Blocks /\ BlockOK(f)
  BY ShapeIsBlocks DEF Blocks
<1>1. /\ manager = "idle"
      /\ \/ manager' = "test" /\ stopping' = f /\ fbState'[f] = "STOPPED"
         \/ manager' = "idle"
      /\ \A g \in FB \ {f} : fbState'[g] = fbState[g]
      /\ UNCHANGED <<timerVars, tick, active, external, ecetVars, due, type, lost>>
  BY DEF CommandStop, CommandStart, CommandDelete, TypeOK
<1>2. /\ overtaken \subseteq overtaken' /\ overtaken' \subseteq overtaken \cup {f}
      /\ overtaken' \subseteq Delays /\ crossed \subseteq crossed'
  BY <1>0 DEF CommandStop, CommandStart, CommandDelete, CommandShape, Delays
<1>3. Listed' = Listed /\ ListShape'
  BY <1>0, <1>1, <1>2 DEF Listed, ListShape
<1>4. StepShape'
  BY <1>0, <1>1 DEF StepShape, Starting, Stopping, Restarting
<1>5. CommandShape'
  BY <1>0, <1>1, <1>2 DEF CommandShape, Delays
<1>6. Grows
  BY <1>1, <1>2 DEF Grows
<1>7. \A g \in FB : /\ Starting(g)' <=> Starting(g)
                    /\ Stopping(g)' <=> Stopping(g)
                    /\ Restarting(g)' <=> Restarting(g)
                    /\ ~Commanded(g)' /\ ~Commanded(g) /\ ~OnCommand(g)
  BY <1>1 DEF Starting, Stopping, Restarting, Commanded, OnCommand
<1>8. \A g \in FB : Pending(g)' = Pending(g) /\ Pending(g) \in Nat /\ Timers(g)' = Timers(g)
  <2>1. \A g \in FB : Pending(g)' = Pending(g) /\ Pending(g) \in Nat
    BY <1>1, PendingKept, PendingType
  <2> QED BY <1>3, <2>1 DEF Timers, OnList
<1>9. \A g \in FB : DelayTime(g) => DelayTime(g)'
  BY <1>1, <1>3, <1>8 DEF DelayTime
<1>10. ASSUME NEW g \in FB \ {f} PROVE BlockOK(g)'
  <2>1. ~OnCommand(g)'
    BY <1>1 DEF OnCommand
  <2>2. Kept(g)
    BY <1>1, <1>3, <1>7, <1>8, <1>9, <2>1 DEF Kept
  <2> QED BY <1>0, <1>6, <2>2, KeptOK DEF Blocks
<1>11. BlockOK(f)'
  <2>1. CASE CommandStop(f)
    <3>1. /\ fbState'[f] = "STOPPED" /\ OnCommand(f)'
          /\ current = <<f, "START">> => f \in crossed'
          /\ current = <<f, "START">> /\ type[f] = "E_RDELAY" /\ active[f] => f \in overtaken'
      BY <2>1 DEF CommandStop, TypeOK, OnCommand, Executing
    <3>2. type[f] # "E_CYCLE" => DelayOK(f)'
      <4>1. ~DelayAtLeast(f)' => FALSE
        BY <3>1 DEF DelayAtLeast
      <4>2. type[f] # "E_CYCLE" /\ f \notin overtaken' => DelayAtMost(f) /\ DelayTime(f)
        BY <1>0, <1>2 DEF BlockOK, DelayOK
      <4>3. DelayAtMost(f) => DelayAtMost(f)'
        BY <1>1, <1>7, <1>8 DEF DelayAtMost, Idle
      <4> QED BY <1>9, <4>1, <4>2, <4>3 DEF DelayOK
    <3>3. type[f] = "E_CYCLE" => CycleOK(f)'
      BY <1>0, <1>1, <1>2, <1>3, <1>7 DEF BlockOK, CycleOK, Cycles
    <3>4. type[f] # "E_RDELAY" => FlagOK(f)'
      BY <1>0, <1>1, <1>7 DEF BlockOK, FlagOK
    <3>5. type[f] = "E_RDELAY" /\ f \notin overtaken' => RestartOK(f)'
      BY <1>0, <1>1, <1>2, <1>7, <3>1 DEF BlockOK, RestartOK
    <3>6. f \notin crossed' => StoppedOK(f)'
      BY <1>1, <3>1 DEF StoppedOK
    <3> QED BY <1>1, <3>2, <3>3, <3>4, <3>5, <3>6 DEF BlockOK
  <2>2. CASE CommandStart(f) \/ CommandDelete(f)
    <3>1. /\ fbState[f] # "RUNNING" /\ UNCHANGED <<manager, stopping, crossed, overtaken>>
          /\ ~OnCommand(f)'
      BY <2>2 DEF CommandStart, CommandDelete, OnCommand
    <3>2. f \notin crossed => ~active[f] /\ ~Starting(f) /\ current # <<f, "START">>
      BY <1>0, <1>7, <3>1 DEF BlockOK, StoppedOK, Starting
    <3>3. type[f] # "E_CYCLE" => DelayOK(f)'
      <4>1. f \notin crossed => DelayAtLeast(f)'
        BY <1>1, <1>7, <3>2 DEF DelayAtLeast
      <4>2. type[f] # "E_CYCLE" /\ f \notin overtaken => DelayAtMost(f) /\ DelayTime(f)
        BY <1>0 DEF BlockOK, DelayOK
      <4>3. DelayAtMost(f) => DelayAtMost(f)'
        BY <1>1, <1>7, <1>8 DEF DelayAtMost, Idle
      <4> QED BY <1>9, <3>1, <4>1, <4>2, <4>3 DEF DelayOK
    <3>4. type[f] = "E_CYCLE" => CycleOK(f)'
      BY <1>0, <1>1, <1>3, <1>7, <3>1 DEF BlockOK, CycleOK, Cycles
    <3>5. type[f] # "E_RDELAY" => FlagOK(f)'
      BY <1>0, <1>1, <1>7 DEF BlockOK, FlagOK
    <3>6. type[f] = "E_RDELAY" /\ f \notin overtaken => RestartOK(f)'
      BY <1>0, <1>1, <1>7, <3>1 DEF BlockOK, RestartOK
    <3>7. f \notin crossed => StoppedOK(f)'
      BY <1>1, <3>2 DEF StoppedOK
    <3> QED BY <1>1, <3>1, <3>3, <3>4, <3>5, <3>6, <3>7 DEF BlockOK
  <2> QED BY <2>1, <2>2
<1> QED BY <1>3, <1>4, <1>5, <1>10, <1>11, ShapeIsBlocks DEF Blocks

LEMMA UnregisterShape ==
  ASSUME Inv, TimerShape, UnregisterStopped
  PROVE  TimerShape'
<1> USE DEF timerVars, ecetVars, managerVars
<1>0. ListShape /\ StepShape /\ CommandShape /\ Blocks /\ TypeOK /\ Null \notin FB
  BY ShapeIsBlocks, BlockAssumption DEF Inv
<1>1. PICK f \in FB : f = stopping
  BY DEF UnregisterStopped, Inv, StopHasBlock
<1>2. /\ manager = "test" /\ fbState[f] = "STOPPED" /\ OnCommand(f)
      /\ UNCHANGED <<tick, active, external, queue, current, step, fbState, crossed, type, lost>>
      /\ \A g \in FB \ {f} : due'[g] = due[g] /\ ~OnCommand(g) /\ ~OnCommand(g)'
  BY <1>0, <1>1 DEF UnregisterStopped, CommandShape, OnCommand, TypeOK
<1>3. \A g \in FB : /\ Starting(g)' <=> Starting(g)
                    /\ Stopping(g)' <=> Stopping(g)
                    /\ Restarting(g)' <=> Restarting(g)
                    /\ ~Commanded(g)
                    /\ Pending(g)' = Pending(g) /\ Pending(g) \in Nat
  <2>1. \A g \in FB : Pending(g)' = Pending(g) /\ Pending(g) \in Nat
    BY <1>0, <1>2, PendingKept, PendingType
  <2> QED BY <1>2, <2>1 DEF Starting, Stopping, Restarting, Commanded
<1>4. StepShape'
  BY <1>0, <1>2 DEF StepShape, Starting, Stopping, Restarting
<1>5. CASE ~active[f]
  <2>1. UNCHANGED <<timerVars, due, overtaken>> /\ manager' = "idle"
    BY <1>1, <1>5 DEF UnregisterStopped
  <2>2. CommandShape' /\ Grows
    BY <1>0, <1>2, <2>1 DEF CommandShape, Grows, Delays
  <2>3. Listed' = Listed /\ \A g \in FB : ~Commanded(g)' /\ ~OnCommand(g)'
    BY <2>1 DEF Listed, Commanded, OnCommand
  <2>4. \A g \in FB : Timers(g)' = Timers(g)
    BY <1>3, <2>3 DEF Timers, OnList
  <2>5. \A g \in FB : DelayTime(g) => DelayTime(g)'
    BY <1>2, <1>3, <2>1, <2>3 DEF DelayTime
  <2>6. ASSUME NEW g \in FB \ {f} PROVE BlockOK(g)'
    <3>1. Kept(g)
      BY <1>2, <1>3, <2>3, <2>4, <2>5 DEF Kept
    <3> QED BY <1>0, <2>2, <3>1, KeptOK DEF Blocks
  <2>7. BlockOK(f)'
    <3>0. BlockOK(f)
      BY <1>0 DEF Blocks
    <3>1. type[f] # "E_CYCLE" => DelayOK(f)'
      <4>1. DelayAtLeast(f)'
        BY <1>2 DEF DelayAtLeast
      <4>2. type[f] # "E_CYCLE" /\ f \notin overtaken' => DelayAtMost(f) /\ DelayTime(f)
        BY <2>1, <3>0 DEF BlockOK, DelayOK
      <4>3. DelayAtMost(f) => DelayAtMost(f)'
        BY <1>2, <1>3, <2>3, <2>4 DEF DelayAtMost, Idle
      <4> QED BY <2>5, <4>1, <4>2, <4>3 DEF DelayOK
    <3>2. type[f] = "E_CYCLE" => CycleOK(f)'
      BY <1>2, <1>3, <2>1, <2>3, <3>0 DEF BlockOK, CycleOK, Cycles
    <3>3. type[f] # "E_RDELAY" => FlagOK(f)'
      BY <1>2, <1>3, <2>3, <3>0 DEF BlockOK, FlagOK
    <3>4. type[f] = "E_RDELAY" /\ f \notin overtaken' => RestartOK(f)'
      BY <1>2, <1>3, <2>1, <2>3, <3>0 DEF BlockOK, RestartOK
    <3>5. f \notin crossed' => StoppedOK(f)'
      BY <1>2, <1>5, <3>0 DEF BlockOK, StoppedOK
    <3> QED BY <1>2, <3>1, <3>2, <3>3, <3>4, <3>5 DEF BlockOK
  <2> QED BY <1>0, <1>4, <2>1, <2>2, <2>6, <2>7, ListShapeKept, ShapeIsBlocks DEF Blocks
<1>6. CASE active[f]
  <2>1. UnregisterTimedFB(f) /\ NoteOvertaken(f) /\ manager' = "flag" /\ stopping' = stopping
    BY <1>1, <1>6 DEF UnregisterStopped
  <2>2. /\ ListShape' /\ Removes(f) /\ overtaken \subseteq overtaken' /\ overtaken' \subseteq Delays
        /\ f \notin overtaken' => Pending(f) = 0 \/ type[f] = "E_CYCLE"
        /\ f \notin overtaken' => f \notin Listed'
    BY <1>2, <2>1, TakenOutShape
  <2>3. CommandShape' /\ Grows
    BY <1>0, <1>1, <1>2, <2>1, <2>2 DEF CommandShape, Grows, Delays
  <2>4. ASSUME NEW g \in FB \ {f} PROVE BlockOK(g)'
    <3>1. timeout'[g] = timeout[g] /\ (g \in Listed' <=> g \in Listed)
      BY <2>2 DEF Removes, OthersStay
    <3>2. ~Commanded(g)'
      BY <1>2 DEF Commanded, OnCommand
    <3>3. Timers(g)' = Timers(g)
      BY <1>3, <3>1 DEF Timers, OnList
    <3>4. DelayTime(g) => DelayTime(g)'
      BY <1>2, <1>3, <3>1 DEF DelayTime
    <3>5. Kept(g)
      BY <1>2, <1>3, <3>1, <3>2, <3>3, <3>4 DEF Kept
    <3> QED BY <1>0, <2>3, <3>5, KeptOK DEF Blocks
  <2>5. BlockOK(f)'
    <3>0. BlockOK(f) /\ Commanded(f)' /\ OnCommand(f)'
      BY <1>0, <1>1, <2>1 DEF Blocks, Commanded, OnCommand
    <3>1. type[f] # "E_RDELAY" => ~Starting(f) /\ ~Starting(f)'
      BY <1>3, <1>6, <3>0 DEF BlockOK, FlagOK
    <3>2. ASSUME type[f] # "E_RDELAY" PROVE FlagOK(f)'
      <4>1. ASSUME current = <<f, "START">> PROVE step = "begin"
        <5>1. step # "flag"
          BY <3>1, <3>2, <4>1 DEF Starting
        <5>2. step # "register"
          BY <1>0, <3>2, <4>1 DEF StepShape, Restarting
        <5> QED BY <1>0, <5>1, <5>2 DEF TypeOK
      <4> QED BY <1>2, <1>6, <3>1, <3>2, <4>1 DEF FlagOK
    <3>3. ASSUME type[f] # "E_CYCLE" PROVE DelayOK(f)'
      <4>1. ASSUME f \notin overtaken' PROVE DelayAtMost(f)' /\ DelayTime(f)'
        <5>1. Pending(f)' = 0 /\ f \notin Listed'
          BY <1>3, <2>2, <3>3, <4>1
        <5>2. Timers(f)' = 0
          BY <5>1 DEF Timers, OnList
        <5> QED BY <5>1, <5>2 DEF DelayAtMost, DelayTime
      <4>2. DelayAtLeast(f)'
        BY <1>2 DEF DelayAtLeast
      <4> QED BY <4>1, <4>2 DEF DelayOK
    <3>4. ASSUME type[f] = "E_CYCLE" PROVE CycleOK(f)'
      <4>1. f \notin Listed'
        BY <2>2, <3>4 DEF Delays
      <4> QED BY <3>0, <3>1, <3>4, <4>1 DEF CycleOK, Cycles
    <3>5. ASSUME type[f] = "E_RDELAY", f \notin overtaken' PROVE RestartOK(f)'
      <4>1. RestartOK(f)
        BY <2>2, <3>0, <3>5 DEF BlockOK
      <4>2. current' # <<f, "START">>
        BY <1>2, <1>6, <4>1 DEF RestartOK
      <4> QED BY <4>2 DEF RestartOK, Restarting
    <3>6. f \notin crossed' => StoppedOK(f)'
      BY <1>2, <3>0 DEF BlockOK, StoppedOK
    <3> QED BY <1>2, <3>2, <3>3, <3>4, <3>5, <3>6 DEF BlockOK
  <2> QED BY <1>4, <2>2, <2>3, <2>4, <2>5, ShapeIsBlocks DEF Blocks
<1> QED BY <1>5, <1>6

LEMMA DeactivateShape ==
  ASSUME Inv, TimerShape, DeactivateStopped
  PROVE  TimerShape'
<1> USE DEF timerVars, ecetVars, managerVars
<1>0. ListShape /\ StepShape /\ CommandShape /\ Blocks /\ TypeOK
  BY ShapeIsBlocks DEF Inv
<1>1. PICK f \in FB : f = stopping
  BY DEF DeactivateStopped, Inv, StopHasBlock
<1>2. /\ manager = "flag" /\ manager' = "idle" /\ fbState[f] = "STOPPED" /\ OnCommand(f)
      /\ active' = [active EXCEPT ![f] = FALSE]
      /\ UNCHANGED <<timerVars, tick, external, queue, current, step, fbState, crossed, due, type,
                     lost, overtaken>>
  BY <1>0, <1>1 DEF DeactivateStopped, CommandShape, OnCommand
<1>3. \A g \in FB : /\ Starting(g)' <=> Starting(g)
                    /\ Stopping(g)' <=> Stopping(g)
                    /\ Restarting(g)' <=> Restarting(g)
                    /\ ~Commanded(g)' /\ (Commanded(g) <=> g = f)
                    /\ ~OnCommand(g)' /\ (OnCommand(g) <=> g = f)
                    /\ Pending(g)' = Pending(g) /\ Pending(g) \in Nat
  <2>1. \A g \in FB : Pending(g)' = Pending(g) /\ Pending(g) \in Nat
    BY <1>0, <1>2, PendingKept, PendingType
  <2> QED BY <1>1, <1>2, <2>1 DEF Starting, Stopping, Restarting, Commanded, OnCommand
<1>4. StepShape' /\ CommandShape' /\ Grows
  BY <1>0, <1>2 DEF StepShape, CommandShape, Starting, Stopping, Restarting, Delays, Grows
<1>5. Listed' = Listed /\ \A g \in FB : Timers(g)' = Timers(g)
  <2>1. Listed' = Listed
    BY <1>2 DEF Listed
  <2> QED BY <1>3, <2>1 DEF Timers, OnList
<1>6. \A g \in FB : DelayTime(g) => DelayTime(g)'
  BY <1>2, <1>3, <1>5 DEF DelayTime
<1>7. ASSUME NEW g \in FB \ {f} PROVE BlockOK(g)'
  <2>1. active'[g] = active[g]
    BY <1>0, <1>2 DEF TypeOK
  <2>2. Kept(g)
    BY <1>2, <1>3, <1>5, <1>6, <2>1 DEF Kept
  <2> QED BY <1>0, <1>4, <2>2, KeptOK DEF Blocks
<1>8. BlockOK(f)'
  <2>1. ~active'[f] /\ BlockOK(f) /\ Commanded(f)
    BY <1>0, <1>2, <1>3 DEF TypeOK, Blocks
  <2>2. type[f] # "E_CYCLE" => DelayOK(f)'
    <3>1. DelayAtLeast(f)'
      BY <1>2 DEF DelayAtLeast
    <3>2. type[f] # "E_CYCLE" /\ f \notin overtaken' => DelayAtMost(f) /\ DelayTime(f)
      BY <1>2, <2>1 DEF BlockOK, DelayOK
    <3>3. DelayAtMost(f) => DelayAtMost(f)'
      BY <1>5, <2>1 DEF DelayAtMost
    <3> QED BY <1>6, <3>1, <3>2, <3>3 DEF DelayOK
  <2>3. ASSUME type[f] = "E_CYCLE" PROVE CycleOK(f)'
    <3>1. CycleOK(f) /\ ~Starting(f)
      BY <2>1, <2>3 DEF BlockOK, FlagOK
    <3> QED BY <1>2, <1>3, <1>5, <2>1, <3>1 DEF CycleOK, Cycles
  <2>4. type[f] # "E_RDELAY" => FlagOK(f)'
    BY <1>3, <2>1 DEF FlagOK
  <2>5. ASSUME type[f] = "E_RDELAY", f \notin overtaken' PROVE RestartOK(f)'
    <3>1. current # <<f, "START">>
      BY <1>2, <2>1, <2>5 DEF BlockOK, RestartOK
    <3> QED BY <1>2, <3>1 DEF RestartOK, Restarting
  <2>6. f \notin crossed' => StoppedOK(f)'
    BY <1>2, <2>1 DEF BlockOK, StoppedOK
  <2> QED BY <1>2, <2>2, <2>3, <2>4, <2>5, <2>6 DEF BlockOK
<1> QED BY <1>0, <1>2, <1>4, <1>7, <1>8, ListShapeKept, ShapeIsBlocks DEF Blocks

LEMMA NextShape ==
  ASSUME Inv, TimerShape, [Next]_vars
  PROVE  TimerShape'
<1>1. TypeOK
  BY DEF Inv
<1>2. CASE UNCHANGED vars
  BY <1>1, <1>2, UnseenShape DEF vars, timerVars, ecetVars, managerVars
<1>3. CASE Stop
  BY <1>3, UnregisterShape, DeactivateShape DEF Stop
<1> QED BY <1>1, <1>2, <1>3, TimerShapeKept, SendShape, ReceiveShape, ExecuteShape, CommandKeeps DEF Next

LEMMA ShapeHolds == Spec => [](Inv /\ TimerShape)
<1>1. Init => Inv /\ TimerShape
  BY InitInv, InitShape
<1>2. Inv /\ TimerShape /\ [Next]_vars => (Inv /\ TimerShape)'
  BY NextInv, NextShape
<1> QED BY <1>1, <1>2, PTL DEF Spec

LEMMA RestIsIdle == \A f \in FB : ~InProgress(f) => Idle(f) /\ ~OnCommand(f)
BY DEF InProgress, Idle, Starting, Stopping, Restarting, Commanded, OnCommand

-----------------------------------------------------------------------------
(* nextTick() looks at the first entries only: addTimedFBEntry(),          *)
(* unregisterTimedFB() and itself keep the list sorted and without a       *)
(* circle, for any number of blocks, whichever of them commands stop and   *)
(* start, as long as no delay has been unregistered behind its own timer   *)
(* event and no Stop command has come during the restart of an E_RDELAY.   *)
THEOREM ListSortedTheorem == Spec => []ListSorted
<1>1. Inv /\ TimerShape => ListSorted
  <2> SUFFICES ASSUME Inv, TimerShape, overtaken = {}
               PROVE  /\ Walk(head, next)[Cardinality(FB)] = Null
                      /\ \A f \in Listed : next[f] # Null => timeout[f] <= timeout[next[f]]
    BY DEF ListSorted
  <2>1. Ends(head, next) /\ Sorted(head, next, timeout)
    BY DEF TimerShape, ListShape
  <2>2. head \in FB \cup {Null} /\ next \in Pointers
    BY DEF Inv, TypeOK, Pointers
  <2>3. Walk(head, next)[Steps] = Null
    BY <2>1, <2>2, EndsDef
  <2> QED BY <2>1, <2>3, ListedIsReach DEF Steps, Sorted
<1> QED BY <1>1, ShapeHolds, PTL

(* START, STOP and the timer's event of an E_DELAY or E_RDELAY, executed   *)
(* by the event chain thread, nextTick() of the timer thread and the Stop  *)
(* and Start commands of the management interface agree on m_bActive: an   *)
(* active delay has one timer and an inactive one has none. Only a Stop    *)
(* command that comes while the block executes START is excepted           *)
(* (crossed): stopFB() may read m_bActive before START sets it.            *)
THEOREM ActiveIsPendingTheorem == Spec => []ActiveIsPending
<1>1. Inv /\ TimerShape => ActiveIsPending
  <2> SUFFICES ASSUME Inv, TimerShape, overtaken = {}, NEW f \in Delays \ (lost \cup crossed),
                      ~InProgress(f)
               PROVE  Pending(f) + (IF f \in Listed THEN 1 ELSE 0) = IF active[f] THEN 1 ELSE 0
    BY DEF ActiveIsPending
  <2>1. f \in FB /\ type[f] # "E_CYCLE"
    BY DEF Delays
  <2>2. DelayAtMost(f) /\ DelayAtLeast(f)
    BY <2>1 DEF TimerShape, DelaysAtMost, DelaysAtLeast
  <2>3. Idle(f) /\ ~OnCommand(f)
    BY <2>1, RestIsIdle
  <2>4. active[f] => fbState[f] = "RUNNING"
    BY <2>1, <2>3 DEF TimerShape, Stopped, StoppedOK
  <2>5. Timers(f) \in Nat
    BY PendingType DEF Inv
  <2>6. Timers(f) = IF active[f] THEN 1 ELSE 0
    BY <2>2, <2>3, <2>4, <2>5 DEF DelayAtMost, DelayAtLeast
  <2> QED BY <2>6 DEF Timers, OnList
<1> QED BY <1>1, ShapeHolds, PTL

(* An active E_RDELAY is going to be notified, even after its restart has  *)
(* come behind its own timer event (E_RDELAY.cpp:28), unless a Stop        *)
(* command came during its START.                                          *)
THEOREM RestartedHasTimerTheorem == Spec => []RestartedHasTimer
<1>1. Inv /\ TimerShape => RestartedHasTimer
  <2> SUFFICES ASSUME Inv, TimerShape, NEW f \in Of("E_RDELAY") \ (lost \cup crossed),
                      active[f], ~InProgress(f), overtaken \subseteq {f}
               PROVE  f \in Listed \/ Pending(f) > 0
    BY DEF RestartedHasTimer
  <2>1. f \in FB \ crossed /\ f \in Delays \ (lost \cup crossed)
    BY DEF Of, Delays
  <2>2. DelayAtLeast(f) /\ Idle(f) /\ ~OnCommand(f)
    BY <2>1, RestIsIdle DEF TimerShape, DelaysAtLeast
  <2>3. fbState[f] = "RUNNING"
    BY <2>1, <2>2 DEF TimerShape, Stopped, StoppedOK
  <2>4. Timers(f) > 0 /\ Pending(f) \in Nat
    BY <2>2, <2>3, PendingType DEF DelayAtLeast, Inv
  <2> QED BY <2>4 DEF Timers, OnList
<1> QED BY <1>1, ShapeHolds, PTL

(* An E_CYCLE is registered exactly while it is active, whichever of       *)
(* START, STOP, stopFB() and nextTick() comes between the two halves of    *)
(* another: the timer goes on without an active cycle never.               *)
THEOREM CycleRegisteredTheorem == Spec => []CycleRegistered
<1>1. Inv /\ TimerShape => CycleRegistered
  <2> SUFFICES ASSUME Inv, TimerShape, overtaken = {}, NEW f \in Of("E_CYCLE"), ~InProgress(f)
               PROVE  active[f] <=> f \in Listed
    BY DEF CycleRegistered
  <2>1. (f \in Listed => Cycles(f)) /\ (Cycles(f) => f \in Listed)
    BY DEF TimerShape, Cycled
  <2>2. Idle(f)
    BY RestIsIdle DEF Of
  <2> QED BY <2>1, <2>2 DEF Cycles, Idle
<1> QED BY <1>1, ShapeHolds, PTL

(* executeEvent() of a delay sends EO for its timer's event only when the  *)
(* delay of the last START is over, and neither after a STOP nor after a   *)
(* Stop command that found the block active.                               *)
THEOREM NeverEarlyTheorem == Spec => NeverEarly
<1>1. Inv /\ TimerShape /\ [Next]_vars
        => [\A f \in Delays \ overtaken : ExecuteExternalEvent(f) => due[f] = 0]_vars
  <2> SUFFICES ASSUME Inv, TimerShape, NEW f \in Delays \ overtaken, ExecuteExternalEvent(f)
               PROVE  due[f] = 0
    OBVIOUS
  <2>1. DelayTime(f)
    BY DEF TimerShape, DelaysAtMost
  <2>2. Count(external, Ext(f)) \in Nat /\ Count(queue, Ext(f)) \in Nat /\ current = Ext(f)
    BY PendingType DEF Inv, ExecuteExternalEvent, Executing, Ext
  <2>3. Pending(f) > 0
    BY <2>2, PendingIs
  <2> QED BY <2>1, <2>3 DEF DelayTime
<1> QED BY <1>1, ShapeHolds, PTL DEF Spec, NeverEarly
=============================================================================
