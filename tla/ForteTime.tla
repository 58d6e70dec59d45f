------------------------------ MODULE ForteTime ------------------------------
(***************************************************************************)
(* SForteTime, the timer's clock and the timeouts it is compared with: a   *)
(* number of ticks in two words, each of which takes the values below w    *)
(* and wraps around.                                                       *)
(***************************************************************************)
EXTENDS Integers

Word(w) == 0 .. (w - 1)
SForteTime(w) == [upper : Word(w), lower : Word(w)]

(* the number of ticks that is meant *)
Ticks(w, t) == t.upper * w + t.lower

(* arithmetic of unsigned integers *)
Sum(w, a, b)  == IF a + b < w THEN a + b ELSE a + b - w
Less(w, a, b) == IF a >= b THEN a - b ELSE a - b + w

(* operator++ *)
Increment(w, t) ==
  LET lower == Sum(w, t.lower, 1)
  IN  [lower |-> lower, upper |-> IF lower = 0 THEN Sum(w, t.upper, 1) ELSE t.upper]

PlusLower(w, t, i) == [t EXCEPT !.lower = Sum(w, t.lower, i)]   \* mutant: no carry

(* operator+=; a sum below its first operand has wrapped around *)
Plus(w, t, i) ==
  LET lower == Sum(w, t.lower, i)
  IN  [lower |-> lower, upper |-> IF t.lower > lower THEN Sum(w, t.upper, 1) ELSE t.upper]

(* operator-= of a number of ticks *)
MinusTicks(w, t, i) ==
  LET lower == Less(w, t.lower, i)
  IN  [lower |-> lower, upper |-> IF t.lower < lower THEN Less(w, t.upper, 1) ELSE t.upper]

(* operator-= of a time; a borrow is also taken from the lower word        *)
Minus(w, t, u) ==
  LET upper == Less(w, t.upper, u.upper)
  IN  IF t.lower < u.lower
      THEN [upper |-> Less(w, upper, 1), lower |-> Less(w, Less(w, t.lower, 1), u.lower)]
      ELSE [upper |-> upper, lower |-> Less(w, t.lower, u.lower)]

(* operator> *)
IsLater(t, u) == t.upper > u.upper \/ (t.upper = u.upper /\ t.lower > u.lower)
=============================================================================
