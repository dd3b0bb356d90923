------------------------------ MODULE MCReports ------------------------------
(* Reports over months of four and two days, in ticks of a quarter of a    *)
(* day, so that a day begins, has an inside and ends on different ticks.   *)
(* Local time is ahead of UTC, with summer time but on days 1, 2 and 3:    *)
(* day 0 repeats its last hour, and day 3, at the end of a month, begins   *)
(* without a midnight.  A projection from day 2 then loses its last day,   *)
(* one from day 3 does not.                                                *)
EXTENDS Reports

MCMonthStart == [m \in -2 .. 6 |-> 3 * m + (m % 2)]
EastWithSummer == [d \in -5 .. 15 |-> IF d \in 1 .. 3 THEN 2 ELSE 3]
DayThree == {3}
DayZero == {0}

Move(table, type, amount, day) ==
  [table |-> table, type |-> type, amount |-> amount, day |-> day, no |-> 0]
Mark(kind, amount, at) == [kind |-> kind, amount |-> amount, at |-> at]

MCMovements == {
  Move("entry", "income", 2, 3), Move("entry", "expense", 3, 2),
  Move("provision", "expense", 2, 4)}
MCMarks == {
  Mark("balance", 1, 2), Mark("balance", 3, 18),
  Mark("stock", 8, 4), Mark("stock", 16, 1),
  Mark("reserve", 32, 8), Mark("investment", 64, 5)}
Asked == {7, 10}   \* in days 2 and 3
=============================================================================
