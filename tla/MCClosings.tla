----------------------------- MODULE MCClosings -----------------------------
(* Closings of months of two days, or of two and three, in ticks of half a *)
(* day or a quarter.  The month closed at Noon is days 0 and 1 in UTC.  In *)
(* the east local time is ahead of UTC, and clocks go forward at the       *)
(* midnight of day 3 of the month closed, days 2, 3 and 4: in UTC its days *)
(* are 1, 2 and 3, and one movement lies outside it.                       *)
EXTENDS Closings, TLC

CONSTANT Ahead   \* how far local time is ahead of UTC, in half days

Move(table, type, amount, day) ==
  [table |-> table, type |-> type, amount |-> amount, day |-> day, no |-> 0]

MCMovements == {
  Move("entry", "income", 2, 1), Move("entry", "expense", 3, 1),
  Move("provision", "income", 2, 2), Move("provision", "expense", 1, 3),
  Move("provision", "income", 2, 4)}

FewMovements == {
  Move("entry", "income", 2, 0), Move("entry", "expense", 3, 1),
  Move("provision", "expense", 3, -1)}

Balance(amount, at) == [kind |-> "balance", amount |-> amount, at |-> at]
MCBalances == {Balance(1, 4), Balance(2, 6), Balance(9, 8)}
OneBalance == {Balance(2, -1)}
Nothing == {}
MCMonthStart == [m \in -4 .. 15 |-> 2 * m]
UnevenMonths == [m \in -4 .. 15 |-> 2 * m + m \div 2]
MCOffset == [d \in -8 .. 20 |-> Ahead]
EastWithSummer == [d \in -8 .. 20 |-> IF d <= 3 THEN 2 ELSE 3]
DayThree == {3}
InMonth == {11}
West == -1
Noon == {1}
BareDates == {2, 20}   \* UTC midnights: the last day of month 0, the first of month 4
TwoQuarters == 0 .. 23
Symmetry == Permutations(Calls)
=============================================================================
