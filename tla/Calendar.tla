------------------------------ MODULE Calendar ------------------------------
(***************************************************************************)
(* Time as finance.service.ts computes with it.  An instant is a number of *)
(* ticks since some UTC midnight; a Date is an instant, read and set by    *)
(* its local getters and setters, and written as the UTC day by            *)
(* toISOString.  Local time is ahead of UTC by Offset[d] ticks when local  *)
(* day d begins, so it may change from day to day.  Clocks put forward at  *)
(* midnight skip it (the day then begins an hour late), clocks put back at *)
(* midnight repeat the last hour of the day before.  Month m begins on     *)
(* local day MonthStart[m].                                                *)
(***************************************************************************)
EXTENDS Integers

CONSTANTS
  DayTicks, MonthStart, Offset,
  Skips,     \* the local days that have no midnight
  Repeats,   \* the local days whose last hour runs twice
  Hour       \* by how much clocks are put forward and back

Days   == DOMAIN Offset
Months == DOMAIN MonthStart

(* The instant at which local day d begins; of a day that has no midnight, *)
(* Offset is how far local time was ahead until then.                      *)
Midnight(d) == d * DayTicks - Offset[d]

(* Every local day is longer than an hour: no zone skips one whole.        *)
ASSUME CalendarAssumption ==
  /\ DayTicks \in Nat \ {0}
  /\ \A m \in Months : m \in Int /\ MonthStart[m] \in Int
  /\ \A m, n \in Months : m < n => MonthStart[m] < MonthStart[n]
  /\ \A d \in Days : d \in Int /\ Offset[d] \in -DayTicks .. DayTicks
  /\ Hour \in Nat \ {0}
  /\ \A d, e \in Days : d < e => Midnight(d) + Hour < Midnight(e)

UtcDay(t)   == t \div DayTicks
LocalDay(t) == CHOOSE d \in Days : Midnight(d) <= t /\ t < Midnight(d + 1)

(* A Date that was put at the beginning of one of the days D and then set  *)
(* to the others, to day d last: setDate and setMonth keep the time of     *)
(* day, so that it stays an hour behind midnight once a day had none.      *)
Moved(d, D) == Midnight(d) + IF d \notin Skips /\ D \cap Skips # {} THEN Hour ELSE 0

(* The cursor of a loop that began on day first and adds a day each turn.  *)
Cursor(first, d) == Moved(d, first .. d)

(* normalizeToDate of a local midnight: the UTC day in which it falls. *)
DateKey(d) == UtcDay(Midnight(d))

(* getPeriodRange: the local days on which the period of day d begins and  *)
(* ends.                                                                   *)
MonthOf(d)   == CHOOSE m \in Months : MonthStart[m] <= d /\ d < MonthStart[m + 1]
QuarterOf(d) == MonthOf(d) \div 3

(* The calendar has the local day of an instant and the month of that day. *)
Covers(t) ==
  LET d == LocalDay(t)
      m == MonthOf(d)
  IN  /\ t \in Int
      /\ {d, d + 1} \subseteq Days /\ Midnight(d) <= t /\ t < Midnight(d + 1)
      /\ {m, m + 1} \subseteq Months /\ MonthStart[m] <= d /\ d < MonthStart[m + 1]

Period(type, m, n) == [type |-> type, first |-> MonthStart[m], last |-> MonthStart[m + n] - 1]

PeriodOfUnscaled(type, d) ==   \* mutant: the quarter's number for its month
  IF type = "quarterly" THEN Period(type, QuarterOf(d), 3) ELSE Period(type, MonthOf(d), 1)

PeriodOfOverlong(type, d) ==   \* mutant: day 1 of the next month, not day 0
  LET p == IF type = "quarterly" THEN Period(type, 3 * QuarterOf(d), 3)
                                 ELSE Period(type, MonthOf(d), 1)
  IN  [p EXCEPT !.last = @ + 1]

PeriodOf(type, d) ==
  IF type = "quarterly" THEN Period(type, 3 * QuarterOf(d), 3) ELSE Period(type, MonthOf(d), 1)

(* setMonth(getMonth() + n) keeps the day of the month, so that it runs    *)
(* over into the month after when the target month is too short.           *)
PlusMonths(d, n) == LET m == MonthOf(d) IN MonthStart[m + n] + (d - MonthStart[m])
=============================================================================
