---------------------------- MODULE ReportsProofs ----------------------------
(***************************************************************************)
(* What getCashflow, getIndicators and the lists answer for every          *)
(* calendar, ledger, horizon and interleaving with the ledger's writers.   *)
(* First the days and the loops of a projection, then the invariant of the *)
(* queries, then the properties that the run checks.                       *)
(***************************************************************************)
EXTENDS Reports, LedgerProofs

(* A projection asked for at t, of n months. *)
Horizon(q) ==
  \E t \in Nows, n \in Horizons :
    q.first = LocalDay(t) /\ q.last = LastDay(LocalDay(t), n) /\ q.end = EndDate(LocalDay(t), n)

LEMMA HorizonFacts ==
  ASSUME NEW t \in Nows, NEW n \in Horizons
  PROVE  LET first == LocalDay(t)
             last  == LastDay(first, n)
         IN  /\ first \in Int /\ last \in Int /\ first <= last
             /\ first .. last \subseteq Days /\ last \in Days
             /\ EndDate(first, n) \in Int
<1> DEFINE first == LocalDay(t)
           last  == LastDay(first, n)
           from  == MonthOf(first)
<1>1. /\ from \in Months /\ first \in Days /\ MonthStart[from] <= first
      /\ from + n \in Months /\ first .. last \subseteq Days
  BY HorizonAssumption DEF Covers
<1>2. /\ last = PlusMonths(first, n) - 1
      /\ PlusMonths(first, n) = MonthStart[from + n] + (first - MonthStart[from])
  BY Zenon DEF LastDay, PlusMonths
<1>3. n \in Nat /\ n > 0 BY ReportAssumption
<1>4. EndDate(first, n) = Moved(last, {first, PlusMonths(first, n)}) BY DEF EndDate
<1> HIDE DEF first, last, from
<1>5. /\ first \in Int /\ from \in Int /\ MonthStart[from] \in Int
      /\ MonthStart[from + n] \in Int
      /\ MonthStart[from] < MonthStart[from + n]
  <2>1. from \in Int BY <1>1, CalendarAssumption
  <2>2. from < from + n BY <2>1, <1>3
  <2> QED BY <2>1, <2>2, <1>1, CalendarAssumption
<1>6. last \in Int /\ first <= last BY <1>2, <1>5
<1>7. last \in Days BY <1>1, <1>5, <1>6
<1>8. EndDate(first, n) \in Int BY <1>4, <1>7, MovedIsNear
<1> QED BY <1>1, <1>5, <1>6, <1>7, <1>8 DEF first, last

(* endDate is the last day, at the time of day that setMonth and setDate   *)
(* left it.                                                                *)
LEMMA HorizonDays ==
  ASSUME NEW q, Horizon(q)
  PROVE  /\ q.first \in Int /\ q.last \in Int /\ q.first <= q.last
         /\ q.first .. q.last \subseteq Days /\ q.first \in Days /\ q.last \in Days
         /\ q.end \in Int /\ q.end \in {Midnight(q.last), Midnight(q.last) + Hour}
         /\ Midnight(q.last) <= q.end
         /\ DateKey(q.first) \in Int /\ UtcDay(q.end) \in Int /\ DateKey(q.first) <= UtcDay(q.end)
<1>1. PICK t \in Nows, n \in Horizons :
        q.first = LocalDay(t) /\ q.last = LastDay(LocalDay(t), n) /\ q.end = EndDate(LocalDay(t), n)
  BY DEF Horizon
<1>2. /\ q.first \in Int /\ q.last \in Int /\ q.first <= q.last
      /\ q.first .. q.last \subseteq Days /\ q.first \in Days /\ q.last \in Days
  <2>1. /\ q.first \in Int /\ q.last \in Int /\ q.first <= q.last /\ q.first .. q.last \subseteq Days
    BY <1>1, HorizonFacts
  <2> QED BY <2>1
<1>3. PICK D : q.end = Moved(q.last, D) BY <1>1 DEF EndDate
<1>4. PICK l \in Days : l = q.last BY <1>2
<1>5. /\ q.end \in Int /\ Midnight(l) \in Int /\ Midnight(l) <= q.end
      /\ q.end = Midnight(l) \/ q.end = Midnight(l) + Hour
  <2>1. Hour \in Nat BY CalendarAssumption
  <2>2. Moved(l, D) = Midnight(l) + Hour \/ Moved(l, D) = Midnight(l) + 0 BY DEF Moved
  <2>3. Midnight(l) \in Int BY KeyIsInt
  <2> QED BY <1>3, <1>4, <2>1, <2>2, <2>3
<1>6. DateKey(q.first) \in Int /\ Midnight(q.first) \in Int BY <1>2, KeyIsInt
<1>7. Midnight(q.first) <= q.end
  <2>1. Midnight(q.first) <= Midnight(l) BY <1>2, <1>4, MidnightsInOrder
  <2> QED BY <2>1, <1>5, <1>6
<1>8. DateKey(q.first) <= UtcDay(q.end) /\ UtcDay(q.end) \in Int
  <2>1. PICK x \in Int, y \in Int : x = Midnight(q.first) /\ y = q.end BY <1>5, <1>6
  <2>2. DayTicks \in Nat \ {0} BY CalendarAssumption
  <2>3. x \div DayTicks <= y \div DayTicks BY <1>7, <2>1, <2>2, DivInOrder
  <2>4. y \div DayTicks \in Int BY <2>2
  <2> QED BY <2>1, <2>3, <2>4 DEF DateKey, UtcDay
<1> QED BY <1>2, <1>4, <1>5, <1>6, <1>8

-----------------------------------------------------------------------------
(* The loops of a projection.                                              *)

Loses(q) ==
  /\ q.last \notin Skips /\ Skips \cap (q.first .. q.last) # {}
  /\ q.end = Midnight(q.last)
SeenLast(q) == q.last - IF Loses(q) THEN 1 ELSE 0

Count(q)  == Cardinality(Turns(q))
Keys(q)   == [i \in 1 .. Count(q) |-> UtcDay(Cursor(q.first, q.first + i - 1))]
KeySet(q) == {Keys(q)[i] : i \in 1 .. Count(q)}
Daily(type, q) == [k \in KeySet(q) |-> Total(Only(type, On(q.counted, k)))]
DailyNet(q)    == [k \in KeySet(q) |-> Daily("income", q)[k] - Daily("expense", q)[k]]
DailySpent(q)  == [k \in KeySet(q) |-> -Daily("expense", q)[k]]
Balances(q)    == Running(Keys(q), DailyNet(q), q.opening)
Spent(q)       == Running(Keys(q), DailySpent(q), q.opening)
ShortTurn(q)   == FirstNegative(Balances(q), Count(q))
Runway(q)      == IF q.opening < 0 THEN 0 ELSE FirstNegative(Spent(q), Count(q))
TurnsOf(q, m)  == {i \in 1 .. Count(q) : MonthOf(Keys(q)[i]) = m}
SumOf(q, m, f) == SumFunction([i \in TurnsOf(q, m) |-> f[Keys(q)[i]]])
Monthly(q, m)  ==
  [month |-> m, income |-> SumOf(q, m, Daily("income", q)),
   expense |-> SumOf(q, m, Daily("expense", q)), net |-> SumOf(q, m, DailyNet(q)),
   endingBalance |-> Balances(q)[Max(TurnsOf(q, m))]]

(* The answer, part by part. *)
LEMMA ProjectionIs ==
  ASSUME NEW q
  PROVE  Projection(q) =
           [startDate       |-> DateKey(q.first),
            endDate         |-> UtcDay(q.end),
            startingBalance |-> q.opening,
            endingBalance   |-> Balances(q)[Count(q)],
            dayOfCashShort  |-> IF ShortTurn(q) = None THEN None ELSE Keys(q)[ShortTurn(q)],
            runwayDays      |-> Runway(q),
            runwayEndsOn    |-> CASE Runway(q) = None -> None
                                  [] Runway(q) = 0    -> DateKey(q.first)
                                  [] OTHER            -> Keys(q)[Runway(q)],
            days            |-> [i \in 1 .. Count(q) |->
                                  [date |-> Keys(q)[i], net |-> DailyNet(q)[Keys(q)[i]],
                                   balance |-> Balances(q)[i]]],
            months          |-> {Monthly(q, MonthOf(k)) : k \in KeySet(q)}]
BY DEF Projection, Count, Keys, KeySet, Daily, DailyNet, DailySpent, Balances, Spent, ShortTurn,
       Runway, TurnsOf, SumOf, Monthly

(* The loop visits the days from the first to the last, but for the last   *)
(* when its cursor is an hour behind there and endDate is not.             *)
LEMMA TurnsAre ==
  ASSUME NEW q, Horizon(q)
  PROVE  /\ SeenLast(q) \in q.first .. q.last /\ SeenLast(q) \in Days
         /\ DateKey(SeenLast(q)) \in Int
         /\ Turns(q) = q.first .. SeenLast(q)
         /\ Count(q) = SeenLast(q) - q.first + 1
<1> DEFINE lo == q.first
           hi == q.last
           end == q.end
<1>1. /\ lo \in Int /\ hi \in Int /\ lo <= hi /\ lo .. hi \subseteq Days /\ hi \in Days
      /\ end \in Int /\ end \in {Midnight(hi), Midnight(hi) + Hour} /\ Midnight(hi) <= end
  BY HorizonDays
<1>2. /\ Turns(q) = {d \in lo .. hi : Cursor(lo, d) <= end}
      /\ Loses(q) <=> hi \notin Skips /\ Skips \cap (lo .. hi) # {} /\ end = Midnight(hi)
      /\ SeenLast(q) = hi - IF Loses(q) THEN 1 ELSE 0
  BY DEF Turns, Loses, SeenLast
<1> HIDE DEF lo, hi, end
<1>3. PICK top \in lo .. hi :
        /\ Turns(q) = lo .. top
        /\ top = IF Cursor(lo, hi) <= end THEN hi ELSE hi - 1
  <2>1. \E top \in lo .. hi :
          /\ {d \in lo .. hi : Cursor(lo, d) <= end} = lo .. top
          /\ top = IF Cursor(lo, hi) <= end THEN hi ELSE hi - 1
    BY <1>1, LoopIsInterval
  <2> QED BY <2>1, <1>2
<1>4. Cursor(lo, hi) <= end <=> ~Loses(q)
  <2>1. Midnight(hi) \in Int /\ Hour \in Nat \ {0} BY <1>1, KeyIsInt, CalendarAssumption
  <2>2. CASE hi \notin Skips /\ (lo .. hi) \cap Skips # {}
    <3>1. Cursor(lo, hi) = Midnight(hi) + Hour BY <2>2 DEF Cursor, Moved
    <3>2. Loses(q) <=> end = Midnight(hi)
      <4>1. Skips \cap (lo .. hi) # {} BY <2>2
      <4> QED BY <1>2, <2>2, <4>1
    <3> QED BY <1>1, <2>1, <3>1, <3>2
  <2>3. CASE ~(hi \notin Skips /\ (lo .. hi) \cap Skips # {})
    <3>1. Cursor(lo, hi) = Midnight(hi) + 0 BY <2>3 DEF Cursor, Moved
    <3>2. ~Loses(q)
      <4>1. (lo .. hi) \cap Skips = Skips \cap (lo .. hi) OBVIOUS
      <4> QED BY <1>2, <2>3, <4>1
    <3> QED BY <1>1, <2>1, <3>1, <3>2
  <2> QED BY <2>2, <2>3
<1>5. top = SeenLast(q) BY <1>1, <1>2, <1>3, <1>4
<1>6. SeenLast(q) \in lo .. hi /\ SeenLast(q) \in Days BY <1>1, <1>3, <1>5
<1>7. Count(q) = SeenLast(q) - lo + 1
  <2>1. Cardinality(lo .. top) = top - lo + 1
    <3>1. top \in Int /\ ~(lo > top) BY <1>1
    <3> QED BY <1>1, <3>1, FS_Interval
  <2> QED BY <1>3, <1>5, <2>1 DEF Count
<1> QED BY <1>3, <1>5, <1>6, <1>7, KeyIsInt DEF lo, hi

LEMMA KeysAre ==
  ASSUME NEW q, Horizon(q)
  PROVE  /\ Count(q) \in Nat /\ Count(q) >= 1
         /\ Keys(q) \in [1 .. Count(q) -> Int] /\ Keys(q) \in Seq(Int) /\ Len(Keys(q)) = Count(q)
         /\ \A i \in 1 .. Count(q) :
              /\ q.first + i - 1 \in Days
              /\ OneSideOfUtc => Keys(q)[i] = DateKey(q.first + i - 1)
         /\ \A i, j \in 1 .. Count(q) : i <= j => Keys(q)[i] <= Keys(q)[j]
         /\ \A i \in 1 .. Count(q) :
              Keys(q)[i] \in DateKey(q.first) .. UtcDay(q.end) /\ Keys(q)[i] \in KeySet(q)
<1> DEFINE first == q.first
           last  == SeenLast(q)
           n     == Count(q)
           cursor(i) == Cursor(q.first, q.first + i - 1)
<1>1. /\ first \in Int /\ last \in Int /\ first <= last /\ first .. last \subseteq Days
      /\ n = last - first + 1 /\ first \in Days
      /\ Turns(q) = first .. last
      /\ q.end \in Int /\ DateKey(first) \in Int /\ UtcDay(q.end) \in Int
      /\ DayTicks \in Nat \ {0} /\ Midnight(first) \in Int
  <2>1. /\ q.first \in Int /\ q.last \in Int /\ q.first .. q.last \subseteq Days /\ q.first \in Days
        /\ q.end \in Int /\ DateKey(q.first) \in Int /\ UtcDay(q.end) \in Int
    BY HorizonDays
  <2>2. SeenLast(q) \in q.first .. q.last /\ Turns(q) = q.first .. SeenLast(q)
        /\ Count(q) = SeenLast(q) - q.first + 1
    BY TurnsAre
  <2> QED BY <2>1, <2>2, CalendarAssumption, KeyIsInt
<1>2. \A i \in 1 .. n : Keys(q)[i] = cursor(i) \div DayTicks BY DEF Keys, UtcDay
<1>3. Keys(q) = [i \in 1 .. n |-> Keys(q)[i]] BY DEF Keys
<1> HIDE DEF last, n
<1>4. n \in Nat /\ n >= 1 BY <1>1
<1>5. ASSUME NEW i \in 1 .. n
      PROVE  /\ first + i - 1 \in Days /\ cursor(i) \in Int
             /\ Midnight(first) <= cursor(i) /\ cursor(i) <= q.end
             /\ OneSideOfUtc => Keys(q)[i] = DateKey(first + i - 1)
  <2>1. PICK d \in Int : d = first + i - 1 BY <1>1
  <2>2. d \in first .. last BY <1>1, <1>4, <2>1, SMTT(30)
  <2>3. d \in Days /\ d \in Turns(q) /\ first <= d BY <1>1, <2>2
  <2>4. cursor(i) = Cursor(first, d) BY <2>1
  <2>5. Cursor(first, d) \in Int /\ Midnight(d) \in Int /\ Midnight(d) <= Cursor(first, d)
    BY <2>3, MovedIsNear DEF Cursor
  <2>6. Midnight(first) <= Midnight(d) BY <1>1, <2>3, MidnightsInOrder
  <2>7. Cursor(first, d) <= q.end BY <2>3 DEF Turns
  <2>8. OneSideOfUtc => UtcDay(Cursor(first, d)) = DateKey(d) BY <2>3, MovedKey DEF Cursor
  <2>9. Keys(q)[i] = UtcDay(Cursor(first, d)) BY <1>2, <2>4 DEF UtcDay
  <2> HIDE DEF cursor, first
  <2> QED BY <1>1, <2>1, <2>3, <2>4, <2>5, <2>6, <2>7, <2>8, <2>9
<1>6. ASSUME NEW i \in 1 .. n, NEW j \in 1 .. n, i <= j PROVE cursor(i) <= cursor(j)
  <2>1. cursor(i) \in Int /\ cursor(j) \in Int BY <1>5
  <2>2. CASE i = j BY <2>1, <2>2
  <2>3. CASE i # j
    <3>1. PICK d \in Int, e \in Int : d = first + i - 1 /\ e = first + j - 1 BY <1>1
    <3>2. d \in Days /\ e \in Days /\ d < e BY <1>1, <1>5, <1>6, <2>3, <3>1, SMTT(30)
    <3>3. Midnight(d) + Hour < Midnight(e) BY <3>2, MidnightsInOrder
    <3>4. /\ Cursor(first, d) \in Int /\ Cursor(first, d) <= Midnight(d) + Hour
          /\ Cursor(first, e) \in Int /\ Midnight(e) <= Cursor(first, e)
          /\ Midnight(d) \in Int /\ Midnight(e) \in Int /\ Hour \in Nat
      BY <3>2, MovedIsNear, CalendarAssumption DEF Cursor
    <3>5. Cursor(first, d) <= Cursor(first, e) BY <3>3, <3>4
    <3> QED BY <3>1, <3>5
  <2> QED BY <2>2, <2>3
<1> HIDE DEF cursor
<1>7. Keys(q) \in [1 .. n -> Int]
  <2>1. \A i \in 1 .. n : Keys(q)[i] \in Int BY <1>1, <1>2, <1>5
  <2> QED BY <2>1, <1>3
<1>8. Keys(q) \in Seq(Int) /\ Len(Keys(q)) = n BY <1>4, <1>7
<1>9. ASSUME NEW i \in 1 .. n, NEW j \in 1 .. n, i <= j PROVE Keys(q)[i] <= Keys(q)[j]
  <2>1. cursor(i) \in Int /\ cursor(j) \in Int /\ cursor(i) <= cursor(j) BY <1>5, <1>6, <1>9
  <2>2. cursor(i) \div DayTicks <= cursor(j) \div DayTicks BY <1>1, <2>1, DivInOrder
  <2> QED BY <1>2, <2>2
<1>10. ASSUME NEW i \in 1 .. n
       PROVE  Keys(q)[i] \in DateKey(first) .. UtcDay(q.end) /\ Keys(q)[i] \in KeySet(q)
  <2>1. cursor(i) \in Int /\ Midnight(first) <= cursor(i) /\ cursor(i) <= q.end BY <1>5
  <2>2. Midnight(first) \div DayTicks <= cursor(i) \div DayTicks
    BY <1>1, <2>1, DivInOrder
  <2>3. cursor(i) \div DayTicks <= q.end \div DayTicks
    BY <1>1, <2>1, DivInOrder
  <2>4. Keys(q)[i] = cursor(i) \div DayTicks /\ Keys(q)[i] \in Int BY <1>2, <1>7
  <2>5. DateKey(first) = Midnight(first) \div DayTicks /\ UtcDay(q.end) = q.end \div DayTicks
    BY DEF DateKey, UtcDay
  <2>6. Keys(q)[i] \in KeySet(q) BY DEF KeySet, n
  <2> HIDE DEF first
  <2> QED BY <1>1, <2>2, <2>3, <2>4, <2>5, <2>6
<1> QED BY <1>4, <1>5, <1>7, <1>8, <1>9, <1>10 DEF n

(* A running sum starts from the opening and adds a day's value each turn. *)
LEMMA RunningAdds ==
  ASSUME NEW keys \in Seq(Int), NEW daily, NEW opening \in Int,
         \A i \in 1 .. Len(keys) : daily[keys[i]] \in Int
  PROVE  LET b == Running(keys, daily, opening)
             n == Len(keys)
         IN  /\ b \in [0 .. n -> Int]
             /\ b[0] = opening
             /\ \A i \in 1 .. n : b[i] = b[i - 1] + daily[keys[i]]
<1> DEFINE n == Len(keys)
           F == [x \in (0 + 1 .. n) \X Int |-> x[2] + daily[keys[x[1]]]]
           Is(g) == g = [i \in 0 .. Len(keys) |->
                          IF i = 0 THEN opening ELSE g[i - 1] + daily[keys[i]]]
<1>1. n \in Nat OBVIOUS
<1>2. F \in [(0 + 1 .. n) \X Int -> Int] OBVIOUS
<1>3. PICK g \in [0 .. n -> Int] : Follows(0, n, opening, F, g)
  <2>1. 0 \in Int /\ n \in Int BY <1>1
  <2> HIDE DEF F, n
  <2> QED BY <2>1, <1>2, FollowsExists
<1>4. Is(g)
  <2>1. \A i \in 0 .. n : g[i] = IF i = 0 THEN opening ELSE F[<<i, g[i - 1]>>]
    BY <1>3, Zenon DEF Follows
  <2>2. ASSUME NEW i \in 0 .. n
        PROVE  g[i] = IF i = 0 THEN opening ELSE g[i - 1] + daily[keys[i]]
    <3>1. CASE i = 0
      <4> HIDE DEF F
      <4> QED BY <3>1, <2>1
    <3>2. CASE i # 0
      <4>1. i \in 0 + 1 .. n /\ i - 1 \in 0 .. n BY <3>2, <1>1
      <4>2. g[i - 1] \in Int BY <4>1
      <4>3. F[<<i, g[i - 1]>>] = g[i - 1] + daily[keys[i]] BY <4>1, <4>2
      <4> HIDE DEF F
      <4> QED BY <4>3, <2>1, <3>2
    <3> QED BY <3>1, <3>2
  <2>3. g = [i \in 0 .. n |-> g[i]] OBVIOUS
  <2> QED BY <2>2, <2>3
<1> DEFINE b == Running(keys, daily, opening)
<1>5. Is(b)
  <2>1. b = CHOOSE h : Is(h) BY DEF Running
  <2> HIDE DEF Is, b
  <2> QED BY <2>1, <1>4, Zenon
<1>6. /\ b = [i \in 0 .. n |-> b[i]]
      /\ \A i \in 0 .. n : b[i] = IF i = 0 THEN opening ELSE b[i - 1] + daily[keys[i]]
  <2> HIDE DEF b
  <2> QED BY <1>5, Zenon
<1> HIDE DEF b, F, Is
<1>7. b[0] = opening BY <1>6, <1>1
<1>8. ASSUME NEW i \in 1 .. n PROVE b[i] = b[i - 1] + daily[keys[i]]
  <2>1. i \in 0 .. n /\ i # 0 BY <1>1
  <2> HIDE DEF n
  <2> QED BY <2>1, <1>6
<1>9. \A i \in 0 .. n : b[i] \in Int
  <2> DEFINE T == {i \in 0 .. n : b[i] \in Int}
  <2>1. 0 \in T BY <1>1, <1>7
  <2>2. ASSUME NEW i \in 0 + 1 .. n, i - 1 \in T PROVE i \in T
    <3>1. i \in 1 .. n /\ i \in 0 .. n BY <1>1
    <3>2. b[i - 1] \in Int /\ daily[keys[i]] \in Int BY <2>2, <3>1
    <3> QED BY <3>1, <3>2, <1>8
  <2>3. 0 .. n \subseteq T
    <3>1. 0 \in Int /\ n \in Int BY <1>1
    <3> HIDE DEF T, n
    <3> QED BY <2>1, <2>2, <3>1, AlongInterval
  <2> QED BY <2>3
<1>10. b \in [0 .. n -> Int] BY <1>6, <1>9
<1> QED BY <1>7, <1>8, <1>10 DEF b

(* The first turn that ends below zero, if any: a turn. *)
LEMMA FirstNegativeIs ==
  ASSUME NEW sum, NEW n \in Nat
  PROVE  LET r == FirstNegative(sum, n) IN
         /\ r = None <=> \A i \in 1 .. n : ~(sum[i] < 0)
         /\ r # None => /\ r \in 1 .. n /\ sum[r] < 0
                        /\ \A i \in 1 .. n : sum[i] < 0 => r <= i
<1> DEFINE S == {i \in 1 .. n : sum[i] < 0}
<1>1. CASE S = {} BY <1>1 DEF FirstNegative
<1>2. CASE S # {}
  <2>1. Min(S) \in S /\ \A i \in S : Min(S) <= i
    <3>1. S \in SUBSET (1 .. n) /\ 1 \in Int /\ n \in Int OBVIOUS
    <3> HIDE DEF S
    <3> QED BY <1>2, <3>1, MinIsLeast
  <2>2. FirstNegative(sum, n) = Min(S) BY <1>2 DEF FirstNegative
  <2>3. Min(S) # None
    <3>1. Min(S) \in Int BY <2>1
    <3> QED BY <3>1, NullAssumption
  <2> QED BY <1>2, <2>1, <2>2, <2>3
<1> QED BY <1>1, <1>2

(* A request for a projection that has read its tables. *)
Asked(q) ==
  /\ Horizon(q)
  /\ q.opening \in Nat
  /\ Counted(q.counted)
  /\ \A m \in q.counted :
       m.day \in Int /\ m.day \in DateKey(q.first) .. UtcDay(q.end)

LEMMA OnIsCounted ==
  ASSUME NEW S, Counted(S), NEW k
  PROVE  /\ Counted(On(S, k)) /\ Net(On(S, k)) \in Int
         /\ \A type : Total(Only(type, On(S, k))) \in Nat
<1>1. On(S, k) \in SUBSET S BY DEF On
<1>2. Counted(On(S, k)) BY <1>1, CountedSubset
<1> QED BY <1>2, NetIsInt, OnlyIsNat

LEMMA DailyIs ==
  ASSUME NEW q, Counted(q.counted), NEW k \in KeySet(q)
  PROVE  /\ \A type : Daily(type, q)[k] = Total(Only(type, On(q.counted, k)))
         /\ DailyNet(q)[k] = Net(On(q.counted, k))
         /\ DailySpent(q)[k] = -Total(Only("expense", On(q.counted, k)))
<1>1. \A type : Daily(type, q)[k] = Total(Only(type, On(q.counted, k))) BY DEF Daily
<1>2. DailyNet(q)[k] = Daily("income", q)[k] - Daily("expense", q)[k] BY DEF DailyNet
<1>3. DailySpent(q)[k] = -Daily("expense", q)[k] BY DEF DailySpent
<1> QED BY <1>1, <1>2, <1>3 DEF Net

LEMMA BalancesAre ==
  ASSUME NEW q, Asked(q)
  PROVE  /\ Balances(q) \in [0 .. Count(q) -> Int] /\ Balances(q)[0] = q.opening
         /\ Spent(q) \in [0 .. Count(q) -> Int] /\ Spent(q)[0] = q.opening
         /\ \A i \in 1 .. Count(q) :
              /\ Balances(q)[i] = Balances(q)[i - 1] + Net(On(q.counted, Keys(q)[i]))
              /\ Spent(q)[i] = Spent(q)[i - 1] - Total(Only("expense", On(q.counted, Keys(q)[i])))
<1>1. /\ Keys(q) \in Seq(Int) /\ Len(Keys(q)) = Count(q) /\ q.opening \in Int
      /\ Count(q) \in Nat /\ Counted(q.counted)
      /\ \A i \in 1 .. Count(q) : Keys(q)[i] \in KeySet(q)
  BY KeysAre DEF Asked
<1>2. \A i \in 1 .. Count(q) :
        /\ DailyNet(q)[Keys(q)[i]] = Net(On(q.counted, Keys(q)[i]))
        /\ DailySpent(q)[Keys(q)[i]] = -Total(Only("expense", On(q.counted, Keys(q)[i])))
  BY <1>1, DailyIs
<1>3. \A k : Net(On(q.counted, k)) \in Int /\ Total(Only("expense", On(q.counted, k))) \in Nat
  BY <1>1, OnIsCounted
<1>4. \A i \in 1 .. Count(q) :
        DailyNet(q)[Keys(q)[i]] \in Int /\ DailySpent(q)[Keys(q)[i]] \in Int
  BY <1>2, <1>3
<1>5. /\ Balances(q) \in [0 .. Count(q) -> Int] /\ Balances(q)[0] = q.opening
      /\ \A i \in 1 .. Count(q) : Balances(q)[i] = Balances(q)[i - 1] + DailyNet(q)[Keys(q)[i]]
  <2>1. PICK keys \in Seq(Int) : keys = Keys(q) BY <1>1
  <2>2. PICK daily : daily = DailyNet(q) OBVIOUS
  <2>3. \A i \in 1 .. Len(keys) : daily[keys[i]] \in Int BY <1>1, <1>4, <2>1, <2>2
  <2> DEFINE b == Running(keys, daily, q.opening)
  <2>4. /\ b \in [0 .. Len(keys) -> Int] /\ b[0] = q.opening
        /\ \A i \in 1 .. Len(keys) : b[i] = b[i - 1] + daily[keys[i]]
    <3>1. q.opening \in Int BY <1>1
    <3>2. PICK opening \in Int : opening = q.opening BY <3>1
    <3>3. /\ Running(keys, daily, opening) \in [0 .. Len(keys) -> Int]
          /\ Running(keys, daily, opening)[0] = opening
          /\ \A i \in 1 .. Len(keys) :
               Running(keys, daily, opening)[i]
                 = Running(keys, daily, opening)[i - 1] + daily[keys[i]]
      <4> HIDE DEF b
      <4> QED BY <2>3, RunningAdds
    <3> QED BY <3>2, <3>3
  <2>5. b = Balances(q) BY <2>1, <2>2 DEF Balances
  <2>6. Len(keys) = Count(q) BY <1>1, <2>1
  <2> HIDE DEF b
  <2> QED BY <2>1, <2>2, <2>4, <2>5, <2>6
<1>6. /\ Spent(q) \in [0 .. Count(q) -> Int] /\ Spent(q)[0] = q.opening
      /\ \A i \in 1 .. Count(q) : Spent(q)[i] = Spent(q)[i - 1] + DailySpent(q)[Keys(q)[i]]
  <2>1. PICK keys \in Seq(Int) : keys = Keys(q) BY <1>1
  <2>2. PICK daily : daily = DailySpent(q) OBVIOUS
  <2>3. \A i \in 1 .. Len(keys) : daily[keys[i]] \in Int BY <1>1, <1>4, <2>1, <2>2
  <2> DEFINE b == Running(keys, daily, q.opening)
  <2>4. /\ b \in [0 .. Len(keys) -> Int] /\ b[0] = q.opening
        /\ \A i \in 1 .. Len(keys) : b[i] = b[i - 1] + daily[keys[i]]
    <3>1. q.opening \in Int BY <1>1
    <3>2. PICK opening \in Int : opening = q.opening BY <3>1
    <3>3. /\ Running(keys, daily, opening) \in [0 .. Len(keys) -> Int]
          /\ Running(keys, daily, opening)[0] = opening
          /\ \A i \in 1 .. Len(keys) :
               Running(keys, daily, opening)[i]
                 = Running(keys, daily, opening)[i - 1] + daily[keys[i]]
      <4> HIDE DEF b
      <4> QED BY <2>3, RunningAdds
    <3> QED BY <3>2, <3>3
  <2>5. b = Spent(q) BY <2>1, <2>2 DEF Spent
  <2>6. Len(keys) = Count(q) BY <1>1, <2>1
  <2> HIDE DEF b
  <2> QED BY <2>1, <2>2, <2>4, <2>5, <2>6
<1>7. ASSUME NEW i \in 1 .. Count(q)
      PROVE  /\ Balances(q)[i] = Balances(q)[i - 1] + Net(On(q.counted, Keys(q)[i]))
             /\ Spent(q)[i] = Spent(q)[i - 1] - Total(Only("expense", On(q.counted, Keys(q)[i])))
  <2>1. i - 1 \in 0 .. Count(q) BY <1>1
  <2>2. Spent(q)[i - 1] \in Int BY <2>1, <1>6
  <2>3. Spent(q)[i] = Spent(q)[i - 1] + -Total(Only("expense", On(q.counted, Keys(q)[i])))
    BY <1>2, <1>6
  <2> QED BY <1>2, <1>3, <1>5, <2>2, <2>3
<1> QED BY <1>5, <1>6, <1>7

(* Without income there is never more left. *)
LEMMA SpentIsLess ==
  ASSUME NEW q, Asked(q)
  PROVE  \A i \in 0 .. Count(q) : Spent(q)[i] <= Balances(q)[i]
<1> DEFINE n == Count(q)
           T == {i \in 0 .. n : Spent(q)[i] <= Balances(q)[i]}
<1>1. n \in Nat /\ q.opening \in Nat /\ Counted(q.counted) BY KeysAre DEF Asked
<1>2. /\ Balances(q) \in [0 .. n -> Int] /\ Balances(q)[0] = q.opening
      /\ Spent(q) \in [0 .. n -> Int] /\ Spent(q)[0] = q.opening
      /\ \A i \in 1 .. n :
           /\ Balances(q)[i] = Balances(q)[i - 1] + Net(On(q.counted, Keys(q)[i]))
           /\ Spent(q)[i] = Spent(q)[i - 1] - Total(Only("expense", On(q.counted, Keys(q)[i])))
  BY BalancesAre
<1> HIDE DEF n
<1>3. 0 \in T BY <1>1, <1>2
<1>4. ASSUME NEW i \in 0 + 1 .. n, i - 1 \in T PROVE i \in T
  <2> DEFINE e == Total(Only("expense", On(q.counted, Keys(q)[i])))
             c == Total(Only("income", On(q.counted, Keys(q)[i])))
  <2>1. i \in 1 .. n /\ i \in 0 .. n /\ i - 1 \in 0 .. n BY <1>1
  <2>2. e \in Nat /\ c \in Nat BY <1>1, OnIsCounted
  <2>3. Balances(q)[i] = Balances(q)[i - 1] + (c - e) BY <1>2, <2>1 DEF Net
  <2>4. Spent(q)[i] = Spent(q)[i - 1] - e BY <1>2, <2>1
  <2>5. Spent(q)[i - 1] <= Balances(q)[i - 1] BY <1>4
  <2>6. Spent(q)[i - 1] \in Int /\ Balances(q)[i - 1] \in Int BY <1>2, <2>1
  <2> HIDE DEF e, c
  <2> QED BY <2>1, <2>2, <2>3, <2>4, <2>5, <2>6
<1>5. 0 .. n \subseteq T
  <2>1. 0 \in Int /\ n \in Int BY <1>1
  <2> HIDE DEF T
  <2> QED BY <1>3, <1>4, <2>1, AlongInterval
<1> QED BY <1>5 DEF n

(* The turn of cash shortage and the runway, which comes no later. *)
LEMMA TurnsFound ==
  ASSUME NEW q, Asked(q)
  PROVE  /\ ShortTurn(q) # None => ShortTurn(q) \in 1 .. Count(q)
         /\ Runway(q) # None => Runway(q) \in 1 .. Count(q) /\ Runway(q) # 0
         /\ ShortTurn(q) # None => Runway(q) # None /\ Runway(q) <= ShortTurn(q)
<1>1. Count(q) \in Nat /\ q.opening \in Nat BY KeysAre DEF Asked
<1>2. Runway(q) = FirstNegative(Spent(q), Count(q)) BY <1>1 DEF Runway
<1>3. ShortTurn(q) = FirstNegative(Balances(q), Count(q)) BY DEF ShortTurn
<1>4. /\ Runway(q) = None <=> \A i \in 1 .. Count(q) : ~(Spent(q)[i] < 0)
      /\ Runway(q) # None => /\ Runway(q) \in 1 .. Count(q)
                             /\ \A i \in 1 .. Count(q) : Spent(q)[i] < 0 => Runway(q) <= i
  BY <1>1, <1>2, FirstNegativeIs
<1>5. ShortTurn(q) # None => ShortTurn(q) \in 1 .. Count(q) /\ Balances(q)[ShortTurn(q)] < 0
  BY <1>1, <1>3, FirstNegativeIs
<1>6. ASSUME ShortTurn(q) # None PROVE Runway(q) # None /\ Runway(q) <= ShortTurn(q)
  <2> DEFINE s == ShortTurn(q)
  <2>1. s \in 1 .. Count(q) /\ s \in 0 .. Count(q) /\ Balances(q)[s] < 0 BY <1>1, <1>5, <1>6
  <2> HIDE DEF s
  <2>2. Spent(q)[s] <= Balances(q)[s] BY <2>1, SpentIsLess
  <2>3. Spent(q)[s] \in Int /\ Balances(q)[s] \in Int BY <2>1, BalancesAre
  <2>4. Spent(q)[s] < 0 BY <2>1, <2>2, <2>3
  <2> QED BY <2>1, <2>4, <1>4 DEF s
<1> QED BY <1>4, <1>5, <1>6

LEMMA AnswerRunsOut ==
  ASSUME NEW q, Asked(q)
  PROVE  LET a == Projection(q) IN
         /\ a.dayOfCashShort \in (DateKey(q.first) .. UtcDay(q.end)) \cup {None}
         /\ a.dayOfCashShort # None => a.runwayEndsOn # None /\ a.runwayEndsOn <= a.dayOfCashShort
<1> DEFINE a == Projection(q)
           s == ShortTurn(q)
           r == Runway(q)
<1>1. /\ a.dayOfCashShort = IF s = None THEN None ELSE Keys(q)[s]
      /\ r # None => a.runwayEndsOn = IF r = 0 THEN DateKey(q.first) ELSE Keys(q)[r]
  BY ProjectionIs
<1>2. /\ s # None => s \in 1 .. Count(q)
      /\ r # None => r \in 1 .. Count(q) /\ r # 0
      /\ s # None => r # None /\ r <= s
  BY TurnsFound
<1>3. /\ \A i \in 1 .. Count(q) : Keys(q)[i] \in DateKey(q.first) .. UtcDay(q.end)
      /\ \A i, j \in 1 .. Count(q) : i <= j => Keys(q)[i] <= Keys(q)[j]
      /\ \A i \in 1 .. Count(q) : Keys(q)[i] \in Int
  BY KeysAre DEF Asked
<1> HIDE DEF a, s, r
<1>4. \A i \in 1 .. Count(q) : Keys(q)[i] # None BY <1>3, NullAssumption
<1> QED BY <1>1, <1>2, <1>3, <1>4 DEF a


-----------------------------------------------------------------------------
(* In a zone that keeps one side of UTC the keys of a projection are the   *)
(* UTC days from its start to the last it comes to, each once; what the    *)
(* loops compute from them can then be said day by day.                    *)

DaysOf(q) == DateKey(q.first) .. DateKey(SeenLast(q))

LEMMA KeysAreDays ==
  ASSUME OneSideOfUtc, NEW q, Horizon(q)
  PROVE  /\ \A i \in 1 .. Count(q) : Keys(q)[i] = DateKey(q.first) + i - 1
         /\ DateKey(SeenLast(q)) = DateKey(q.first) + Count(q) - 1
         /\ Keys(q)[Count(q)] = DateKey(SeenLast(q))
         /\ DaysOf(q) = KeySet(q)
         /\ Cardinality(DaysOf(q)) = Count(q)
         /\ \A i, j \in 1 .. Count(q) : Keys(q)[i] = Keys(q)[j] => i = j
<1> DEFINE n == Count(q)
           k == DateKey(q.first)
<1>1. /\ n \in Nat /\ n >= 1 /\ k \in Int /\ q.first \in Int
      /\ SeenLast(q) \in Int /\ n = SeenLast(q) - q.first + 1
  BY KeysAre, HorizonDays, TurnsAre
<1>2. ASSUME NEW i \in 1 .. n PROVE Keys(q)[i] = k + i - 1
  <2>1. q.first + i - 1 \in Days /\ q.first \in Days /\ Keys(q)[i] = DateKey(q.first + i - 1)
    BY KeysAre, HorizonDays
  <2>2. DateKey(q.first + i - 1) = k + ((q.first + i - 1) - q.first) BY <2>1, KeysFollow
  <2>3. (q.first + i - 1) - q.first = i - 1 BY <1>1
  <2> QED BY <2>1, <2>2, <2>3, <1>1
<1>3. DateKey(SeenLast(q)) = k + n - 1 /\ Keys(q)[n] = DateKey(SeenLast(q))
  <2>1. n \in 1 .. n /\ q.first + n - 1 = SeenLast(q) BY <1>1
  <2>2. Keys(q)[n] = DateKey(q.first + n - 1) BY <2>1, KeysAre
  <2> QED BY <2>1, <2>2, <1>2
<1>4. DaysOf(q) = KeySet(q)
  <2>1. ASSUME NEW d \in DaysOf(q) PROVE d \in KeySet(q)
    <3>1. d \in k .. k + n - 1 BY <1>3 DEF DaysOf
    <3>2. d - k + 1 \in 1 .. n /\ k + (d - k + 1) - 1 = d BY <3>1, <1>1
    <3>3. Keys(q)[d - k + 1] = d BY <3>2, <1>2
    <3> QED BY <3>2, <3>3 DEF KeySet
  <2>2. ASSUME NEW d \in KeySet(q) PROVE d \in DaysOf(q)
    <3>1. PICK i \in 1 .. n : d = Keys(q)[i] BY DEF KeySet
    <3>2. d \in k .. k + n - 1 BY <3>1, <1>1, <1>2
    <3> QED BY <3>2, <1>3 DEF DaysOf
  <2> QED BY <2>1, <2>2
<1>5. Cardinality(DaysOf(q)) = n
  <2>1. DaysOf(q) = k .. k + n - 1 BY <1>3 DEF DaysOf
  <2>2. k + n - 1 \in Int /\ ~(k > k + n - 1) /\ (k + n - 1) - k + 1 = n BY <1>1
  <2> HIDE DEF n, k
  <2> QED BY <1>1, <2>1, <2>2, FS_Interval
<1>6. ASSUME NEW i \in 1 .. n, NEW j \in 1 .. n, Keys(q)[i] = Keys(q)[j] PROVE i = j
  <2>1. k + i - 1 = k + j - 1 BY <1>2, <1>6
  <2> QED BY <2>1, <1>1
<1> QED BY <1>2, <1>3, <1>4, <1>5, <1>6

(* At the end of each turn the loops have counted all up to its day. *)
LEMMA BalancesAreUpToDays ==
  ASSUME OneSideOfUtc, NEW q, Asked(q), NEW i \in 1 .. Count(q)
  PROVE  /\ Balances(q)[i] = q.opening + Net(UpTo(q.counted, Keys(q)[i]))
         /\ Spent(q)[i] = q.opening - Total(Only("expense", UpTo(q.counted, Keys(q)[i])))
<1> DEFINE n == Count(q)
           S == q.counted
           key(j) == DateKey(q.first) + j - 1
           Right(j) == /\ Balances(q)[j] = q.opening + Net(UpTo(S, key(j)))
                       /\ Spent(q)[j] = q.opening - Total(Only("expense", UpTo(S, key(j))))
           T == {j \in 0 .. n : Right(j)}
<1>1. /\ n \in Nat /\ DateKey(q.first) \in Int /\ q.opening \in Nat
      /\ Counted(S) /\ \A m \in S : m.day \in Int /\ DateKey(q.first) <= m.day
  BY KeysAre, HorizonDays DEF Asked
<1>2. \A j \in 1 .. n : Keys(q)[j] = key(j) BY KeysAreDays DEF Asked
<1>3. /\ Balances(q)[0] = q.opening /\ Spent(q)[0] = q.opening
      /\ \A j \in 1 .. n :
           /\ Balances(q)[j] = Balances(q)[j - 1] + Net(On(S, Keys(q)[j]))
           /\ Spent(q)[j] = Spent(q)[j - 1] - Total(Only("expense", On(S, Keys(q)[j])))
  BY BalancesAre
<1>4. \A day : /\ Net(UpTo(S, day)) \in Int /\ Net(On(S, day)) \in Int
               /\ Total(Only("expense", UpTo(S, day))) \in Nat
               /\ Total(Only("expense", On(S, day))) \in Nat
  <2>1. \A day : UpTo(S, day) \in SUBSET S /\ On(S, day) \in SUBSET S BY DEF UpTo, On
  <2>2. \A day : Counted(UpTo(S, day)) /\ Counted(On(S, day)) BY <1>1, <2>1, CountedSubset
  <2> QED BY <2>2, NetIsInt, OnlyIsNat
<1>5. 0 \in T
  <2>1. key(0) = DateKey(q.first) - 1 BY <1>1
  <2>2. UpTo(S, DateKey(q.first) - 1) = {} BY <1>1 DEF UpTo
  <2>3. Net(UpTo(S, key(0))) = 0 /\ Total(Only("expense", UpTo(S, key(0)))) = 0
    BY <2>1, <2>2, NetOfNothing, OnlyOfNothing
  <2>4. 0 \in 0 .. n /\ q.opening = q.opening + 0 /\ q.opening = q.opening - 0 BY <1>1
  <2> HIDE DEF key, n, S
  <2> QED BY <1>3, <2>3, <2>4
<1>6. ASSUME NEW j \in 0 + 1 .. n, j - 1 \in T PROVE j \in T
  <2>1. j \in 1 .. n /\ j \in 0 .. n /\ key(j - 1) = key(j) - 1 /\ key(j) \in Int BY <1>1
  <2>2. Right(j - 1) BY <1>6
  <2>3. /\ Balances(q)[j - 1] = q.opening + Net(UpTo(S, key(j) - 1))
        /\ Spent(q)[j - 1] = q.opening - Total(Only("expense", UpTo(S, key(j) - 1)))
    <3> HIDE DEF key
    <3> QED BY <2>1, <2>2
  <2>4. /\ Balances(q)[j] = Balances(q)[j - 1] + Net(On(S, key(j)))
        /\ Spent(q)[j] = Spent(q)[j - 1] - Total(Only("expense", On(S, key(j))))
    BY <1>2, <1>3, <2>1
  <2> HIDE DEF key, S
  <2>5. Net(UpTo(S, key(j))) = Net(UpTo(S, key(j) - 1)) + Net(On(S, key(j)))
    BY <1>1, <2>1, NetUpToNextDay
  <2>6. Total(Only("expense", UpTo(S, key(j))))
          = Total(Only("expense", UpTo(S, key(j) - 1))) + Total(Only("expense", On(S, key(j))))
    BY <1>1, <2>1, OnlyUpToNextDay
  <2>7. /\ Net(UpTo(S, key(j) - 1)) \in Int /\ Net(On(S, key(j))) \in Int
        /\ Total(Only("expense", UpTo(S, key(j) - 1))) \in Nat
        /\ Total(Only("expense", On(S, key(j)))) \in Nat
    BY <1>4
  <2>8. q.opening \in Int BY <1>1
  <2>9. Balances(q)[j] = q.opening + Net(UpTo(S, key(j))) BY <2>3, <2>4, <2>5, <2>7, <2>8
  <2>10. Spent(q)[j] = q.opening - Total(Only("expense", UpTo(S, key(j))))
    BY <2>3, <2>4, <2>6, <2>7, <2>8
  <2> QED BY <2>1, <2>9, <2>10
<1>7. 0 .. n \subseteq T
  <2>1. 0 \in Int /\ n \in Int BY <1>1
  <2> HIDE DEF T, n
  <2> QED BY <1>5, <1>6, <2>1, AlongInterval
<1>8. i \in T BY <1>1, <1>7
<1>9. Keys(q)[i] = key(i) BY <1>2
<1> HIDE DEF key
<1> QED BY <1>8, <1>9

(* The key of the first negative turn is the earliest of the days it       *)
(* stands for.                                                             *)
LEMMA FirstKeyIsEarliest ==
  ASSUME OneSideOfUtc, NEW q, Horizon(q), NEW sum, NEW D \in SUBSET DaysOf(q),
         \A i \in 1 .. Count(q) : Keys(q)[i] \in D <=> sum[i] < 0
  PROVE  LET r == FirstNegative(sum, Count(q)) IN
         /\ r = None <=> D = {}
         /\ r # None => r \in 1 .. Count(q) /\ Keys(q)[r] = Min(D)
<1> DEFINE n == Count(q)
           r == FirstNegative(sum, n)
<1>1. n \in Nat /\ \A i \in 1 .. n : Keys(q)[i] \in Int BY KeysAre
<1>2. /\ r = None <=> \A i \in 1 .. n : ~(sum[i] < 0)
      /\ r # None => /\ r \in 1 .. n /\ sum[r] < 0
                     /\ \A i \in 1 .. n : sum[i] < 0 => r <= i
  BY <1>1, FirstNegativeIs
<1> HIDE DEF r, n
<1>3. \A d \in D : \E i \in 1 .. n : Keys(q)[i] = d
  <2>1. D \subseteq KeySet(q) BY KeysAreDays
  <2> QED BY <2>1 DEF KeySet, n
<1>4. r = None <=> D = {} BY <1>2, <1>3 DEF n
<1>5. ASSUME r # None PROVE r \in 1 .. n /\ Keys(q)[r] = Min(D)
  <2>1. r \in 1 .. n /\ Keys(q)[r] \in D BY <1>2, <1>5 DEF n
  <2>2. ASSUME NEW d \in D PROVE Keys(q)[r] <= d
    <3>1. PICK i \in 1 .. n : Keys(q)[i] = d BY <1>3
    <3>2. r <= i BY <3>1, <1>2, <1>5 DEF n
    <3> QED BY <3>1, <3>2, <2>1, KeysAre DEF n
  <2>3. Min(D) \in D /\ \A d \in D : Min(D) <= d
    <3>1. DateKey(q.first) \in Int /\ DateKey(SeenLast(q)) \in Int BY HorizonDays, TurnsAre
    <3> QED BY <3>1, <2>1, MinIsLeast DEF DaysOf
  <2>4. Keys(q)[r] <= Min(D) /\ Min(D) <= Keys(q)[r] BY <2>1, <2>2, <2>3
  <2>5. Keys(q)[r] \in Int /\ Min(D) \in Int BY <1>1, <1>3, <2>1, <2>3
  <2> QED BY <2>1, <2>4, <2>5
<1> QED BY <1>4, <1>5 DEF r, n


(* The movements of the days of some turns. *)
DueOn(q, T) == {m \in q.counted : \E i \in T : m.day = Keys(q)[i]}

LEMMA DueOnOneMore ==
  ASSUME OneSideOfUtc, NEW q, Asked(q), NEW T \in SUBSET (1 .. Count(q)),
         NEW i \in 1 .. Count(q), i \notin T
  PROVE  /\ Counted(DueOn(q, T \cup {i}))
         /\ DueOn(q, T) \in SUBSET DueOn(q, T \cup {i})
         /\ DueOn(q, T \cup {i}) \ DueOn(q, T) = On(q.counted, Keys(q)[i])
<1>1. Counted(DueOn(q, T \cup {i}))
  <2>1. DueOn(q, T \cup {i}) \in SUBSET q.counted BY DEF DueOn
  <2> QED BY <2>1, CountedSubset DEF Asked
<1>2. DueOn(q, T) \in SUBSET DueOn(q, T \cup {i}) BY DEF DueOn
<1>3. \A j \in T : Keys(q)[j] # Keys(q)[i] BY KeysAreDays DEF Asked
<1>4. DueOn(q, T \cup {i}) \ DueOn(q, T) = On(q.counted, Keys(q)[i])
  BY <1>3 DEF DueOn, On
<1> QED BY <1>1, <1>2, <1>4

LEMMA DueOnNothing == ASSUME NEW q PROVE DueOn(q, {}) = {}
BY DEF DueOn

(* The sums of a month's turns are the totals of the month's movements.    *)
LEMMA MonthTotals ==
  ASSUME OneSideOfUtc, NEW q, Asked(q), NEW m, NEW type
  PROVE  SumOf(q, m, Daily(type, q)) = Total(Only(type, DueOn(q, TurnsOf(q, m))))
<1> DEFINE I == TurnsOf(q, m)
           f == [i \in I |-> Daily(type, q)[Keys(q)[i]]]
           G == [T \in SUBSET I |-> Total(Only(type, DueOn(q, T)))]
<1>1. I \in SUBSET (1 .. Count(q)) /\ Count(q) \in Nat /\ Counted(q.counted)
  BY KeysAre DEF Asked, TurnsOf
<1>2. IsFiniteSet(I)
  <2>1. IsFiniteSet(1 .. Count(q))
    <3>1. 1 \in Int /\ Count(q) \in Int BY <1>1
    <3> QED BY <3>1, FS_Interval
  <2> HIDE DEF I
  <2> QED BY <1>1, <2>1, FS_Subset
<1>3. ASSUME NEW i \in I
      PROVE  f[i] = Total(Only(type, On(q.counted, Keys(q)[i]))) /\ f[i] \in Int
  <2>1. Keys(q)[i] \in KeySet(q) BY <1>1, KeysAre DEF Asked
  <2>2. f[i] = Total(Only(type, On(q.counted, Keys(q)[i]))) BY <2>1, <1>1, DailyIs
  <2>3. Total(Only(type, On(q.counted, Keys(q)[i]))) \in Nat BY <1>1, OnIsCounted
  <2> HIDE DEF f
  <2> QED BY <2>2, <2>3
<1>4. G[{}] = 0 BY DueOnNothing, OnlyOfNothing
<1>5. ASSUME NEW T \in SUBSET I, NEW i \in I \ T PROVE G[T \cup {i}] = G[T] + f[i]
  <2>1. G[T \cup {i}] = Total(Only(type, DueOn(q, T \cup {i})))
        /\ G[T] = Total(Only(type, DueOn(q, T)))
    OBVIOUS
  <2> DEFINE U == T \cup {i}
  <2>2. /\ Counted(DueOn(q, U)) /\ DueOn(q, T) \in SUBSET DueOn(q, U)
        /\ DueOn(q, U) \ DueOn(q, T) = On(q.counted, Keys(q)[i])
    <3>1. T \in SUBSET (1 .. Count(q)) /\ i \in 1 .. Count(q) /\ i \notin T BY <1>1
    <3> QED BY <3>1, DueOnOneMore
  <2> HIDE DEF f, G, I, U
  <2>3. Total(Only(type, DueOn(q, U)))
          = Total(Only(type, DueOn(q, T))) + Total(Only(type, On(q.counted, Keys(q)[i])))
    BY <2>2, OnlySplits
  <2>4. f[i] = Total(Only(type, On(q.counted, Keys(q)[i]))) BY <1>3
  <2> QED BY <2>1, <2>3, <2>4 DEF U
<1>6. SumFunctionOnSet(f, I) = G[I]
  <2>1. \A i \in I : f[i] \in Int
    <3> HIDE DEF f, I
    <3> QED BY <1>3
  <2> HIDE DEF f, G, I
  <2> QED BY <1>2, <1>4, <1>5, <2>1, SumMeasures
<1>7. SumOf(q, m, Daily(type, q)) = SumFunctionOnSet(f, I) BY DEF SumOf, SumFunction
<1>8. G[I] = Total(Only(type, DueOn(q, I))) OBVIOUS
<1> HIDE DEF f, G
<1> QED BY <1>6, <1>7, <1>8

LEMMA MonthNet ==
  ASSUME OneSideOfUtc, NEW q, Asked(q), NEW m
  PROVE  SumOf(q, m, DailyNet(q)) = Net(DueOn(q, TurnsOf(q, m)))
<1> DEFINE I == TurnsOf(q, m)
           f == [i \in I |-> DailyNet(q)[Keys(q)[i]]]
           G == [T \in SUBSET I |-> Net(DueOn(q, T))]
<1>1. I \in SUBSET (1 .. Count(q)) /\ Count(q) \in Nat /\ Counted(q.counted)
  BY KeysAre DEF Asked, TurnsOf
<1>2. IsFiniteSet(I)
  <2>1. IsFiniteSet(1 .. Count(q))
    <3>1. 1 \in Int /\ Count(q) \in Int BY <1>1
    <3> QED BY <3>1, FS_Interval
  <2> HIDE DEF I
  <2> QED BY <1>1, <2>1, FS_Subset
<1>3. ASSUME NEW i \in I
      PROVE  f[i] = Net(On(q.counted, Keys(q)[i])) /\ f[i] \in Int
  <2>1. Keys(q)[i] \in KeySet(q) BY <1>1, KeysAre DEF Asked
  <2>2. f[i] = Net(On(q.counted, Keys(q)[i])) BY <2>1, <1>1, DailyIs
  <2>3. Net(On(q.counted, Keys(q)[i])) \in Int BY <1>1, OnIsCounted
  <2> HIDE DEF f
  <2> QED BY <2>2, <2>3
<1>4. G[{}] = 0 BY DueOnNothing, NetOfNothing
<1>5. ASSUME NEW T \in SUBSET I, NEW i \in I \ T PROVE G[T \cup {i}] = G[T] + f[i]
  <2>1. G[T \cup {i}] = Net(DueOn(q, T \cup {i})) /\ G[T] = Net(DueOn(q, T)) OBVIOUS
  <2> DEFINE U == T \cup {i}
  <2>2. /\ Counted(DueOn(q, U)) /\ DueOn(q, T) \in SUBSET DueOn(q, U)
        /\ DueOn(q, U) \ DueOn(q, T) = On(q.counted, Keys(q)[i])
    <3>1. T \in SUBSET (1 .. Count(q)) /\ i \in 1 .. Count(q) /\ i \notin T BY <1>1
    <3> QED BY <3>1, DueOnOneMore
  <2> HIDE DEF f, G, I, U
  <2>3. Net(DueOn(q, U)) = Net(DueOn(q, T)) + Net(On(q.counted, Keys(q)[i]))
    BY <2>2, NetSplits
  <2>4. f[i] = Net(On(q.counted, Keys(q)[i])) BY <1>3
  <2> QED BY <2>1, <2>3, <2>4 DEF U
<1>6. SumFunctionOnSet(f, I) = G[I]
  <2>1. \A i \in I : f[i] \in Int
    <3> HIDE DEF f, I
    <3> QED BY <1>3
  <2> HIDE DEF f, G, I
  <2> QED BY <1>2, <1>4, <1>5, <2>1, SumMeasures
<1>7. SumOf(q, m, DailyNet(q)) = SumFunctionOnSet(f, I) BY DEF SumOf, SumFunction
<1>8. G[I] = Net(DueOn(q, I)) OBVIOUS
<1> HIDE DEF f, G
<1> QED BY <1>6, <1>7, <1>8

(* The turns of a month are its days, and the last turn its last day.      *)
LEMMA MonthTurns ==
  ASSUME OneSideOfUtc, NEW q, Asked(q), NEW k \in KeySet(q)
  PROVE  LET m  == MonthOf(k)
             T  == TurnsOf(q, m)
             in == {d \in DaysOf(q) : MonthOf(d) = m}
         IN  /\ DueOn(q, T) = {r \in q.counted : r.day \in in}
             /\ Max(T) \in 1 .. Count(q) /\ Keys(q)[Max(T)] = Max(in)
<1> DEFINE m  == MonthOf(k)
           T  == TurnsOf(q, m)
           in == {d \in DaysOf(q) : MonthOf(d) = m}
<1>0. Horizon(q) BY DEF Asked
<1>1. in = {Keys(q)[i] : i \in T}
  <2>1. DaysOf(q) = {Keys(q)[i] : i \in 1 .. Count(q)} BY <1>0, KeysAreDays DEF KeySet
  <2> HIDE DEF m
  <2> QED BY <2>1 DEF TurnsOf
<1>2. T \in SUBSET (1 .. Count(q)) /\ T # {} /\ Count(q) \in Nat
  <2>1. PICK i \in 1 .. Count(q) : k = Keys(q)[i] BY DEF KeySet
  <2>2. i \in T BY <2>1 DEF TurnsOf
  <2> QED BY <2>2, <1>0, KeysAre DEF TurnsOf
<1>3. DueOn(q, T) = {r \in q.counted : r.day \in in}
  <2> HIDE DEF T, in
  <2> QED BY <1>1 DEF DueOn
<1>4. Max(T) \in T /\ \A i \in T : i <= Max(T)
  <2>1. 1 \in Int /\ Count(q) \in Int BY <1>2
  <2> HIDE DEF T
  <2> QED BY <1>2, <2>1, MaxIsGreatest
<1>5. Max(in) \in in /\ \A d \in in : d <= Max(in)
  <2>1. DateKey(q.first) \in Int /\ DateKey(SeenLast(q)) \in Int BY <1>0, HorizonDays, TurnsAre
  <2>2. in \in SUBSET (DateKey(q.first) .. DateKey(SeenLast(q))) BY DEF DaysOf
  <2>3. in # {} BY <1>1, <1>2
  <2> HIDE DEF in
  <2> QED BY <2>1, <2>2, <2>3, MaxIsGreatest
<1> HIDE DEF T, in, m
<1>6. PICK i \in T : Max(in) = Keys(q)[i] BY <1>1, <1>5
<1>7. Keys(q)[Max(T)] \in in BY <1>1, <1>4
<1>8. Keys(q)[i] <= Keys(q)[Max(T)] /\ Keys(q)[Max(T)] <= Keys(q)[i]
  <2>1. i <= Max(T) /\ i \in 1 .. Count(q) /\ Max(T) \in 1 .. Count(q) BY <1>2, <1>4
  <2> QED BY <2>1, <1>0, <1>5, <1>6, <1>7, KeysAre
<1>9. Keys(q)[i] \in Int /\ Keys(q)[Max(T)] \in Int BY <1>0, <1>2, <1>4, KeysAre
<1>10. Keys(q)[Max(T)] = Max(in) BY <1>6, <1>8, <1>9
<1> QED BY <1>2, <1>3, <1>4, <1>10 DEF T, in, m


(* What the answer says, field by field. *)
LEMMA AnswerSays ==
  ASSUME NEW q
  PROVE  LET a == Projection(q)
             n == Count(q)
         IN  /\ a.startDate = DateKey(q.first) /\ a.endDate = UtcDay(q.end)
             /\ a.startingBalance = q.opening /\ a.endingBalance = Balances(q)[n]
             /\ a.dayOfCashShort = IF ShortTurn(q) = None THEN None ELSE Keys(q)[ShortTurn(q)]
             /\ a.runwayDays = Runway(q)
             /\ Runway(q) = None => a.runwayEndsOn = None
             /\ Runway(q) # None /\ Runway(q) # 0 => a.runwayEndsOn = Keys(q)[Runway(q)]
             /\ a.months = {Monthly(q, MonthOf(k)) : k \in KeySet(q)}
             /\ DOMAIN a.days = 1 .. n
             /\ \A i \in 1 .. n :
                  a.days[i].date = Keys(q)[i] /\ a.days[i].balance = Balances(q)[i]
<1> DEFINE a == Projection(q)
           n == Count(q)
<1>1. /\ a.startDate = DateKey(q.first) /\ a.endDate = UtcDay(q.end)
      /\ a.startingBalance = q.opening /\ a.endingBalance = Balances(q)[n]
  BY ProjectionIs
<1>2. /\ a.dayOfCashShort = IF ShortTurn(q) = None THEN None ELSE Keys(q)[ShortTurn(q)]
      /\ a.runwayDays = Runway(q)
      /\ a.months = {Monthly(q, MonthOf(k)) : k \in KeySet(q)}
  BY ProjectionIs
<1>3. a.runwayEndsOn = CASE Runway(q) = None -> None
                         [] Runway(q) = 0    -> DateKey(q.first)
                         [] OTHER            -> Keys(q)[Runway(q)]
  BY ProjectionIs
<1>4. /\ Runway(q) = None => a.runwayEndsOn = None
      /\ Runway(q) # None /\ Runway(q) # 0 => a.runwayEndsOn = Keys(q)[Runway(q)]
  <2>1. None # 0 BY NullAssumption
  <2> HIDE DEF a
  <2> QED BY <1>3, <2>1
<1>5. a.days = [i \in 1 .. n |-> [date |-> Keys(q)[i], net |-> DailyNet(q)[Keys(q)[i]],
                                  balance |-> Balances(q)[i]]]
  BY ProjectionIs
<1> HIDE DEF a
<1>6. /\ DOMAIN a.days = 1 .. n
      /\ \A i \in 1 .. n : a.days[i].date = Keys(q)[i] /\ a.days[i].balance = Balances(q)[i]
  BY <1>5
<1> QED BY <1>1, <1>2, <1>4, <1>6 DEF a

-----------------------------------------------------------------------------
(* The answer of a projection is exact for the movements it has read.      *)

LEMMA AnswerIsExact ==
  ASSUME OneSideOfUtc, Asked(query)
  PROVE  Exact(query.counted)
<1> DEFINE q == query
           S == q.counted
           n == Count(q)
           a == Answer
           upTo(day) == a.startingBalance + Net({m \in S : m.day <= day})
           left(day) == a.startingBalance - Total(Only("expense", {m \in S : m.day <= day}))
           Short == {d \in Seen : upTo(d) < 0}
           Out   == {d \in Seen : left(d) < 0}
           inMonth(m) == {d \in Seen : MonthOf(d) = m}
<1>0. Horizon(q) BY DEF Asked
<1>1. /\ Seen = DaysOf(q) /\ Seen = KeySet(q) /\ Cardinality(Seen) = n
      /\ n \in Nat /\ n >= 1 /\ q.opening \in Nat /\ DateKey(q.first) \in Int
      /\ \A i \in 1 .. n : Keys(q)[i] = DateKey(q.first) + i - 1 /\ Keys(q)[i] \in Seen
      /\ Keys(q)[n] = Max(Seen)
      /\ \A i \in 1 .. n : Keys(q)[i] \in Int /\ Keys(q)[i] # None
  <2>1. Seen = DaysOf(q) BY DEF Seen, LosesLast, DaysOf, SeenLast, Loses
  <2>2. \A i \in 1 .. n : Keys(q)[i] \in Int BY <1>0, KeysAre
  <2>3. /\ n \in Nat /\ n >= 1 /\ DateKey(q.first) \in Int /\ DateKey(SeenLast(q)) \in Int
        /\ DaysOf(q) = KeySet(q) /\ Cardinality(DaysOf(q)) = n
        /\ \A i \in 1 .. n : Keys(q)[i] = DateKey(q.first) + i - 1
        /\ Keys(q)[n] = DateKey(SeenLast(q))
    BY <1>0, KeysAre, KeysAreDays, HorizonDays, TurnsAre
  <2>4. \A i \in 1 .. n : Keys(q)[i] \in KeySet(q) BY DEF KeySet
  <2>5. DateKey(SeenLast(q)) = Max(DaysOf(q))
    <3> DEFINE lo == DateKey(q.first)
               hi == DateKey(SeenLast(q))
    <3>1. lo \in Int /\ hi \in Int /\ DaysOf(q) = lo .. hi BY <2>3 DEF DaysOf
    <3>2. hi \in lo .. hi
      <4>1. n \in 1 .. n BY <2>3
      <4> QED BY <2>3, <2>4, <3>1, <4>1
    <3> HIDE DEF lo, hi
    <3>3. Max(lo .. hi) \in lo .. hi /\ hi <= Max(lo .. hi)
      <4>1. lo .. hi \in SUBSET (lo .. hi) /\ lo .. hi # {} BY <3>2
      <4> QED BY <3>1, <3>2, <4>1, MaxIsGreatest
    <3>4. hi = Max(lo .. hi) BY <3>1, <3>3
    <3> QED BY <3>1, <3>4 DEF hi
  <2>6. q.opening \in Nat BY DEF Asked
  <2>7. \A i \in 1 .. n : Keys(q)[i] # None BY <2>2, NullAssumption
  <2> HIDE DEF q, n
  <2> QED BY <2>1, <2>2, <2>3, <2>4, <2>5, <2>6, <2>7
<1>2. /\ a.startDate = DateKey(q.first) /\ a.endDate = UtcDay(q.end)
      /\ a.startingBalance = q.opening /\ a.endingBalance = Balances(q)[n]
      /\ a.dayOfCashShort = IF ShortTurn(q) = None THEN None ELSE Keys(q)[ShortTurn(q)]
      /\ a.runwayDays = Runway(q)
      /\ Runway(q) = None => a.runwayEndsOn = None
      /\ Runway(q) # None /\ Runway(q) # 0 => a.runwayEndsOn = Keys(q)[Runway(q)]
      /\ a.months = {Monthly(q, MonthOf(k)) : k \in KeySet(q)}
      /\ DOMAIN a.days = 1 .. n
      /\ \A i \in 1 .. n : a.days[i].date = Keys(q)[i] /\ a.days[i].balance = Balances(q)[i]
  BY AnswerSays DEF Answer
<1> HIDE DEF a
<1>4. \A i \in 1 .. n : upTo(Keys(q)[i]) = Balances(q)[i] /\ left(Keys(q)[i]) = Spent(q)[i]
  <2> SUFFICES ASSUME NEW i \in 1 .. n
               PROVE  upTo(Keys(q)[i]) = Balances(q)[i] /\ left(Keys(q)[i]) = Spent(q)[i]
    OBVIOUS
  <2>1. /\ Balances(q)[i] = q.opening + Net(UpTo(S, Keys(q)[i]))
        /\ Spent(q)[i] = q.opening - Total(Only("expense", UpTo(S, Keys(q)[i])))
    BY BalancesAreUpToDays
  <2> HIDE DEF q, S, n
  <2> QED BY <1>2, <2>1 DEF UpTo
<1> HIDE DEF upTo, left
<1>5. \A i \in 1 .. n : (Keys(q)[i] \in Short <=> Balances(q)[i] < 0)
                        /\ (Keys(q)[i] \in Out <=> Spent(q)[i] < 0)
  BY <1>1, <1>4
<1>6. a.dayOfCashShort = IF Short = {} THEN None ELSE Min(Short)
  <2> DEFINE r == FirstNegative(Balances(q), n)
  <2>1. /\ r = None <=> Short = {}
        /\ r # None => r \in 1 .. n /\ Keys(q)[r] = Min(Short)
    <3>1. Short \in SUBSET DaysOf(q) BY <1>1
    <3> HIDE DEF Short, Out
    <3> QED BY <3>1, <1>0, <1>5, FirstKeyIsEarliest
  <2>2. ShortTurn(q) = r BY DEF ShortTurn
  <2> HIDE DEF r, Short
  <2> QED BY <1>2, <2>1, <2>2
<1>7. /\ a.runwayEndsOn = IF Out = {} THEN None ELSE Min(Out)
      /\ a.runwayDays = IF a.runwayEndsOn = None THEN None ELSE a.runwayEndsOn - a.startDate + 1
  <2> DEFINE r == FirstNegative(Spent(q), n)
  <2>1. /\ r = None <=> Out = {}
        /\ r # None => r \in 1 .. n /\ Keys(q)[r] = Min(Out)
    <3>1. Out \in SUBSET DaysOf(q) BY <1>1
    <3> HIDE DEF Short, Out
    <3> QED BY <3>1, <1>0, <1>5, FirstKeyIsEarliest
  <2>2. Runway(q) = r BY <1>1 DEF Runway
  <2> HIDE DEF r, Out
  <2>3. CASE r = None BY <2>1, <2>2, <2>3, <1>2
  <2>4. CASE r # None
    <3>1. r \in 1 .. n /\ Out # {} /\ Keys(q)[r] = Min(Out) BY <2>1, <2>4
    <3>2. a.runwayEndsOn = Keys(q)[r] BY <2>2, <2>4, <3>1, <1>2
    <3>3. Keys(q)[r] = DateKey(q.first) + r - 1 /\ Keys(q)[r] # None BY <3>1, <1>1
    <3>4. Keys(q)[r] - DateKey(q.first) + 1 = r
      <4> HIDE DEF q, n
      <4> QED BY <3>1, <3>3, <1>1
    <3> QED BY <3>1, <3>2, <3>3, <3>4, <2>2, <1>2
  <2> QED BY <2>3, <2>4
<1>8. [i \in DOMAIN a.days |-> a.days[i].date] = [i \in 1 .. Cardinality(Seen) |-> a.startDate + i - 1]
  BY <1>1, <1>2
<1>9. \A i \in DOMAIN a.days : a.days[i].balance = upTo(a.days[i].date) BY <1>2, <1>4
<1>10. a.endingBalance = upTo(Max(Seen))
  <2>1. n \in 1 .. n BY <1>1
  <2> QED BY <2>1, <1>1, <1>2, <1>4
<1>11. {r.month : r \in a.months} = {MonthOf(d) : d \in Seen}
  <2>1. \A m : Monthly(q, m).month = m BY DEF Monthly
  <2>2. {r.month : r \in a.months} = {Monthly(q, MonthOf(k)).month : k \in KeySet(q)} BY <1>2
  <2> HIDE DEF q
  <2> QED BY <1>1, <2>1, <2>2
<1>12. ASSUME NEW r \in a.months
       PROVE  LET due == {m \in S : m.day \in inMonth(r.month)} IN
              /\ r.income = Total(Only("income", due))
              /\ r.expense = Total(Only("expense", due))
              /\ r.net = Net(due)
              /\ r.endingBalance = upTo(Max(inMonth(r.month)))
  <2>1. PICK k \in KeySet(q) : r = Monthly(q, MonthOf(k)) BY <1>2
  <2> DEFINE m == MonthOf(k)
             T == TurnsOf(q, m)
             due == {x \in S : x.day \in inMonth(m)}
  <2>2. /\ r.month = m /\ r.income = SumOf(q, m, Daily("income", q))
        /\ r.expense = SumOf(q, m, Daily("expense", q)) /\ r.net = SumOf(q, m, DailyNet(q))
        /\ r.endingBalance = Balances(q)[Max(T)]
    <3> HIDE DEF m
    <3> QED BY <2>1 DEF Monthly, m
  <2>3. DueOn(q, T) = due /\ Max(T) \in 1 .. n /\ Keys(q)[Max(T)] = Max(inMonth(m))
    <3> DEFINE in == {d \in DaysOf(q) : MonthOf(d) = m}
    <3>1. /\ DueOn(q, T) = {x \in q.counted : x.day \in in}
          /\ Max(T) \in 1 .. Count(q) /\ Keys(q)[Max(T)] = Max(in)
      BY MonthTurns
    <3>2. in = inMonth(m) BY <1>1
    <3> HIDE DEF in
    <3> QED BY <3>1, <3>2
  <2> HIDE DEF m, T
  <2>4. /\ r.income = Total(Only("income", DueOn(q, T)))
        /\ r.expense = Total(Only("expense", DueOn(q, T)))
        /\ r.net = Net(DueOn(q, T))
    BY <2>2, MonthTotals, MonthNet DEF T
  <2>5. r.endingBalance = upTo(Max(inMonth(m))) BY <2>2, <2>3, <1>4
  <2> HIDE DEF inMonth
  <2> QED BY <2>2, <2>3, <2>4, <2>5
<1> HIDE DEF Short, Out, inMonth
<1>13. /\ a.dayOfCashShort = (IF Short = {} THEN None ELSE Min(Short))
       /\ a.runwayEndsOn = (IF Out = {} THEN None ELSE Min(Out))
  BY <1>6, <1>7
<1> QED BY <1>7, <1>8, <1>9, <1>10, <1>11, <1>12, <1>13, Zenon
        DEF Exact, a, upTo, left, Short, Out, inMonth

-----------------------------------------------------------------------------
(* What holds of the request being answered, whatever is written meanwhile. *)

Querying ==
  [report : {"none", "cashflow", "indicators"}, pc : {"idle", "read", "balance", "answered"},
   asked : Int, first : Int, last : Int, end : Int, read : SUBSET (Tables \cup Parts),
   counted : SUBSET Movements, opening : Nat, found : [Parts -> Marks \cup {None}],
   quiet : BOOLEAN, then : SUBSET Marks]

DueIn(read) == {m \in Due(query) : m.table \in read}

(* A projection has counted movements of its dates and of the tables it    *)
(* has read, all of them if nobody wrote.                                  *)
Projecting ==
  /\ Horizon(query)
  /\ query.pc # "idle"
  /\ query.read \in SUBSET Tables
  /\ query.counted \in SUBSET DueIn(query.read)
  /\ query.quiet => DueIn(query.read) \subseteq query.counted
  /\ query.pc # "read" => query.read = Tables
  /\ query.pc = "answered" /\ query.quiet => query.opening \in BalancesAt(query.end)

(* The indicators have found, of each kind they have read, a mark no older *)
(* than those there were when they were asked for; the latest of all if    *)
(* nobody wrote.                                                           *)
Assessing ==
  /\ query.pc \in {"read", "answered"}
  /\ query.read \in SUBSET Parts
  /\ \A part \in Parts : query.found[part] # None =>
       query.found[part] \in marks /\ query.found[part].kind = part
  /\ query.quiet => \A part \in query.read : query.found[part] \in LatestOf(Of({part}))
  /\ query.then \in SUBSET Of(Parts)
  /\ \A r \in query.then : r.kind \in query.read =>
       query.found[r.kind] # None /\ query.found[r.kind].at >= r.at
  /\ query.pc = "answered" => query.read = Parts

IInv ==
  /\ LedgerTyped
  /\ query \in Querying
  /\ query.report = "none" => query = Idle
  /\ query.report = "cashflow" => Projecting
  /\ query.report # "cashflow" => query.counted = {}
  /\ query.report = "indicators" => Assessing
  /\ query.report # "indicators" => query.found = [part \in Parts |-> None]

LEMMA IdleFits ==
  /\ Idle \in Querying /\ Idle.report = "none" /\ Idle.pc = "idle" /\ Idle.read = {}
  /\ Idle.counted = {} /\ Idle.found = [part \in Parts |-> None] /\ Idle.quiet
  /\ Idle.then = {}
BY DEF Idle, Querying, Parts

LEMMA AtRest == ASSUME LedgerTyped', query' = Idle PROVE IInv'
BY IdleFits DEF IInv

LEMMA InitKeeps == ASSUME Init PROVE IInv
<1>1. LedgerTyped BY FS_EmptySet DEF Init, LedgerTyped
<1> QED BY <1>1, IdleFits DEF Init, IInv

LEMMA WriteKeeps == ASSUME IInv, Write PROVE IInv'
<1>1. LedgerTyped' /\ movements \subseteq movements' /\ marks \subseteq marks'
  BY CreateGrows DEF IInv, Write
<1>2. CASE Free BY <1>1, <1>2, AtRest DEF Write
<1>3. CASE ~Free
  <2>1. query' = [query EXCEPT !.quiet = FALSE] /\ query \in Querying BY <1>3 DEF Write, IInv
  <2>2. /\ query' \in Querying /\ ~query'.quiet
        /\ query'.report = query.report /\ query'.pc = query.pc /\ query'.first = query.first
        /\ query'.last = query.last /\ query'.end = query.end /\ query'.read = query.read
        /\ query'.counted = query.counted /\ query'.found = query.found
        /\ query'.then = query.then
    BY <2>1 DEF Querying
  <2>3. query.report # "none" BY <1>3, IdleFits DEF IInv, Free
  <2>4. ASSUME query.report = "cashflow" PROVE Projecting'
    <3>1. DueIn(query.read) \subseteq DueIn(query.read)' BY <1>1, <2>2 DEF DueIn, Due, Between
    <3>2. Horizon(query)' BY <2>2, <2>4 DEF IInv, Projecting, Horizon
    <3> QED BY <2>2, <2>4, <3>1, <3>2 DEF IInv, Projecting
  <2>5. ASSUME query.report = "indicators" PROVE Assessing'
    <3>1. Of(Parts) \subseteq Of(Parts)' BY <1>1 DEF Of
    <3> QED BY <1>1, <2>2, <2>5, <3>1 DEF IInv, Assessing
  <2> QED BY <1>1, <2>2, <2>3, <2>4, <2>5 DEF IInv
<1> QED BY <1>2, <1>3

LEMMA GetCashflowKeeps == ASSUME IInv, GetCashflow PROVE IInv'
<1>1. UNCHANGED <<movements, marks>> BY DEF GetCashflow, ledger
<1>2. PICK t \in Nows, n \in Horizons :
        query' = [Idle EXCEPT !.report = "cashflow", !.pc = "read", !.asked = t,
                              !.first = LocalDay(t), !.last = LastDay(LocalDay(t), n),
                              !.end = EndDate(LocalDay(t), n)]
  BY DEF GetCashflow
<1>3. /\ t \in Int /\ LocalDay(t) \in Int /\ LastDay(LocalDay(t), n) \in Int
      /\ EndDate(LocalDay(t), n) \in Int
  BY HorizonFacts, HorizonAssumption DEF Covers
<1>4. /\ query' \in Querying /\ query'.report = "cashflow" /\ query'.pc = "read"
      /\ query'.first = LocalDay(t) /\ query'.last = LastDay(LocalDay(t), n)
      /\ query'.end = EndDate(LocalDay(t), n) /\ query'.read = {} /\ query'.counted = {}
      /\ query'.found = [part \in Parts |-> None]
  BY <1>2, <1>3 DEF Querying, Idle, Parts
<1>5. Horizon(query)' BY <1>4 DEF Horizon
<1>6. DueIn(query.read)' = {} BY <1>4 DEF DueIn
<1>7. Projecting' BY <1>4, <1>5, <1>6 DEF Projecting
<1> QED BY <1>1, <1>4, <1>7 DEF IInv, LedgerTyped

LEMMA ReadTableKeeps == ASSUME IInv, NEW table \in Tables, ReadTable(table) PROVE IInv'
<1> DEFINE read == query.read \cup {table}
           due  == {m \in Due(query) : m.table = table}
<1>1. UNCHANGED <<movements, marks>> BY DEF ReadTable, ledger
<1>2. /\ query.report = "cashflow" /\ query.pc = "read" /\ Projecting /\ query \in Querying
      /\ query' = [query EXCEPT !.read = read, !.counted = @ \cup due,
                                !.pc = IF read = Tables THEN "balance" ELSE "read"]
  BY DEF ReadTable, IInv
<1>3. due \in SUBSET movements /\ due \in SUBSET Movements BY DEF Due, Between, IInv, LedgerTyped
<1>4. read \in SUBSET Tables /\ query.read \in SUBSET Tables BY <1>2 DEF Projecting
<1>5. /\ query' \in Querying /\ query'.report = "cashflow"
      /\ query'.pc = IF read = Tables THEN "balance" ELSE "read"
      /\ query'.first = query.first /\ query'.last = query.last /\ query'.end = query.end
      /\ query'.read = read /\ query'.counted = query.counted \cup due
      /\ query'.found = query.found /\ query'.quiet = query.quiet
  BY <1>2, <1>3, <1>4 DEF Querying
<1>6. Horizon(query)' BY <1>2, <1>5 DEF Projecting, Horizon
<1>7. DueIn(query.read)' = DueIn(query.read) \cup due BY <1>1, <1>5 DEF DueIn, Due, Between
<1>8. Projecting'
  <2> HIDE DEF due, read
  <2> QED BY <1>2, <1>4, <1>5, <1>6, <1>7 DEF Projecting
<1> QED BY <1>1, <1>2, <1>5, <1>8 DEF IInv, LedgerTyped

LEMMA ReadBalanceKeeps == ASSUME IInv, ReadBalance PROVE IInv'
<1>1. UNCHANGED <<movements, marks>> BY DEF ReadBalance, ledger
<1>2. PICK opening \in BalancesAt(query.end) :
        query' = [query EXCEPT !.opening = opening, !.pc = "answered"]
  BY DEF ReadBalance
<1>3. query.pc = "balance" /\ query \in Querying BY DEF ReadBalance, IInv
<1>4. query.report = "cashflow" /\ Projecting
  BY <1>3, IdleFits DEF IInv, Assessing, Querying
<1>5. opening \in Nat BY OpeningsAreNat DEF IInv
<1>6. /\ query' \in Querying /\ query'.report = "cashflow" /\ query'.pc = "answered"
      /\ query'.first = query.first /\ query'.last = query.last /\ query'.end = query.end
      /\ query'.read = query.read /\ query'.counted = query.counted
      /\ query'.found = query.found /\ query'.quiet = query.quiet /\ query'.opening = opening
  BY <1>2, <1>3, <1>4, <1>5 DEF Querying
<1>7. Horizon(query)' BY <1>4, <1>6 DEF Projecting, Horizon
<1>8. DueIn(query.read)' = DueIn(query.read) BY <1>1, <1>6 DEF DueIn, Due, Between
<1>9. BalancesAt(query.end)' = BalancesAt(query.end)
  BY <1>1, <1>6 DEF BalancesAt, Of
<1>10. Projecting' BY <1>3, <1>4, <1>6, <1>7, <1>8, <1>9 DEF Projecting
<1> QED BY <1>1, <1>4, <1>6, <1>10 DEF IInv, LedgerTyped

LEMMA GetIndicatorsKeeps == ASSUME IInv, GetIndicators PROVE IInv'
<1>1. UNCHANGED <<movements, marks>> BY DEF GetIndicators, ledger
<1>2. query' = [Idle EXCEPT !.report = "indicators", !.pc = "read", !.then = Of(Parts)]
  BY DEF GetIndicators
<1>3. Of(Parts) \in SUBSET Marks BY DEF Of, IInv, LedgerTyped
<1>4. /\ query' \in Querying /\ query'.report = "indicators" /\ query'.pc = "read"
      /\ query'.read = {} /\ query'.counted = {} /\ query'.then = Of(Parts)
      /\ query'.found = [part \in Parts |-> None]
  <2>1. PICK assets \in SUBSET Marks : assets = Of(Parts) BY <1>3
  <2>2. query' = [Idle EXCEPT !.report = "indicators", !.pc = "read", !.then = assets]
    BY <1>2, <2>1
  <2>3. /\ query'.report = "indicators" /\ query'.pc = "read" /\ query'.read = {}
        /\ query'.counted = {} /\ query'.then = assets
        /\ query'.found = [part \in Parts |-> None]
    BY <2>2 DEF Idle
  <2>4. query' \in Querying BY <2>2, IdleFits DEF Querying
  <2> QED BY <2>1, <2>3, <2>4
<1>5. Of(Parts)' = Of(Parts) BY <1>1 DEF Of
<1>6. Assessing' BY <1>4, <1>5 DEF Assessing
<1> QED BY <1>1, <1>4, <1>6 DEF IInv, LedgerTyped

(* The latest mark of a kind: none of them is later. *)
LEMMA LatestIs ==
  ASSUME LedgerTyped, NEW part, NEW row \in LatestOf(Of({part}))
  PROVE  /\ row \in Marks \cup {None}
         /\ row # None => row \in marks /\ row.kind = part
         /\ \A r \in marks : r.kind = part => row # None /\ row.at >= r.at
<1>1. CASE Of({part}) = {} BY <1>1 DEF LatestOf, Of
<1>2. CASE Of({part}) # {}
  <2>1. row \in Of({part}) /\ \A o \in Of({part}) : o.at <= row.at BY <1>2 DEF LatestOf
  <2>2. row \in marks /\ row.kind = part /\ row \in Marks BY <2>1 DEF Of, LedgerTyped
  <2>3. row # None /\ row.at \in Int BY <2>2, NullAssumption, LedgerAssumption
  <2>4. ASSUME NEW r \in marks, r.kind = part PROVE row.at >= r.at
    <3>1. r \in Of({part}) /\ r \in Marks BY <2>4 DEF Of, LedgerTyped
    <3>2. r.at \in Int BY <3>1, LedgerAssumption
    <3> QED BY <3>1, <3>2, <2>1, <2>3
  <2> QED BY <2>2, <2>3, <2>4
<1> QED BY <1>1, <1>2

LEMMA ReadPartKeeps == ASSUME IInv, NEW part \in Parts, ReadPart(part) PROVE IInv'
<1> DEFINE read == query.read \cup {part}
<1>1. UNCHANGED <<movements, marks>> BY DEF ReadPart, ledger
<1>2. PICK row \in LatestOf(Of({part})) :
        query' = [query EXCEPT !.read = read, !.found[part] = row,
                               !.pc = IF read = Parts THEN "answered" ELSE "read"]
  BY DEF ReadPart
<1>3. /\ query.report = "indicators" /\ query.pc = "read" /\ part \notin query.read
      /\ Assessing /\ query \in Querying
  BY DEF ReadPart, IInv
<1>4. /\ row \in Marks \cup {None}
      /\ row # None => row \in marks /\ row.kind = part
      /\ \A r \in marks : r.kind = part => row # None /\ row.at >= r.at
  BY <1>2, LatestIs DEF IInv
<1>5. read \in SUBSET Parts /\ query.read \in SUBSET Parts BY <1>3 DEF Assessing
<1>6. /\ query'.report = "indicators" /\ query'.read = read /\ query'.counted = query.counted
      /\ query'.pc = IF read = Parts THEN "answered" ELSE "read"
      /\ query'.found = [query.found EXCEPT ![part] = row]
      /\ query'.quiet = query.quiet /\ query'.then = query.then
  BY <1>2, <1>3 DEF Querying
<1>7. query' \in Querying
  <2>1. [query.found EXCEPT ![part] = row] \in [Parts -> Marks \cup {None}]
    BY <1>3, <1>4 DEF Querying
  <2>2. read \in SUBSET (Tables \cup Parts) BY <1>5
  <2> HIDE DEF read
  <2> QED BY <1>2, <1>3, <2>1, <2>2 DEF Querying
<1>8. query.found \in [Parts -> Marks \cup {None}] BY <1>3 DEF Querying
<1>9. /\ query'.found[part] = row
      /\ \A other \in Parts \ {part} : query'.found[other] = query.found[other]
  BY <1>6, <1>8
<1>10. \A kinds : Of(kinds)' = Of(kinds) BY <1>1 DEF Of
<1>11. ASSUME NEW r \in query.then, r.kind \in read
       PROVE  query'.found[r.kind] # None /\ query'.found[r.kind].at >= r.at
  <2>1. r \in marks /\ r.kind \in Parts BY <1>3 DEF Assessing, Of
  <2>2. CASE r.kind = part BY <2>1, <2>2, <1>4, <1>9
  <2>3. CASE r.kind # part BY <2>1, <2>3, <1>3, <1>9, <1>11 DEF Assessing
  <2> QED BY <2>2, <2>3
<1>12. ASSUME query.quiet, NEW other \in read PROVE query'.found[other] \in LatestOf(Of({other}))
  BY <1>2, <1>3, <1>5, <1>9, <1>12 DEF Assessing
<1>13. \A other \in Parts : query'.found[other] # None =>
         query'.found[other] \in marks /\ query'.found[other].kind = other
  BY <1>3, <1>4, <1>9 DEF Assessing
<1>14. \A other : LatestOf(Of({other}))' = LatestOf(Of({other})) BY <1>10 DEF LatestOf
<1> HIDE DEF read
<1>15. Assessing'
  BY <1>1, <1>3, <1>5, <1>6, <1>10, <1>11, <1>12, <1>13, <1>14 DEF Assessing
<1> QED BY <1>1, <1>3, <1>6, <1>7, <1>15 DEF IInv, LedgerTyped

LEMMA FailsKeeps == ASSUME IInv, Fails PROVE IInv'
BY AtRest DEF Fails, ledger, IInv, LedgerTyped

LEMMA StutterKeeps == ASSUME IInv, UNCHANGED vars PROVE IInv'
<1>1. UNCHANGED <<movements, marks, query>> BY DEF vars
<1> QED BY <1>1 DEF IInv, LedgerTyped, Projecting, Horizon, DueIn, Due, Between, BalancesAt, Of,
                    Assessing, LatestOf

(* Whatever is asked for and written in between, the query being answered  *)
(* keeps the invariant.                                                    *)
THEOREM Invariance == Spec => []IInv
<1>1. Init => IInv BY InitKeeps
<1>2. IInv /\ [Next]_vars => IInv'
  BY WriteKeeps, GetCashflowKeeps, ReadTableKeeps, ReadBalanceKeeps, GetIndicatorsKeeps,
     ReadPartKeeps, FailsKeeps, StutterKeeps DEF Next
<1> QED BY <1>1, <1>2, PTL DEF Spec

-----------------------------------------------------------------------------
(* What an answered request says.                                          *)

LEMMA AnsweredIsAsked ==
  ASSUME IInv, Projected
  PROVE  Asked(query) /\ Projecting /\ query.read = Tables
<1>1. Projecting /\ query.read = Tables /\ query \in Querying BY DEF IInv, Projected, Projecting
<1>2. query.counted \in SUBSET movements BY <1>1 DEF Projecting, DueIn, Due, Between
<1>3. Counted(query.counted) /\ \A m \in query.counted : m.day \in Int
  BY <1>2, LedgerIsCounted DEF IInv
<1>4. Horizon(query) BY <1>1 DEF Projecting
<1>5. \A m \in query.counted : DateKey(query.first) <= m.day /\ m.day <= UtcDay(query.end)
  BY <1>1 DEF Projecting, DueIn, Due, Between
<1>6. DateKey(query.first) \in Int /\ UtcDay(query.end) \in Int BY <1>4, HorizonDays
<1>7. query.opening \in Nat BY <1>1 DEF Querying
<1> QED BY <1>1, <1>3, <1>4, <1>5, <1>6, <1>7 DEF Asked

(* Types: what is counted and found are rows there are, all tables are     *)
(* read before there is an answer, and cash runs short on a day of the     *)
(* projection or not at all.                                               *)
THEOREM TypeCorrect == Spec => []TypeOK
<1>1. ASSUME IInv PROVE TypeOK
  <2>1. LedgerTyped /\ query \in Querying BY <1>1 DEF IInv
  <2>2. query.counted \subseteq movements
    BY <1>1 DEF IInv, Projecting, DueIn, Due, Between
  <2>3. \A part \in Parts : query.found[part] \in marks \cup {None}
    BY <1>1, <2>1 DEF IInv, Assessing, Querying
  <2>4. ASSUME Projected
        PROVE  query.read = Tables /\ Answer.dayOfCashShort \in Dates \cup {None}
    BY <1>1, <2>4, AnsweredIsAsked, AnswerRunsOut DEF Answer, Dates
  <2>5. Assessed => query.read = Parts BY <1>1 DEF IInv, Assessed, Assessing
  <2> QED BY <2>1, <2>2, <2>3, <2>4, <2>5 DEF TypeOK, LedgerTyped, Querying
<1> QED BY <1>1, Invariance, PTL

(* Indicators show nothing older than what there was when they were asked  *)
(* for, whatever is recorded between their queries.                        *)
THEOREM AnswersGoForward == Spec => []IndicatorsNeverGoBack
<1>1. ASSUME IInv, Assessed, NEW r \in query.then
      PROVE  query.found[r.kind] # None /\ query.found[r.kind].at >= r.at
  <2>1. Assessing /\ query.read = Parts BY <1>1 DEF IInv, Assessed, Assessing
  <2>2. r.kind \in Parts BY <1>1, <2>1 DEF Assessing, Of
  <2> QED BY <1>1, <2>1, <2>2 DEF Assessing
<1>2. IInv => IndicatorsNeverGoBack BY <1>1 DEF IndicatorsNeverGoBack
<1> QED BY <1>2, Invariance, PTL

(* A row found adds its worth to the total of rows of other kinds. *)
LEMMA FoundAdds ==
  ASSUME NEW S, Counted(S), None \notin S, NEW row, row # None => row \notin S /\ row.amount \in Nat
  PROVE  LET T == (S \cup {row}) \ {None} IN
         Counted(T) /\ None \notin T /\ Total(T) = Total(S) + Worth(row)
<1>1. CASE row = None
  <2>1. (S \cup {row}) \ {None} = S /\ Worth(row) = 0 BY <1>1 DEF Worth
  <2>2. Total(S) = Total(S) + 0 BY TotalIsNat
  <2> QED BY <2>1, <2>2
<1>2. CASE row # None
  <2>1. (S \cup {row}) \ {None} = S \cup {row} /\ Worth(row) = row.amount BY <1>2 DEF Worth
  <2>2. Counted(S \cup {row}) BY <1>2, FS_AddElement DEF Counted
  <2>3. Total(S \cup {row}) = Total(S) + row.amount BY <1>2, TotalGains
  <2> QED BY <1>2, <2>1, <2>2, <2>3
<1> QED BY <1>1, <1>2

(* Left alone, the indicators are the latest of their kinds, each counted  *)
(* once.                                                                   *)
THEOREM QuietIndicators == Spec => []QuietIndicatorsAreLatest
<1>1. ASSUME IInv, Assessed, query.quiet
      PROVE  /\ \A part \in Parts : query.found[part] \in LatestOf(Of({part}))
             /\ TotalAssets(query.found) = Total({query.found[part] : part \in Parts} \ {None})
  <2> DEFINE s == query.found["stock"]
             r == query.found["reserve"]
             i == query.found["investment"]
             S == ({} \cup {s}) \ {None}
             R == (S \cup {r}) \ {None}
             I == (R \cup {i}) \ {None}
  <2>1. Assessing /\ query.read = Parts /\ LedgerTyped BY <1>1 DEF IInv, Assessed, Assessing
  <2>2. \A part \in Parts : query.found[part] # None =>
          query.found[part].kind = part /\ query.found[part].amount \in Nat
    BY <2>1, LedgerAssumption DEF Assessing, LedgerTyped
  <2>3. /\ s # None => s.kind = "stock" /\ s.amount \in Nat
        /\ r # None => r.kind = "reserve" /\ r.amount \in Nat
        /\ i # None => i.kind = "investment" /\ i.amount \in Nat
    BY <2>2 DEF Parts
  <2>4. {query.found[part] : part \in Parts} \ {None} = I BY DEF Parts
  <2>5. TotalAssets(query.found) = Worth(s) + (Worth(r) + Worth(i)) BY DEF TotalAssets
  <2>6. Worth(s) \in Nat /\ Worth(r) \in Nat /\ Worth(i) \in Nat BY <2>3 DEF Worth
  <2> HIDE DEF s, r, i
  <2>7. Counted({}) /\ None \notin {} BY FS_EmptySet DEF Counted
  <2>8. Counted(S) /\ None \notin S /\ Total(S) = Total({}) + Worth(s)
    BY <2>3, <2>7, FoundAdds
  <2>9. r # None => r \notin S BY <2>3
  <2> HIDE DEF S
  <2>10. Counted(R) /\ None \notin R /\ Total(R) = Total(S) + Worth(r)
    BY <2>3, <2>8, <2>9, FoundAdds
  <2>11. i # None => i \notin R BY <2>3 DEF S
  <2> HIDE DEF R
  <2>12. Total(I) = Total(R) + Worth(i) BY <2>3, <2>10, <2>11, FoundAdds
  <2>13. Total({}) = 0 BY TotalOfNothing
  <2>14. TotalAssets(query.found) = Total(I)
    BY <2>5, <2>6, <2>8, <2>10, <2>12, <2>13
  <2> QED BY <1>1, <2>1, <2>4, <2>14 DEF Assessing
<1>2. IInv => QuietIndicatorsAreLatest BY <1>1 DEF QuietIndicatorsAreLatest
<1> QED BY <1>2, Invariance, PTL

(* The runway counts no income: it ends no later than the cash does.       *)
THEOREM RunwayBeforeShortage == Spec => []RunwayEndsFirst
<1>1. ASSUME IInv, Projected, Answer.dayOfCashShort # None
      PROVE  Answer.runwayEndsOn # None /\ Answer.runwayEndsOn <= Answer.dayOfCashShort
  BY <1>1, AnsweredIsAsked, AnswerRunsOut DEF Answer
<1>2. IInv => RunwayEndsFirst BY <1>1 DEF RunwayEndsFirst
<1> QED BY <1>2, Invariance, PTL

(* In a zone on one side of UTC a projection agrees with itself, whatever  *)
(* was written between its queries, for the dates it comes to: the last is *)
(* lost after a day without a midnight.                                    *)
THEOREM ConsistentProjections ==
  ASSUME OneSideOfUtc
  PROVE  Spec => []ProjectionIsConsistent
<1>1. IInv => ProjectionIsConsistent
  BY AnsweredIsAsked, AnswerIsExact DEF ProjectionIsConsistent
<1> QED BY <1>1, Invariance, PTL

(* There a projection of a ledger that nobody writes meanwhile counts what *)
(* the lists of its dates show.                                            *)
THEOREM QuietProjections ==
  ASSUME OneSideOfUtc
  PROVE  Spec => []QuietProjectionIsExact
<1>1. ASSUME IInv, Projected, query.quiet
      PROVE  /\ Exact(ListEntries(Min(Dates), Max(Dates)) \cup ListProvisions(Min(Dates), Max(Dates)))
             /\ Answer.startingBalance \in BalancesAt(query.end)
  <2>1. Asked(query) /\ Projecting /\ query.read = Tables BY <1>1, AnsweredIsAsked
  <2> DEFINE lo == DateKey(query.first)
             hi == UtcDay(query.end)
  <2>2. lo \in Int /\ hi \in Int /\ lo <= hi BY <2>1, HorizonDays DEF Asked
  <2>3. Dates = lo .. hi BY DEF Dates
  <2> HIDE DEF lo, hi
  <2>4. Min(Dates) = lo /\ Max(Dates) = hi
    <3>0. lo \in Dates /\ hi \in Dates BY <2>2, <2>3
    <3>1. Dates \in SUBSET (lo .. hi) /\ Dates # {} BY <2>3, <3>0
    <3>2. /\ Min(Dates) \in Dates /\ \A x \in Dates : Min(Dates) <= x
          /\ Max(Dates) \in Dates /\ \A x \in Dates : x <= Max(Dates)
      BY <2>2, <3>1, MinIsLeast, MaxIsGreatest
    <3>3. /\ Min(Dates) \in Int /\ lo <= Min(Dates) /\ Min(Dates) <= lo
          /\ Max(Dates) \in Int /\ hi <= Max(Dates) /\ Max(Dates) <= hi
      BY <2>2, <2>3, <3>0, <3>1, <3>2
    <3> QED BY <2>2, <3>3
  <2>5. lo # None /\ hi # None BY <2>2, NullAssumption
  <2>6. \A m : InRangeOf(m.day, lo, hi) <=> lo <= m.day /\ m.day <= hi BY <2>5 DEF InRangeOf
  <2>7. \A m \in movements : m.table \in Tables BY <1>1, LedgerIsCounted DEF IInv
  <2>8. query.counted = DueIn(Tables) BY <1>1, <2>1 DEF Projecting
  <2>9. DueIn(Tables) = ListEntries(lo, hi) \cup ListProvisions(lo, hi)
    BY <2>6, <2>7 DEF DueIn, Due, Between, lo, hi, ListEntries, ListProvisions, ListMovements, Tables
  <2>10. Exact(query.counted) BY <2>1, AnswerIsExact
  <2>11. Answer.startingBalance = query.opening BY AnswerSays DEF Answer
  <2>12. query.opening \in BalancesAt(query.end) BY <1>1, <2>1 DEF Projecting, Projected
  <2> QED BY <2>4, <2>8, <2>9, <2>10, <2>11, <2>12
<1>2. IInv => QuietProjectionIsExact BY <1>1 DEF QuietProjectionIsExact
<1> QED BY <1>2, Invariance, PTL

-----------------------------------------------------------------------------
(* Lists of adjacent dates.  A date of a query is read as UTC midnight, of *)
(* which the local day is taken.  In a zone that keeps ahead of UTC, or    *)
(* behind it, that is the same day for every date, or the day before for   *)
(* every date; in a zone that crosses UTC, as the Azores do in summer, a   *)
(* local day may hold the midnight of no date or of two, and lists of      *)
(* adjacent dates leave its rows out or show them twice.                   *)

KeepsAheadOrBehind ==
  \/ \A d \in Days : Offset[d] \in 0 .. DayTicks - 1
  \/ \A d \in Days : Offset[d] \in -DayTicks .. -1

LEMMA LessTimes ==
  ASSUME NEW n \in Nat \ {0}, NEW a \in Int, NEW b \in Int, a * n < b * n
  PROVE  a < b
OBVIOUS

LEMMA DatesAreDays ==
  ASSUME KeepsAheadOrBehind
  PROVE  \E s \in {0, 1} : \A d \in Int : Covers(d * DayTicks) => LocalDay(d * DayTicks) = d - s
<1> DEFINE L(d) == LocalDay(d * DayTicks)
<1>0. DayTicks \in Nat \ {0} BY CalendarAssumption
<1>1. ASSUME NEW d \in Int, Covers(d * DayTicks)
      PROVE  /\ L(d) \in Days /\ L(d) + 1 \in Days /\ L(d) \in Int
             /\ Offset[L(d)] \in Int /\ Offset[L(d) + 1] \in Int
             /\ L(d) * DayTicks - Offset[L(d)] <= d * DayTicks
             /\ d * DayTicks < (L(d) + 1) * DayTicks - Offset[L(d) + 1]
  <2>1. /\ L(d) \in Days /\ L(d) + 1 \in Days
        /\ Midnight(L(d)) <= d * DayTicks /\ d * DayTicks < Midnight(L(d) + 1)
    BY <1>1 DEF Covers
  <2> HIDE DEF L
  <2>2. L(d) \in Int /\ Offset[L(d)] \in Int /\ Offset[L(d) + 1] \in Int BY <2>1, KeyIsInt
  <2> QED BY <2>1, <2>2 DEF Midnight
<1>2. CASE \A x \in Days : Offset[x] \in 0 .. DayTicks - 1
  <2>1. ASSUME NEW d \in Int, Covers(d * DayTicks) PROVE L(d) = d - 0
    <3>1. PICK l \in Int : l = L(d) BY <1>1, <2>1
    <3>2. /\ l * DayTicks < (d + 1) * DayTicks /\ d * DayTicks < (l + 1) * DayTicks
      <4> HIDE DEF L
      <4>1. PICK o \in 0 .. DayTicks - 1, u \in 0 .. DayTicks - 1 :
              l * DayTicks - o <= d * DayTicks /\ d * DayTicks < (l + 1) * DayTicks - u
        BY <1>1, <1>2, <2>1, <3>1
      <4>2. PICK x \in Int, y \in Int, z \in Int :
              x = l * DayTicks /\ y = d * DayTicks /\ z = (l + 1) * DayTicks
        BY <1>0
      <4>3. (d + 1) * DayTicks = d * DayTicks + DayTicks BY <1>0
      <4> QED BY <1>0, <4>1, <4>2, <4>3
    <3>3. l < d + 1 /\ d < l + 1 BY <1>0, <3>2, LessTimes
    <3> QED BY <3>1, <3>3
  <2> QED BY <2>1
<1>3. CASE \A x \in Days : Offset[x] \in -DayTicks .. -1
  <2>1. ASSUME NEW d \in Int, Covers(d * DayTicks) PROVE L(d) = d - 1
    <3>1. PICK l \in Int : l = L(d) BY <1>1, <2>1
    <3>2. /\ l * DayTicks < d * DayTicks /\ d * DayTicks < (l + 2) * DayTicks
      <4> HIDE DEF L
      <4>1. PICK o \in -DayTicks .. -1, u \in -DayTicks .. -1 :
              l * DayTicks - o <= d * DayTicks /\ d * DayTicks < (l + 1) * DayTicks - u
        BY <1>1, <1>3, <2>1, <3>1
      <4>2. PICK x \in Int, y \in Int, z \in Int :
              x = l * DayTicks /\ y = d * DayTicks /\ z = (l + 1) * DayTicks
        BY <1>0
      <4>3. (l + 2) * DayTicks = (l + 1) * DayTicks + DayTicks BY <1>0
      <4> QED BY <1>0, <4>1, <4>2, <4>3
    <3>3. l < d /\ d < l + 2 BY <1>0, <3>2, LessTimes
    <3> QED BY <3>1, <3>3
  <2> QED BY <2>1
<1> QED BY <1>2, <1>3 DEF KeepsAheadOrBehind

(* The last tick of a day, of all that is not of a second run.             *)
LEMMA LastTickEndsDay ==
  ASSUME NEW d \in Days, d + 1 \in Days
  PROVE  /\ LastTick(d) \in Int
         /\ \A r : r.at \in Int /\ ~InSecondRun(r) => (r.at <= LastTick(d) <=> r.at < Midnight(d + 1))
<1>1. Midnight(d + 1) \in Int /\ Hour \in Nat \ {0} BY KeyIsInt, CalendarAssumption
<1>2. CASE d \in Repeats
  <2>1. LastTick(d) = Midnight(d + 1) - 1 - Hour BY <1>2 DEF LastTick
  <2>2. LastTick(d) \in Int /\ LastTick(d) < Midnight(d + 1) BY <1>1, <2>1
  <2>3. ASSUME NEW r, r.at \in Int, ~InSecondRun(r)
        PROVE  r.at <= LastTick(d) <=> r.at < Midnight(d + 1)
    <3>1. ~(LastTick(d) < r.at /\ r.at < Midnight(d + 1)) BY <1>2, <2>3 DEF InSecondRun
    <3>2. PICK x \in Int : x = r.at BY <2>3
    <3> QED BY <1>1, <2>2, <3>1, <3>2
  <2> QED BY <2>2, <2>3
<1>3. CASE d \notin Repeats
  <2>1. LastTick(d) = Midnight(d + 1) - 1 - 0 BY <1>3 DEF LastTick
  <2> QED BY <1>1, <2>1
<1> QED BY <1>2, <1>3

(* A list begins where the list of the dates before it ended, but for what *)
(* is recorded in a second run.                                            *)
LEMMA ListsFollow ==
  ASSUME KeepsAheadOrBehind, NEW first \in Int, NEW last \in Int,
         \A d \in first .. last + 1 : Covers(d * DayTicks)
  PROVE  /\ \A d \in first .. last + 1 : StartOfDay(d) \in Int
         /\ \A d \in first .. last : \A r : r.at \in Int /\ ~InSecondRun(r) =>
              (r.at <= EndOfDay(d) <=> r.at < StartOfDay(d + 1))
         /\ \A d \in first .. last : EndOfDay(d) \in Int
         /\ \A d, e \in first .. last + 1 : d <= e => StartOfDay(d) <= StartOfDay(e)
<1>1. PICK s \in {0, 1} : \A d \in Int : Covers(d * DayTicks) => LocalDay(d * DayTicks) = d - s
  BY DatesAreDays
<1>2. ASSUME NEW d \in first .. last + 1
      PROVE  /\ d \in Int /\ d - s \in Days /\ d - s + 1 \in Days
             /\ Midnight(d - s) \in Int /\ Midnight(d - s + 1) \in Int
             /\ StartOfDay(d) = Midnight(d - s) /\ EndOfDay(d) = LastTick(d - s)
  <2>1. d \in Int /\ Covers(d * DayTicks) /\ LocalDay(d * DayTicks) = d - s BY <1>1
  <2>2. d - s \in Days /\ d - s + 1 \in Days BY <2>1 DEF Covers
  <2>3. d # None BY <2>1, NullAssumption
  <2> QED BY <2>1, <2>2, <2>3, KeyIsInt DEF StartOfDay, EndOfDay
<1>3. ASSUME NEW d \in first .. last
      PROVE  /\ EndOfDay(d) \in Int
             /\ \A r : r.at \in Int /\ ~InSecondRun(r) =>
                  (r.at <= EndOfDay(d) <=> r.at < StartOfDay(d + 1))
  <2>1. d \in first .. last + 1 /\ d + 1 \in first .. last + 1 /\ (d + 1) - s = d - s + 1
    OBVIOUS
  <2>2. StartOfDay(d + 1) = Midnight((d + 1) - s) BY <1>2, <2>1
  <2>3. StartOfDay(d + 1) = Midnight(d - s + 1) /\ EndOfDay(d) = LastTick(d - s)
        /\ d - s \in Days /\ d - s + 1 \in Days
    BY <1>2, <2>1, <2>2
  <2> QED BY <2>3, LastTickEndsDay
<1>4. ASSUME NEW d \in first .. last + 1, NEW e \in first .. last + 1, d <= e
      PROVE  StartOfDay(d) <= StartOfDay(e)
  <2>1. d - s <= e - s BY <1>4
  <2>2. Midnight(d - s) <= Midnight(e - s) BY <2>1, <1>2, MidnightsInOrder
  <2> QED BY <2>2, <1>2
<1> QED BY <1>2, <1>3, <1>4

(* An instant of a range lies on one of its dates. *)
LEMMA OnSomeDate ==
  ASSUME NEW first \in Int, NEW last \in Int, first <= last, NEW start, NEW x \in Int,
         \A d \in first .. last + 1 : start[d] \in Int,
         start[first] <= x, x < start[last + 1]
  PROVE  \E d \in first .. last : start[d] <= x /\ x < start[d + 1]
<1> DEFINE T == {d \in first .. last + 1 : start[d] <= x}
           hi == last + 1
<1>1. SUFFICES ASSUME \A d \in first .. last : start[d] <= x => ~(x < start[d + 1]) PROVE FALSE
  OBVIOUS
<1>2. first \in T OBVIOUS
<1>3. ASSUME NEW d \in first + 1 .. hi, d - 1 \in T PROVE d \in T
  <2>1. d \in first .. last + 1 /\ d - 1 \in first .. last /\ (d - 1) + 1 = d OBVIOUS
  <2>2. start[d - 1] <= x BY <1>3
  <2>3. ~(x < start[d]) BY <1>1, <2>1, <2>2
  <2> QED BY <2>1, <2>3
<1>4. first .. hi \subseteq T
  <2>1. hi \in Int OBVIOUS
  <2> HIDE DEF T, hi
  <2> QED BY <1>2, <1>3, <2>1, AlongInterval
<1>5. last + 1 \in first .. last + 1 OBVIOUS
<1> QED BY <1>4, <1>5

Assets == {r \in marks \ ListBalances : ~InSecondRun(r)}
Listed(first, last) == Assets \cap (ListStocks(first, last) \cup ListReserves(first, last))

LEMMA ListedAre ==
  ASSUME LedgerTyped, NEW first, NEW last
  PROVE  Listed(first, last) =
           {r \in Assets : InRangeOf(r.at, StartOfDay(first), EndOfDay(last))}
<1>1. \A r \in marks : r.kind \in Kinds BY LedgerAssumption DEF LedgerTyped
<1> DEFINE In(r) == InRangeOf(r.at, StartOfDay(first), EndOfDay(last))
<1>2. /\ ListStocks(first, last) = {r \in Of({"stock"}) : In(r)}
      /\ ListReserves(first, last) = {r \in Of({"reserve", "investment"}) : In(r)}
  BY DEF ListStocks, ListReserves, ListMarks
<1> HIDE DEF In
<1>3. Assets = {r \in Of({"stock"}) \cup Of({"reserve", "investment"}) : ~InSecondRun(r)}
  BY <1>1 DEF Assets, ListBalances, Of, Kinds
<1>4. Listed(first, last) = {r \in Assets : In(r)} BY <1>2, <1>3 DEF Listed
<1> QED BY <1>4 DEF In

(* Lists of adjacent dates fit together in a zone that keeps ahead of UTC  *)
(* or behind it, for all that is recorded but in the second run of an hour *)
(* that is repeated at the end of a day.                                   *)
THEOREM ListsFitTogether ==
  ASSUME KeepsAheadOrBehind
  PROVE  Spec => []ListsTile
<1>1. ASSUME LedgerTyped, NEW first \in MarkedDays, NEW last \in MarkedDays, first <= last
      PROVE  /\ Listed(first, last) = UNION {Listed(d, d) : d \in first .. last}
             /\ Listed(None, last) \cap Listed(last + 1, None) = {}
             /\ Listed(None, last) \cup Listed(last + 1, None) = Assets
  <2>1. PICK r \in Marks, s \in Marks : first = UtcDay(r.at) /\ last = UtcDay(s.at)
    BY <1>1 DEF MarkedDays
  <2>2. first \in Int /\ last \in Int
    <3>1. r.at \in Int /\ s.at \in Int /\ DayTicks \in Nat \ {0}
      BY LedgerAssumption, CalendarAssumption
    <3>2. PICK x \in Int, y \in Int : x = r.at /\ y = s.at BY <3>1
    <3>3. x \div DayTicks \in Int /\ y \div DayTicks \in Int BY <3>1
    <3> QED BY <2>1, <3>2, <3>3 DEF UtcDay
  <2>3. \A d \in first .. last + 1 : Covers(d * DayTicks) BY <2>1, ListAssumption
  <2> DEFINE start == [d \in first .. last + 1 |-> StartOfDay(d)]
  <2>0. \A x \in Assets : x.at \in Int /\ ~InSecondRun(x)
    BY <1>1, LedgerAssumption DEF Assets, LedgerTyped
  <2>4. /\ \A d \in first .. last + 1 : start[d] \in Int /\ start[d] = StartOfDay(d)
        /\ \A d \in first .. last : EndOfDay(d) \in Int
        /\ \A d \in first .. last : \A x \in Assets : x.at <= EndOfDay(d) <=> x.at < start[d + 1]
        /\ \A d, e \in first .. last + 1 : d <= e => start[d] <= start[e]
    <3>1. \A d \in first .. last : d + 1 \in first .. last + 1 BY <2>2
    <3> QED BY <2>0, <2>2, <2>3, <3>1, ListsFollow
  <2> HIDE DEF start
  <2>5. \A x \in Assets : x.at \in Int BY <2>0
  <2>6. ASSUME NEW d \in first .. last + 1, NEW e \in first .. last, NEW x \in Assets
        PROVE  /\ x \in Listed(d, e) <=> start[d] <= x.at /\ x.at < start[e + 1]
               /\ x \in Listed(None, e) <=> x.at < start[e + 1]
               /\ x \in Listed(d, None) <=> start[d] <= x.at
    <3>1. e + 1 \in first .. last + 1 BY <2>2
    <3>2. /\ StartOfDay(d) = start[d] /\ start[d] \in Int
          /\ EndOfDay(e) \in Int /\ start[e + 1] \in Int
          /\ x.at <= EndOfDay(e) <=> x.at < start[e + 1]
      BY <2>4, <3>1
    <3>3. StartOfDay(d) # None /\ EndOfDay(e) # None BY <3>2, NullAssumption
    <3>4. StartOfDay(None) = None /\ EndOfDay(None) = None BY DEF StartOfDay, EndOfDay
    <3>5. /\ InRangeOf(x.at, StartOfDay(d), EndOfDay(e)) <=> start[d] <= x.at /\ x.at < start[e + 1]
          /\ InRangeOf(x.at, StartOfDay(None), EndOfDay(e)) <=> x.at < start[e + 1]
          /\ InRangeOf(x.at, StartOfDay(d), EndOfDay(None)) <=> start[d] <= x.at
      BY <2>5, <3>2, <3>3, <3>4 DEF InRangeOf
    <3> QED BY <1>1, <3>5, ListedAre
  <2>7. \A d, e : Listed(d, e) \subseteq Assets BY <1>1, ListedAre
  <2>8. /\ first \in first .. last + 1 /\ last \in first .. last /\ last + 1 \in first .. last + 1
    BY <1>1, <2>2
  <2>9. ASSUME NEW x \in Listed(first, last) PROVE x \in UNION {Listed(d, d) : d \in first .. last}
    <3>1. x \in Assets /\ x.at \in Int /\ start[first] <= x.at /\ x.at < start[last + 1]
      BY <2>5, <2>6, <2>7, <2>8
    <3>2. PICK at \in Int : at = x.at BY <3>1
    <3>3. PICK d \in first .. last : start[d] <= at /\ at < start[d + 1]
      BY <1>1, <2>2, <2>4, <3>1, <3>2, OnSomeDate
    <3>4. d \in first .. last + 1 BY <2>2
    <3>5. x \in Listed(d, d) BY <2>6, <3>1, <3>2, <3>3, <3>4
    <3> QED BY <3>5
  <2>10. ASSUME NEW d \in first .. last, NEW x \in Listed(d, d) PROVE x \in Listed(first, last)
    <3>1. /\ d \in first .. last + 1 /\ d + 1 \in first .. last + 1
          /\ first <= d /\ d + 1 <= last + 1
      BY <2>2
    <3>2. x \in Assets /\ x.at \in Int /\ start[d] <= x.at /\ x.at < start[d + 1]
      BY <2>5, <2>6, <2>7, <3>1, <2>10
    <3>3. /\ start[first] <= start[d] /\ start[d + 1] <= start[last + 1]
          /\ start[first] \in Int /\ start[d] \in Int /\ start[d + 1] \in Int
          /\ start[last + 1] \in Int
      BY <2>4, <2>8, <3>1
    <3>4. start[first] <= x.at /\ x.at < start[last + 1] BY <3>2, <3>3
    <3> QED BY <2>6, <2>8, <3>2, <3>4
  <2>11. Listed(first, last) = UNION {Listed(d, d) : d \in first .. last} BY <2>9, <2>10
  <2>12. \A x \in Assets : x \in Listed(None, last) <=> ~(x \in Listed(last + 1, None))
    <3>1. start[last + 1] \in Int BY <2>4, <2>8
    <3>2. ASSUME NEW x \in Assets PROVE x.at < start[last + 1] <=> ~(start[last + 1] <= x.at)
      BY <2>5, <3>1
    <3> QED BY <2>6, <2>8, <3>2
  <2> QED BY <2>7, <2>11, <2>12
<1>2. ASSUME LedgerTyped, NEW r \in Assets, r.at % DayTicks = 0
      PROVE  r \in Listed(UtcDay(r.at), UtcDay(r.at))
  <2> DEFINE d == UtcDay(r.at)
  <2>1. r \in Marks /\ DayTicks \in Nat \ {0} BY <1>2, CalendarAssumption DEF Assets, LedgerTyped
  <2>2. PICK x \in Int : x = r.at BY <2>1, LedgerAssumption
  <2>3. x \div DayTicks \in Int /\ (x \div DayTicks) * DayTicks = x BY <1>2, <2>1, <2>2
  <2>4. d \in Int /\ d * DayTicks = r.at BY <2>2, <2>3 DEF UtcDay
  <2> HIDE DEF d
  <2>5. d \in d .. d + 1 BY <2>4
  <2>6. Covers(d * DayTicks) BY <2>1, <2>5, ListAssumption DEF d
  <2> DEFINE l == LocalDay(d * DayTicks)
  <2>7. /\ l \in Days /\ l + 1 \in Days
        /\ Midnight(l) <= r.at /\ r.at < Midnight(l + 1)
    BY <2>4, <2>6 DEF Covers
  <2>8. Midnight(l) \in Int /\ Midnight(l + 1) \in Int BY <2>7, KeyIsInt
  <2>9. StartOfDay(d) = Midnight(l) /\ EndOfDay(d) = LastTick(l)
    <3>1. d # None BY <2>4, NullAssumption
    <3> QED BY <3>1 DEF StartOfDay, EndOfDay
  <2> HIDE DEF l
  <2>10. r.at <= LastTick(l)
    <3>1. ~InSecondRun(r) BY <1>2 DEF Assets
    <3> QED BY <2>2, <2>7, <3>1, LastTickEndsDay
  <2>11. InRangeOf(r.at, StartOfDay(d), EndOfDay(d)) BY <2>7, <2>9, <2>10 DEF InRangeOf
  <2> QED BY <1>2, <2>11, ListedAre DEF d
<1>3. IInv => ListsTile BY <1>1, <1>2, Zenon DEF IInv, ListsTile, Listed, Assets
<1> QED BY <1>3, Invariance, PTL

=============================================================================
