--------------------------- MODULE ClosingsProofs ---------------------------
(***************************************************************************)
(* What createClosing does for every calendar, zone, ledger and set of     *)
(* calls.  First what the periods and the loop over their days compute,    *)
(* then the invariants of the handler's steps.                             *)
(***************************************************************************)
EXTENDS Closings, LedgerProofs

(* A period is a month or a quarter, which the calendar covers. *)
LEMMA PeriodIsMonths ==
  ASSUME NEW p \in Periods
  PROVE  \E m \in Months, n \in {1, 3} :
           /\ m + n \in Months
           /\ p = Period(p.type, m, n) /\ p.type \in Types
           /\ p.first = MonthStart[m] /\ p.last = MonthStart[m + n] - 1
           /\ MonthStart[m] .. MonthStart[m + n] \subseteq Days
           /\ n = IF p.type = "quarterly" THEN 3 ELSE 1
           /\ n = 3 => \E k \in Int : m = 3 * k
<1>1. PICK type \in Types, t \in Instants : p = PeriodOf(type, LocalDay(t)) BY DEF Periods
<1> DEFINE d == LocalDay(t)
           m == MonthOf(d)
           q == 3 * QuarterOf(d)
<1>2. /\ m \in Months /\ m + 1 \in Months /\ q \in Months /\ q + 3 \in Months
      /\ MonthStart[q] .. MonthStart[q + 3] \subseteq Days
  BY CoverageAssumption DEF Covers
<1>3. m \in Int /\ q \in Int /\ MonthStart[m] \in Int /\ MonthStart[m + 1] \in Int
      /\ MonthStart[q] \in Int /\ MonthStart[q + 3] \in Int
  BY <1>2, CalendarAssumption
<1> HIDE DEF m
<1>4. q <= m /\ m + 1 <= q + 3 BY <1>3 DEF q, m, QuarterOf
<1>5. \E k \in Int : q = 3 * k BY <1>3 DEF q, m, QuarterOf
<1> HIDE DEF d, q
<1>6. CASE type = "quarterly"
  <2>1. p = Period(type, q, 3) BY <1>1, <1>6 DEF PeriodOf, q, d
  <2>2. p.type = type /\ p.first = MonthStart[q] /\ p.last = MonthStart[q + 3] - 1
    BY <2>1 DEF Period
  <2> QED BY <2>1, <2>2, <1>2, <1>3, <1>5, <1>6
<1>7. CASE type # "quarterly"
  <2>1. p = Period(type, m, 1) BY <1>1, <1>7 DEF PeriodOf, m, d
  <2>2. MonthStart[q] <= MonthStart[m] /\ MonthStart[m + 1] <= MonthStart[q + 3]
    <3>1. q = m \/ q < m BY <1>3, <1>4
    <3>2. m + 1 = q + 3 \/ m + 1 < q + 3 BY <1>3, <1>4
    <3> QED BY <3>1, <3>2, <1>2, <1>3, CalendarAssumption
  <2>3. MonthStart[m] .. MonthStart[m + 1] \subseteq Days BY <2>2, <1>2, <1>3
  <2>4. p.type = type /\ p.first = MonthStart[m] /\ p.last = MonthStart[m + 1] - 1
    BY <2>1 DEF Period
  <2> QED BY <2>1, <2>3, <2>4, <1>2, <1>3, <1>7
<1> QED BY <1>6, <1>7

LEMMA PeriodFacts ==
  ASSUME NEW p \in Periods
  PROVE  /\ p.first \in Int /\ p.last \in Int /\ p.first <= p.last
         /\ p.first .. p.last \subseteq Days
         /\ Start(p) \in Int /\ End(p) \in Int /\ Start(p) <= End(p)
<1>1. PICK m \in Months, n \in {1, 3} :
           /\ m + n \in Months
           /\ p.first = MonthStart[m] /\ p.last = MonthStart[m + n] - 1
           /\ MonthStart[m] .. MonthStart[m + n] \subseteq Days
  BY PeriodIsMonths
<1>2. /\ m \in Int /\ m < m + n /\ MonthStart[m] \in Int /\ MonthStart[m + n] \in Int
      /\ MonthStart[m] < MonthStart[m + n]
  BY <1>1, CalendarAssumption
<1>3. p.first \in Int /\ p.last \in Int /\ p.first <= p.last /\ p.first .. p.last \subseteq Days
  BY <1>1, <1>2
<1>4. p.first \in Days /\ p.last \in Days BY <1>3
<1>5. Start(p) \in Int /\ End(p) \in Int BY <1>4, KeyIsInt DEF Start, End
<1>6. Start(p) <= End(p) BY <1>3, <1>4, KeysInOrder DEF Start, End
<1> QED BY <1>3, <1>5, <1>6

-----------------------------------------------------------------------------
(* The loop visits the days from the first to the last seen; the key of    *)
(* each is of the period, and on one side of UTC that of the day.          *)
LEMMA LoopFacts ==
  ASSUME NEW p \in Periods
  PROVE  /\ p.first \in Int /\ LastSeen(p) \in p.first .. p.last
         /\ p.first .. LastSeen(p) \subseteq Days
         /\ LoopDays(p) = p.first .. LastSeen(p)
         /\ \A d \in p.first .. LastSeen(p) :
              /\ Key(p, d) \in Start(p) .. End(p) /\ Key(p, d) \in Int
              /\ OneSideOfUtc => Key(p, d) = DateKey(d)
<1>1. /\ p.first \in Int /\ p.last \in Int /\ p.first <= p.last /\ p.first .. p.last \subseteq Days
      /\ p.first \in Days /\ p.last \in Days
      /\ Start(p) \in Int /\ End(p) \in Int
  BY PeriodFacts
<1>2. Midnight(p.last) \in Int BY <1>1, KeyIsInt
<1>3. PICK top \in p.first .. p.last :
        /\ LoopDays(p) = p.first .. top
        /\ top = IF Cursor(p.first, p.last) <= Midnight(p.last) THEN p.last ELSE p.last - 1
  <2> DEFINE lo == p.first
             hi == p.last
             end == Midnight(p.last)
  <2>1. /\ lo \in Int /\ hi \in Int /\ lo <= hi /\ lo .. hi \subseteq Days
        /\ end \in Int /\ end = Midnight(hi)
    BY <1>1, <1>2
  <2>2. LoopDays(p) = {d \in lo .. hi : Cursor(lo, d) <= end} BY DEF LoopDays
  <2> HIDE DEF lo, hi, end
  <2>3. Midnight(hi) <= end BY <2>1
  <2>4. \E top \in lo .. hi :
          /\ {d \in lo .. hi : Cursor(lo, d) <= end} = lo .. top
          /\ top = IF Cursor(lo, hi) <= end THEN hi ELSE hi - 1
    BY <2>1, <2>3, LoopIsInterval
  <2>5. \E top \in lo .. hi :
          /\ LoopDays(p) = lo .. top
          /\ top = IF Cursor(lo, hi) <= end THEN hi ELSE hi - 1
    BY <2>2, <2>4
  <2> QED BY <2>5, Zenon DEF lo, hi, end
<1>4. top = LastSeen(p)
  <2>1. Cursor(p.first, p.last) <= Midnight(p.last)
          <=> ~(p.last \notin Skips /\ (p.first .. p.last) \cap Skips # {})
    <3> DEFINE c == Moved(p.last, p.first .. p.last)
    <3>1. /\ c \in Int /\ Midnight(p.last) \in Int /\ Hour \in Nat \ {0}
          /\ c = Midnight(p.last) + IF p.last \notin Skips /\ (p.first .. p.last) \cap Skips # {} THEN Hour ELSE 0
      BY <1>1, MovedIsNear, CalendarAssumption DEF Moved
    <3> HIDE DEF c
    <3>2. c <= Midnight(p.last) <=> ~(p.last \notin Skips /\ (p.first .. p.last) \cap Skips # {})
      BY <3>1
    <3> QED BY <3>2 DEF c, Cursor
  <2> QED BY <1>3, <2>1 DEF LastSeen
<1>5. ASSUME NEW d \in p.first .. top
      PROVE  /\ Key(p, d) \in Start(p) .. End(p) /\ Key(p, d) \in Int
             /\ OneSideOfUtc => Key(p, d) = DateKey(d)
  <2> DEFINE c == Cursor(p.first, d)
  <2>1. d \in Days /\ d \in LoopDays(p) /\ p.first <= d /\ d \in Int BY <1>1, <1>3
  <2>2. c <= Midnight(p.last) BY <2>1 DEF LoopDays
  <2>3. c \in Int /\ Midnight(d) \in Int /\ Midnight(d) <= c /\ Key(p, d) \in Int
    BY <2>1, MovedIsNear, MovedKeyIsInt DEF Cursor, Key
  <2>4. Midnight(p.first) <= Midnight(d) /\ Midnight(p.first) \in Int
    BY <1>1, <2>1, MidnightsInOrder, KeyIsInt
  <2>5. DayTicks \in Nat \ {0} BY CalendarAssumption
  <2>6. Key(p, d) = c \div DayTicks BY DEF Key, UtcDay
  <2>7. Start(p) = Midnight(p.first) \div DayTicks /\ End(p) = Midnight(p.last) \div DayTicks
    BY DEF Start, End, DateKey, UtcDay
  <2> HIDE DEF c
  <2>8. Midnight(p.first) \div DayTicks <= c \div DayTicks
    BY <2>3, <2>4, <2>5, DivInOrder
  <2>9. c \div DayTicks <= Midnight(p.last) \div DayTicks
    BY <1>2, <2>2, <2>3, <2>5, DivInOrder
  <2>10. OneSideOfUtc => Key(p, d) = DateKey(d) BY <2>1, MovedKey DEF Key, Cursor
  <2> QED BY <1>1, <2>3, <2>6, <2>7, <2>8, <2>9, <2>10
<1> QED BY <1>1, <1>3, <1>4, <1>5

(* The running balance starts from the opening and adds each day's net.    *)
LEMMA RunningBalanceAdds ==
  ASSUME NEW p \in Periods, NEW S, Counted(S), NEW opening \in Int
  PROVE  LET b == RunningBalance(p, S, opening) IN
         /\ b \in [p.first - 1 .. LastSeen(p) -> Int]
         /\ b[p.first - 1] = opening
         /\ \A d \in p.first .. LastSeen(p) : b[d] = b[d - 1] + Net(On(S, Key(p, d)))
<1> DEFINE lo == p.first - 1
           hi == LastSeen(p)
           dom == {p.first - 1} \cup LoopDays(p)
           F == [x \in (lo + 1 .. hi) \X Int |-> x[2] + Net(On(S, Key(p, x[1])))]
           Is(g) == g = [d \in dom |->
                      IF d < p.first THEN opening ELSE g[d - 1] + Net(On(S, Key(p, d)))]
<1>1. p.first \in Int /\ LastSeen(p) \in Int /\ p.first <= LastSeen(p) BY LoopFacts
<1>2. dom = lo .. hi BY <1>1, LoopFacts
<1>3. \A day : Net(On(S, day)) \in Int
  <2>1. \A day : On(S, day) \in SUBSET S BY DEF On
  <2> QED BY <2>1, CountedSubset, NetIsInt
<1>4. F \in [(lo + 1 .. hi) \X Int -> Int] BY <1>3
<1>5. PICK g \in [lo .. hi -> Int] : Follows(lo, hi, opening, F, g)
  <2>1. lo \in Int /\ hi \in Int BY <1>1
  <2> HIDE DEF F, lo, hi
  <2> QED BY <2>1, <1>4, FollowsExists
<1>6. Is(g)
  <2>1. \A i \in lo .. hi : g[i] = IF i = lo THEN opening ELSE F[<<i, g[i - 1]>>]
    BY <1>5, Zenon DEF Follows
  <2>2. ASSUME NEW i \in lo .. hi
        PROVE  g[i] = IF i < p.first THEN opening ELSE g[i - 1] + Net(On(S, Key(p, i)))
    <3>1. CASE i = lo
      <4>1. i < p.first BY <3>1, <1>1
      <4>2. g[i] = opening
        <5> HIDE DEF F, lo
        <5> QED BY <3>1, <2>1
      <4> QED BY <4>1, <4>2
    <3>2. CASE i # lo
      <4>1. ~(i < p.first) /\ i \in lo + 1 .. hi /\ i - 1 \in lo .. hi BY <3>2, <1>1
      <4>2. g[i - 1] \in Int BY <4>1
      <4>3. F[<<i, g[i - 1]>>] = g[i - 1] + Net(On(S, Key(p, i))) BY <4>1, <4>2
      <4> HIDE DEF F
      <4> QED BY <4>1, <4>3, <2>1, <3>2
    <3> QED BY <3>1, <3>2
  <2>3. g = [i \in lo .. hi |-> g[i]] OBVIOUS
  <2> QED BY <2>2, <2>3, <1>2
<1> DEFINE b == RunningBalance(p, S, opening)
<1>7. Is(b)
  <2>1. b = CHOOSE h : Is(h) BY DEF RunningBalance
  <2> HIDE DEF Is, b
  <2> QED BY <2>1, <1>6, Zenon
<1>8. \A d \in lo .. hi : b[d] = IF d < p.first THEN opening ELSE b[d - 1] + Net(On(S, Key(p, d)))
  <2> HIDE DEF b
  <2> QED BY <1>7, <1>2, Zenon
<1>9. DOMAIN b = lo .. hi /\ b = [d \in lo .. hi |-> b[d]]
  <2> HIDE DEF b
  <2>1. DOMAIN b = dom /\ b = [d \in dom |-> b[d]] BY <1>7, Zenon
  <2> QED BY <2>1, <1>2
<1> HIDE DEF b, F, Is, dom
<1>10. b[lo] = opening BY <1>8, <1>1
<1>11. \A d \in p.first .. LastSeen(p) : b[d] = b[d - 1] + Net(On(S, Key(p, d))) BY <1>8, <1>1
<1>12. \A d \in lo .. hi : b[d] \in Int
  <2> DEFINE T == {d \in lo .. hi : b[d] \in Int}
  <2>1. lo \in T BY <1>1, <1>10
  <2>2. ASSUME NEW d \in lo + 1 .. hi, d - 1 \in T PROVE d \in T
    <3>1. d \in p.first .. LastSeen(p) BY <1>1
    <3>2. b[d - 1] \in Int /\ Net(On(S, Key(p, d))) \in Int BY <2>2, <1>3
    <3>3. b[d] = b[d - 1] + Net(On(S, Key(p, d))) BY <3>1, <1>11
    <3> QED BY <3>1, <3>2, <3>3, <1>1
  <2>3. lo .. hi \subseteq T
    <3>1. lo \in Int /\ hi \in Int BY <1>1
    <3> HIDE DEF T, lo, hi
    <3> QED BY <2>1, <2>2, <3>1, AlongInterval
  <2> QED BY <2>3
<1>13. b \in [lo .. hi -> Int] BY <1>9, <1>12
<1> QED BY <1>10, <1>11, <1>13 DEF b


(* A day without income: the loop pushes its key.                          *)
Dry(p, S, d)    == Total(Only("income", On(S, Key(p, d)))) <= 0
DryKeys(p, S, D) == {Key(p, d) : d \in {e \in D : Dry(p, S, e)}}

LEMMA DryKeysGrow ==
  ASSUME NEW p, NEW S, NEW lo \in Int, NEW d \in Int, lo <= d
  PROVE  DryKeys(p, S, lo .. d) =
           DryKeys(p, S, lo .. d - 1) \cup (IF Dry(p, S, d) THEN {Key(p, d)} ELSE {})
<1>1. lo .. d = (lo .. d - 1) \cup {d} OBVIOUS
<1> QED BY <1>1 DEF DryKeys

(* The list grows by one key or not at all at each turn. *)
LEMMA LowIncomeDaysGrow ==
  ASSUME NEW p \in Periods, NEW S
  PROVE  \E l \in [p.first - 1 .. LastSeen(p) -> Seq(Int)] :
           /\ l[p.first - 1] = << >>
           /\ \A d \in p.first .. LastSeen(p) :
                l[d] = IF Dry(p, S, d) THEN Append(l[d - 1], Key(p, d)) ELSE l[d - 1]
           /\ LowIncomeDays(p, S) = l[LastSeen(p)]
<1> DEFINE lo == p.first - 1
           hi == LastSeen(p)
           dom == {p.first - 1} \cup LoopDays(p)
           Step(d, v) == IF Dry(p, S, d) THEN Append(v, Key(p, d)) ELSE v
           F == [x \in (lo + 1 .. hi) \X Seq(Int) |-> Step(x[1], x[2])]
           Is(g) == g = [d \in dom |->
                      IF d < p.first THEN << >>
                      ELSE IF Dry(p, S, d) THEN Append(g[d - 1], Key(p, d))
                      ELSE g[d - 1]]
<1>1. p.first \in Int /\ LastSeen(p) \in Int /\ p.first <= LastSeen(p) /\ p.first .. LastSeen(p) \subseteq Days
  BY LoopFacts
<1>2. dom = lo .. hi BY <1>1, LoopFacts
<1>3. \A d \in p.first .. LastSeen(p) : Key(p, d) \in Int BY LoopFacts
<1>4. F \in [(lo + 1 .. hi) \X Seq(Int) -> Seq(Int)]
  <2>1. ASSUME NEW d \in lo + 1 .. hi, NEW v \in Seq(Int) PROVE Step(d, v) \in Seq(Int)
    <3>1. Key(p, d) \in Int BY <1>1, <1>3
    <3> QED BY <3>1
  <2> HIDE DEF Step
  <2> QED BY <2>1
<1>5. PICK g \in [lo .. hi -> Seq(Int)] : Follows(lo, hi, << >>, F, g)
  <2>1. lo \in Int /\ hi \in Int /\ << >> \in Seq(Int) BY <1>1
  <2> HIDE DEF F, lo, hi
  <2> QED BY <2>1, <1>4, FollowsExists
<1>6. Is(g)
  <2>1. \A i \in lo .. hi : g[i] = IF i = lo THEN << >> ELSE F[<<i, g[i - 1]>>]
    BY <1>5, Zenon DEF Follows
  <2>2. ASSUME NEW i \in lo .. hi
        PROVE  g[i] = IF i < p.first THEN << >> ELSE Step(i, g[i - 1])
    <3>1. CASE i = lo
      <4>1. i < p.first BY <3>1, <1>1
      <4>2. g[i] = << >>
        <5> HIDE DEF F, lo
        <5> QED BY <3>1, <2>1
      <4> QED BY <4>1, <4>2
    <3>2. CASE i # lo
      <4>1. ~(i < p.first) /\ i \in lo + 1 .. hi /\ i - 1 \in lo .. hi BY <3>2, <1>1
      <4>2. g[i - 1] \in Seq(Int) BY <4>1
      <4>3. F[<<i, g[i - 1]>>] = Step(i, g[i - 1])
        <5> HIDE DEF Step
        <5> QED BY <4>1, <4>2
      <4> HIDE DEF F, Step
      <4> QED BY <4>1, <4>3, <2>1, <3>2
    <3> QED BY <3>1, <3>2
  <2>3. g = [i \in lo .. hi |-> g[i]] OBVIOUS
  <2>4. g = [i \in dom |-> IF i < p.first THEN << >> ELSE Step(i, g[i - 1])]
    <3> HIDE DEF Step, dom, lo, hi
    <3> QED BY <2>2, <2>3, <1>2
  <2> HIDE DEF dom
  <2> QED BY <2>4, Zenon
<1> DEFINE b == CHOOSE h : Is(h)
<1>7. Is(b)
  <2> HIDE DEF Is
  <2> QED BY <1>6, Zenon
<1>8. \A d \in lo .. hi : b[d] = IF d < p.first THEN << >> ELSE Step(d, b[d - 1])
  <2> HIDE DEF b
  <2> QED BY <1>7, <1>2, Zenon
<1>9. b = [d \in lo .. hi |-> b[d]]
  <2> HIDE DEF b
  <2>1. b = [d \in dom |-> b[d]] BY <1>7, Zenon
  <2> QED BY <2>1, <1>2
<1>10. LowIncomeDays(p, S) = b[LastSeen(p)]
  <2>1. LowIncomeDays(p, S) = b[Max(LoopDays(p))] BY Zenon DEF LowIncomeDays, Dry
  <2>2. Max(LoopDays(p)) = LastSeen(p) BY <1>1, LoopFacts DEF Max
  <2> QED BY <2>1, <2>2
<1> HIDE DEF b, F, Is, dom
<1>11. b[lo] = << >> BY <1>8, <1>1
<1>12. \A d \in p.first .. LastSeen(p) : b[d] = Step(d, b[d - 1])
  <2> HIDE DEF Step
  <2> QED BY <1>8, <1>1
<1>13. \A d \in lo .. hi : b[d] \in Seq(Int)
  <2> DEFINE T == {d \in lo .. hi : b[d] \in Seq(Int)}
  <2>1. lo \in T
    <3>1. lo \in lo .. hi /\ << >> \in Seq(Int) BY <1>1
    <3> HIDE DEF lo
    <3> QED BY <3>1, <1>11
  <2>2. ASSUME NEW d \in lo + 1 .. hi, d - 1 \in T PROVE d \in T
    <3>1. d \in p.first .. LastSeen(p) /\ Key(p, d) \in Int BY <1>1, <1>3
    <3>2. b[d - 1] \in Seq(Int) BY <2>2
    <3>3. b[d] = Step(d, b[d - 1]) BY <3>1, <1>12
    <3>4. Step(d, b[d - 1]) \in Seq(Int) BY <3>1, <3>2
    <3>5. d \in lo .. hi BY <1>1
    <3> HIDE DEF Step, lo, hi
    <3> QED BY <3>3, <3>4, <3>5
  <2>3. lo .. hi \subseteq T
    <3>1. lo \in Int /\ hi \in Int BY <1>1
    <3> HIDE DEF T, lo, hi
    <3> QED BY <2>1, <2>2, <3>1, AlongInterval
  <2> QED BY <2>3
<1>14. b \in [lo .. hi -> Seq(Int)] BY <1>9, <1>13
<1> QED BY <1>10, <1>11, <1>12, <1>14


(* Appending to a sequence adds one value to those it holds.               *)
LEMMA AppendedValues ==
  ASSUME NEW s \in Seq(Int), NEW k \in Int
  PROVE  {Append(s, k)[i] : i \in DOMAIN Append(s, k)} = {s[i] : i \in DOMAIN s} \cup {k}
<1> DEFINE t == Append(s, k)
<1>1. Len(s) \in Nat /\ DOMAIN s = 1 .. Len(s) /\ DOMAIN t = 1 .. Len(s) + 1 OBVIOUS
<1>2. \A i \in DOMAIN s : t[i] = s[i] OBVIOUS
<1>3. t[Len(s) + 1] = k OBVIOUS
<1>4. DOMAIN t = DOMAIN s \cup {Len(s) + 1} BY <1>1
<1> HIDE DEF t
<1>5. {t[i] : i \in DOMAIN t} \subseteq {s[i] : i \in DOMAIN s} \cup {k} BY <1>2, <1>3, <1>4, Zenon
<1>6. {s[i] : i \in DOMAIN s} \cup {k} \subseteq {t[i] : i \in DOMAIN t} BY <1>2, <1>3, <1>4, Zenon
<1> QED BY <1>5, <1>6 DEF t

(* The list holds the keys of the days without income; where the keys      *)
(* follow one another it holds each once.                                  *)
LEMMA LowIncomeDaysAre ==
  ASSUME NEW p \in Periods, NEW S
  PROVE  LET low == LowIncomeDays(p, S) IN
         /\ low \in Seq(Int)
         /\ Len(low) \in 0 .. LastSeen(p) - p.first + 1
         /\ {low[i] : i \in DOMAIN low} = DryKeys(p, S, p.first .. LastSeen(p))
         /\ OneSideOfUtc => Len(low) = Cardinality(DryKeys(p, S, p.first .. LastSeen(p)))
<1>1. p.first \in Int /\ LastSeen(p) \in Int /\ p.first <= LastSeen(p) /\ p.first .. LastSeen(p) \subseteq Days
  BY LoopFacts
<1> DEFINE lo == p.first - 1
           hi == LastSeen(p)
<1>2. PICK l \in [lo .. hi -> Seq(Int)] :
        /\ l[lo] = << >>
        /\ \A d \in p.first .. LastSeen(p) :
             l[d] = IF Dry(p, S, d) THEN Append(l[d - 1], Key(p, d)) ELSE l[d - 1]
        /\ LowIncomeDays(p, S) = l[LastSeen(p)]
  BY LowIncomeDaysGrow
<1> DEFINE Right(d) ==
             /\ Len(l[d]) \in 0 .. d - lo
             /\ {l[d][i] : i \in DOMAIN l[d]} = DryKeys(p, S, p.first .. d)
             /\ IsFiniteSet(DryKeys(p, S, p.first .. d))
             /\ OneSideOfUtc => Len(l[d]) = Cardinality(DryKeys(p, S, p.first .. d))
           T == {d \in lo .. hi : Right(d)}
<1>3. lo \in T
  <2>1. lo \in lo .. hi /\ lo - lo = 0 BY <1>1
  <2>2. DryKeys(p, S, p.first .. lo) = {}
    <3>1. p.first .. lo = {} BY <1>1
    <3> QED BY <3>1 DEF DryKeys
  <2>3. Len(l[lo]) = 0 /\ DOMAIN l[lo] = {} BY <1>2
  <2>4. IsFiniteSet({}) /\ Cardinality({}) = 0 BY FS_EmptySet
  <2>5. Right(lo)
    <3>1. {l[lo][i] : i \in DOMAIN l[lo]} = {} BY <2>3
    <3>2. Len(l[lo]) \in 0 .. lo - lo BY <2>1, <2>3
    <3> HIDE DEF lo
    <3> QED BY <2>2, <2>3, <2>4, <3>1, <3>2
  <2> QED BY <2>1, <2>5
<1>4. ASSUME NEW d \in lo + 1 .. hi, d - 1 \in T PROVE d \in T
  <2>1. d \in p.first .. LastSeen(p) /\ d - 1 \in lo .. hi /\ d \in lo .. hi BY <1>1
  <2>2. Right(d - 1) BY <1>4
  <2>3. l[d - 1] \in Seq(Int) BY <2>1
  <2>4. Key(p, d) \in Int BY <2>1, LoopFacts
  <2>5. DryKeys(p, S, p.first .. d) =
          DryKeys(p, S, p.first .. d - 1) \cup (IF Dry(p, S, d) THEN {Key(p, d)} ELSE {})
    BY <2>1, <1>1, DryKeysGrow
  <2>6. CASE ~Dry(p, S, d)
    <3>1. l[d] = l[d - 1] BY <2>1, <2>6, <1>2
    <3>2. DryKeys(p, S, p.first .. d) = DryKeys(p, S, p.first .. d - 1) BY <2>5, <2>6
    <3>3. Len(l[d]) \in 0 .. d - lo BY <2>2, <3>1, <1>1
    <3>4. Right(d) BY <2>2, <3>1, <3>2, <3>3
    <3> QED BY <2>1, <3>4
  <2>7. CASE Dry(p, S, d)
    <3> DEFINE s == l[d - 1]
               k == Key(p, d)
               K == DryKeys(p, S, p.first .. d - 1)
    <3>1. l[d] = Append(s, k) BY <2>1, <2>7, <1>2
    <3>2. DryKeys(p, S, p.first .. d) = K \cup {k} BY <2>5, <2>7
    <3>3. Len(l[d]) = Len(s) + 1 /\ DOMAIN l[d] = 1 .. Len(s) + 1 /\ Len(s) \in Nat
          /\ \A i \in 1 .. Len(s) + 1 : l[d][i] = IF i <= Len(s) THEN s[i] ELSE k
      BY <3>1, <2>3, <2>4
    <3>4. Len(l[d]) \in 0 .. d - lo
      <4>1. Len(s) \in 0 .. (d - 1) - lo BY <2>2
      <4>2. Len(l[d]) = Len(s) + 1 /\ d \in Int /\ lo \in Int BY <3>3, <1>1
      <4> HIDE DEF s, lo
      <4> QED BY <4>1, <4>2
    <3>5. {l[d][i] : i \in DOMAIN l[d]} = K \cup {k}
      <4>1. {s[i] : i \in DOMAIN s} = K BY <2>2
      <4>2. s \in Seq(Int) /\ k \in Int BY <2>3, <2>4
      <4> HIDE DEF s, k, K
      <4>3. {Append(s, k)[i] : i \in DOMAIN Append(s, k)} = {s[i] : i \in DOMAIN s} \cup {k}
        BY <4>2, AppendedValues
      <4> QED BY <3>1, <4>1, <4>3
    <3>6. IsFiniteSet(K) BY <2>2
    <3>7. IsFiniteSet(K \cup {k}) BY <3>6, FS_AddElement
    <3>8. ASSUME OneSideOfUtc PROVE Len(l[d]) = Cardinality(K \cup {k})
      <4>1. k \notin K
        <5>1. ASSUME NEW e \in p.first .. d - 1 PROVE Key(p, e) # k
          <6>0. e \in p.first .. LastSeen(p) /\ e \in Int /\ d \in Int /\ e # d
            <7>1. d \in Int /\ d <= LastSeen(p) BY <2>1, <1>1
            <7> HIDE DEF s, k, K, lo, hi
            <7> QED BY <5>1, <7>1, <1>1
          <6>1. e \in Days /\ d \in Days /\ e \in Int /\ d \in Int /\ e # d
            <7> HIDE DEF s, k, K, lo, hi
            <7> QED BY <6>0, <2>1, <1>1
          <6>2. Key(p, d) = Key(p, e) + (d - e) /\ Key(p, e) \in Int
            BY <6>1, <3>8, <2>1, KeysFollow, LoopFacts
          <6> QED BY <6>1, <6>2
        <5> QED BY <5>1 DEF DryKeys
      <4>2. Cardinality(K \cup {k}) = Cardinality(K) + 1 BY <4>1, <3>6, FS_AddElement
      <4>3. Len(s) = Cardinality(K) BY <2>2, <3>8
      <4> QED BY <4>2, <4>3, <3>3
    <3>9. Right(d) BY <3>2, <3>4, <3>5, <3>7, <3>8
    <3> QED BY <2>1, <3>9
  <2> QED BY <2>6, <2>7
<1>5. lo .. hi \subseteq T
  <2>1. lo \in Int /\ hi \in Int BY <1>1
  <2> HIDE DEF T, lo, hi
  <2> QED BY <1>3, <1>4, <2>1, AlongInterval
<1>6. Right(hi) /\ hi - lo = LastSeen(p) - p.first + 1
  <2>1. hi \in lo .. hi /\ hi - lo = LastSeen(p) - p.first + 1 BY <1>1
  <2> HIDE DEF Right, lo, hi
  <2> QED BY <2>1, <1>5
<1>7. l[hi] \in Seq(Int) BY <1>1
<1> QED BY <1>6, <1>7, <1>2


-----------------------------------------------------------------------------
(* A saved row, and the row that a run of createClosing computes.          *)

RowsOf(p) ==
  [incomeTotal        : Nat,
   expenseTotal       : Nat,
   netTotal           : Int,
   startingBalance    : Int,
   endingBalance      : Int,
   dayOfCashShort     : (Start(p) .. End(p)) \cup {None},
   lowIncomeDays      : Seq(Int),
   lowIncomeDaysCount : 0 .. p.last - p.first + 1,
   healthStatus       : {"critical", "warning", "healthy"}]

LEMMA ColumnsAre ==
  Columns = {"incomeTotal", "expenseTotal", "netTotal", "startingBalance", "endingBalance",
             "dayOfCashShort", "lowIncomeDays", "lowIncomeDaysCount", "healthStatus"}
BY DEF Columns, Summary

(* The first day that ends below zero, if any: a day of the period. *)
LEMMA CashShortIsADay ==
  ASSUME NEW p \in Periods, NEW b,
         NEW short, short = {d \in LoopDays(p) : b[d] < 0}, short # {}
  PROVE  /\ Min(short) \in short /\ \A d \in short : Min(short) <= d
         /\ Min(short) \in p.first .. LastSeen(p)
         /\ Key(p, Min(short)) \in Start(p) .. End(p)
<1>1. /\ p.first \in Int /\ LastSeen(p) \in Int /\ LoopDays(p) = p.first .. LastSeen(p)
      /\ \A d \in p.first .. LastSeen(p) : Key(p, d) \in Start(p) .. End(p)
  BY LoopFacts, PeriodFacts
<1>2. short \in SUBSET (p.first .. LastSeen(p)) BY <1>1
<1>3. Min(short) \in short /\ \A d \in short : Min(short) <= d BY <1>1, <1>2, MinIsLeast
<1>4. Min(short) \in p.first .. LastSeen(p) BY <1>2, <1>3
<1> QED BY <1>1, <1>3, <1>4

Adds(row) ==
  /\ row.netTotal = row.incomeTotal - row.expenseTotal
  /\ row.endingBalance = row.startingBalance + row.netTotal
  /\ row.lowIncomeDaysCount = Len(row.lowIncomeDays)
  /\ (row.healthStatus = "critical") <=> (row.dayOfCashShort # None)
  /\ row.healthStatus = "healthy" => row.netTotal >= 0

LEMMA SummaryIsRow ==
  ASSUME NEW p \in Periods, NEW S, Counted(S), NEW opening \in Int
  PROVE  Summary(p, S, opening) \in RowsOf(p) /\ Adds(Summary(p, S, opening))
<1> DEFINE income  == Total(Only("income", S))
           expense == Total(Only("expense", S))
           b       == RunningBalance(p, S, opening)
           short   == {d \in LoopDays(p) : b[d] < 0}
           day     == IF short = {} THEN None ELSE Key(p, Min(short))
           low     == LowIncomeDays(p, S)
           health  == HealthOf(day, income - expense)
           row     == [incomeTotal        |-> income,
                       expenseTotal       |-> expense,
                       netTotal           |-> income - expense,
                       startingBalance    |-> opening,
                       endingBalance      |-> opening + income - expense,
                       dayOfCashShort     |-> day,
                       lowIncomeDays      |-> low,
                       lowIncomeDaysCount |-> Len(low),
                       healthStatus       |-> health]
<1>1. Summary(p, S, opening) = row BY Zenon DEF Summary
<1>2. income \in Nat /\ expense \in Nat BY OnlyIsNat
<1>3. low \in Seq(Int) /\ Len(low) \in 0 .. p.last - p.first + 1
  BY LowIncomeDaysAre, LoopFacts, PeriodFacts
<1>4. day \in (Start(p) .. End(p)) \cup {None}
  <2> HIDE DEF b
  <2> QED BY CashShortIsADay
<1>5. /\ health \in {"critical", "warning", "healthy"}
      /\ health = "critical" <=> day # None
      /\ health = "healthy" => ~(income - expense < 0)
  <2> HIDE DEF day, income, expense
  <2> QED BY DEF HealthOf
<1> HIDE DEF income, expense, low, day, health
<1>6. row \in RowsOf(p)
  <2>1. income - expense \in Int /\ opening + income - expense \in Int BY <1>2
  <2> QED BY <1>2, <1>3, <1>4, <1>5, <2>1 DEF RowsOf
<1>7. Adds(row)
  <2>1. opening + income - expense = opening + (income - expense) BY <1>2
  <2>2. ~(income - expense < 0) => income - expense >= 0 BY <1>2
  <2> QED BY <1>5, <2>1, <2>2 DEF Adds
<1> QED BY <1>1, <1>6, <1>7


(* Where the keys follow one another, the running balance of a day is the  *)
(* opening and the net of all movements up to that day.                    *)
LEMMA BalanceIsUpToDay ==
  ASSUME OneSideOfUtc, NEW p \in Periods, NEW S, Counted(S), NEW opening \in Int,
         \A m \in S : m.day \in Int /\ Start(p) <= m.day
  PROVE  \A d \in p.first .. LastSeen(p) :
           RunningBalance(p, S, opening)[d] = opening + Net(UpTo(S, DateKey(d)))
<1> DEFINE b  == RunningBalance(p, S, opening)
           lo == p.first - 1
           hi == LastSeen(p)
           key(d) == Start(p) + (d - p.first)
           T  == {d \in lo .. hi : b[d] = opening + Net(UpTo(S, key(d)))}
<1>1. /\ p.first \in Int /\ LastSeen(p) \in Int /\ p.first <= LastSeen(p)
      /\ p.first .. LastSeen(p) \subseteq Days /\ Start(p) \in Int
  BY PeriodFacts, LoopFacts
<1>2. ASSUME NEW d \in p.first .. LastSeen(p) PROVE DateKey(d) = key(d) /\ Key(p, d) = key(d)
  <2>1. d \in Days /\ p.first \in Days BY <1>1
  <2>2. DateKey(d) = key(d) BY <2>1, KeysFollow DEF Start
  <2>3. Key(p, d) = DateKey(d) BY LoopFacts
  <2> QED BY <2>2, <2>3
<1>3. /\ b[lo] = opening
      /\ \A d \in p.first .. LastSeen(p) : b[d] = b[d - 1] + Net(On(S, Key(p, d)))
  BY RunningBalanceAdds
<1> HIDE DEF b
<1>4. \A day : Net(UpTo(S, day)) \in Int /\ Net(On(S, day)) \in Int
  <2>1. \A day : UpTo(S, day) \in SUBSET S /\ On(S, day) \in SUBSET S BY DEF UpTo, On
  <2> QED BY <2>1, CountedSubset, NetIsInt
<1>5. lo \in T
  <2>1. key(lo) = Start(p) - 1 /\ lo \in lo .. hi BY <1>1
  <2>2. UpTo(S, Start(p) - 1) = {} BY <1>1 DEF UpTo
  <2>3. Net(UpTo(S, key(lo))) = 0 BY <2>1, <2>2, NetOfNothing
  <2>4. opening = opening + 0 OBVIOUS
  <2> HIDE DEF key, lo
  <2> QED BY <1>3, <2>1, <2>3, <2>4
<1>6. ASSUME NEW d \in lo + 1 .. hi, d - 1 \in T PROVE d \in T
  <2>1. d \in p.first .. LastSeen(p) /\ d \in lo .. hi /\ key(d - 1) = key(d) - 1 /\ key(d) \in Int
    BY <1>1
  <2>2. b[d - 1] = opening + Net(UpTo(S, key(d) - 1)) BY <1>6, <2>1
  <2>3. b[d] = b[d - 1] + Net(On(S, key(d)))
    <3>1. Key(p, d) = key(d) BY <1>2, <2>1
    <3> QED BY <1>3, <2>1, <3>1
  <2>4. Net(UpTo(S, key(d))) = Net(UpTo(S, key(d) - 1)) + Net(On(S, key(d)))
    <3> HIDE DEF key
    <3> QED BY <2>1, NetUpToNextDay
  <2>5. Net(UpTo(S, key(d) - 1)) \in Int /\ Net(On(S, key(d))) \in Int BY <1>4
  <2> HIDE DEF key, lo
  <2> QED BY <2>1, <2>2, <2>3, <2>4, <2>5
<1>7. lo .. hi \subseteq T
  <2>1. lo \in Int /\ hi \in Int BY <1>1
  <2> HIDE DEF T, lo, hi
  <2> QED BY <1>5, <1>6, <2>1, AlongInterval
<1>8. ASSUME NEW d \in p.first .. LastSeen(p) PROVE b[d] = opening + Net(UpTo(S, DateKey(d)))
  <2>1. d \in lo .. hi BY <1>1
  <2>2. b[d] = opening + Net(UpTo(S, key(d))) BY <2>1, <1>7
  <2> QED BY <2>2, <1>2
<1> QED BY <1>8 DEF b

(* The keys of the days that the loop sees are the UTC days from the       *)
(* period's start to the key of the last of them.                          *)
LEMMA KeysArePeriod ==
  ASSUME OneSideOfUtc, NEW p \in Periods
  PROVE  /\ DateKey(LastSeen(p)) \in Start(p) .. End(p)
         /\ \A d \in p.first .. LastSeen(p) : DateKey(d) \in Start(p) .. DateKey(LastSeen(p))
         /\ \A k \in Start(p) .. DateKey(LastSeen(p)) :
              \E d \in p.first .. LastSeen(p) : DateKey(d) = k
<1>1. /\ p.first \in Int /\ LastSeen(p) \in Int /\ p.first <= LastSeen(p)
      /\ p.first .. LastSeen(p) \subseteq Days /\ Start(p) \in Int
  BY PeriodFacts, LoopFacts
<1>2. ASSUME NEW d \in p.first .. LastSeen(p) PROVE DateKey(d) = Start(p) + (d - p.first)
  <2>1. d \in Days /\ p.first \in Days BY <1>1
  <2> QED BY <2>1, KeysFollow DEF Start
<1>3. LastSeen(p) \in p.first .. LastSeen(p) BY <1>1
<1>4. DateKey(LastSeen(p)) = Start(p) + (LastSeen(p) - p.first) BY <1>2, <1>3
<1>5. DateKey(LastSeen(p)) \in Start(p) .. End(p)
  <2>1. Key(p, LastSeen(p)) \in Start(p) .. End(p) /\ Key(p, LastSeen(p)) = DateKey(LastSeen(p))
    BY <1>3, LoopFacts
  <2> QED BY <2>1
<1>6. ASSUME NEW k \in Start(p) .. DateKey(LastSeen(p))
      PROVE  \E d \in p.first .. LastSeen(p) : DateKey(d) = k
  <2> DEFINE d == p.first + (k - Start(p))
  <2>1. d \in p.first .. LastSeen(p) /\ Start(p) + (d - p.first) = k BY <1>1, <1>4
  <2> HIDE DEF d
  <2> QED BY <2>1, <1>2
<1>7. ASSUME NEW d \in p.first .. LastSeen(p)
      PROVE  DateKey(d) \in Start(p) .. DateKey(LastSeen(p))
  BY <1>1, <1>2, <1>4
<1> QED BY <1>5, <1>6, <1>7


(* The row of a run that read the ledger as it stands agrees with it.      *)
LEMMA SummaryIsExact ==
  ASSUME OneSideOfUtc, NEW p \in Periods, Counted(InRange(p)),
         \A m \in InRange(p) : m.day \in Int,
         NEW opening \in Openings(p), opening \in Int
  PROVE  Exact(p, Summary(p, InRange(p), opening))
<1> DEFINE due     == InRange(p)
           income  == Total(Only("income", due))
           expense == Total(Only("expense", due))
           b       == RunningBalance(p, due, opening)
           short   == {d \in LoopDays(p) : b[d] < 0}
           day     == IF short = {} THEN None ELSE Key(p, Min(short))
           low     == LowIncomeDays(p, due)
           row     == [incomeTotal        |-> income,
                       expenseTotal       |-> expense,
                       netTotal           |-> income - expense,
                       startingBalance    |-> opening,
                       endingBalance      |-> opening + income - expense,
                       dayOfCashShort     |-> day,
                       lowIncomeDays      |-> low,
                       lowIncomeDaysCount |-> Len(low),
                       healthStatus       |-> HealthOf(day, income - expense)]
           days    == Start(p) .. DateKey(LastSeen(p))
           upTo(k) == opening + Net(UpTo(due, k))
           Short   == {k \in days : upTo(k) < 0}
           Low     == {k \in days : ~\E m \in On(due, k) : m.type = "income" /\ m.amount > 0}
<1>1. Summary(p, due, opening) = row BY Zenon DEF Summary
<1>2. /\ p.first \in Int /\ LastSeen(p) \in Int /\ p.first .. LastSeen(p) \subseteq Days
      /\ Start(p) \in Int /\ DateKey(LastSeen(p)) \in Int /\ End(p) \in Int
      /\ LoopDays(p) = p.first .. LastSeen(p)
  BY PeriodFacts, LoopFacts, KeysArePeriod
<1>3. \A m \in due : m.day \in Int /\ Start(p) <= m.day /\ m.day <= End(p)
  BY DEF InRange, Between
<1>4. income \in Nat /\ expense \in Nat BY OnlyIsNat
<1>5. \A d \in p.first .. LastSeen(p) : b[d] = upTo(DateKey(d))
  <2> HIDE DEF due
  <2> QED BY <1>3, BalanceIsUpToDay DEF due
<1>6. /\ \A d \in p.first .. LastSeen(p) : DateKey(d) \in days
      /\ \A k \in days : \E d \in p.first .. LastSeen(p) : DateKey(d) = k
  BY KeysArePeriod
<1>7. (short = {}) <=> (Short = {})
  <2>1. ASSUME NEW d \in short PROVE DateKey(d) \in Short
    <3>1. d \in p.first .. LastSeen(p) /\ b[d] < 0 BY <1>2
    <3> HIDE DEF b, upTo, days
    <3> QED BY <3>1, <1>5, <1>6
  <2>2. ASSUME NEW k \in Short PROVE \E d \in short : TRUE
    <3>1. PICK d \in p.first .. LastSeen(p) : DateKey(d) = k
      <4> HIDE DEF days
      <4> QED BY <1>6
    <3>2. b[d] < 0 /\ d \in LoopDays(p)
      <4> HIDE DEF b
      <4> QED BY <3>1, <1>2, <1>5
    <3> QED BY <3>2
  <2> HIDE DEF short, Short
  <2> QED BY <2>1, <2>2
<1>8. short # {} => Min(Short) = Key(p, Min(short))
  <2> SUFFICES ASSUME short # {} PROVE Min(Short) = Key(p, Min(short))
    OBVIOUS
  <2> DEFINE f == Min(short)
  <2>1. f \in short /\ (\A d \in short : f <= d) /\ f \in p.first .. LastSeen(p)
    <3> HIDE DEF b
    <3> QED BY CashShortIsADay
  <2>2. Short \in SUBSET days /\ Short # {} BY <1>7
  <2>3. Min(Short) \in Short /\ \A k \in Short : Min(Short) <= k
    <3> HIDE DEF Short
    <3>1. days = Start(p) .. DateKey(LastSeen(p)) OBVIOUS
    <3> HIDE DEF days
    <3> QED BY <2>2, <1>2, <3>1, MinIsLeast
  <2>4. DateKey(f) \in Short
    <3>1. b[f] < 0 BY <2>1
    <3> HIDE DEF f, b, days
    <3> QED BY <3>1, <2>1, <1>5, <1>6
  <2>5. PICK e \in p.first .. LastSeen(p) : DateKey(e) = Min(Short)
    <3>1. Min(Short) \in days BY <2>3
    <3> HIDE DEF Short, days
    <3> QED BY <3>1, <1>6
  <2>6. e \in short
    <3>1. upTo(DateKey(e)) < 0 BY <2>3, <2>5
    <3> HIDE DEF b, upTo
    <3> QED BY <3>1, <1>2, <1>5
  <2>7. f <= e BY <2>1, <2>6
  <2>8. DateKey(f) <= DateKey(e)
    <3>1. f \in Days /\ e \in Days BY <2>1, <1>2
    <3> HIDE DEF f
    <3> QED BY <3>1, <2>7, KeysInOrder
  <2>9. Min(Short) <= DateKey(f) BY <2>3, <2>4
  <2>10. DateKey(f) \in Int /\ DateKey(e) \in Int
    <3>1. f \in Days /\ e \in Days BY <2>1, <1>2
    <3> HIDE DEF f
    <3> QED BY <3>1, KeyIsInt
  <2> HIDE DEF Short, f
  <2>11. DateKey(f) = DateKey(e) BY <2>5, <2>8, <2>9, <2>10
  <2>12. Key(p, f) = DateKey(f) BY <2>1, LoopFacts
  <2> QED BY <2>5, <2>11, <2>12 DEF f
<1>9. Low = DryKeys(p, due, p.first .. LastSeen(p))
  <2>1. ASSUME NEW k
        PROVE  (Total(Only("income", On(due, k))) <= 0)
                 <=> ~\E m \in On(due, k) : m.type = "income" /\ m.amount > 0
    <3> DEFINE D == Only("income", On(due, k))
    <3>1. Counted(D)
      <4>1. D \in SUBSET due BY DEF Only, On
      <4> HIDE DEF D, due
      <4> QED BY <4>1, CountedSubset DEF due
    <3>2. Total(D) \in Nat /\ (Total(D) > 0 <=> \E m \in D : m.amount > 0)
      <4> HIDE DEF D
      <4> QED BY <3>1, TotalIsNat, TotalIsPositive
    <3>3. (\E m \in D : m.amount > 0) <=> \E m \in On(due, k) : m.type = "income" /\ m.amount > 0
      BY DEF Only
    <3> HIDE DEF D
    <3> QED BY <3>2, <3>3 DEF D
  <2>2. \A k \in days : k \in Low <=> Total(Only("income", On(due, k))) <= 0
    <3> HIDE DEF due, days
    <3> QED BY <2>1
  <2>3. ASSUME NEW k \in Low PROVE k \in DryKeys(p, due, p.first .. LastSeen(p))
    <3>1. k \in days /\ Total(Only("income", On(due, k))) <= 0 BY <2>2
    <3>2. PICK d \in p.first .. LastSeen(p) : DateKey(d) = k
      <4> HIDE DEF days
      <4> QED BY <3>1, <1>6
    <3> HIDE DEF Low, days, due
    <3>3. Key(p, d) = k BY <3>2, LoopFacts
    <3> QED BY <3>1, <3>2, <3>3 DEF DryKeys, Dry
  <2>4. ASSUME NEW k \in DryKeys(p, due, p.first .. LastSeen(p)) PROVE k \in Low
    <3>1. PICK d \in p.first .. LastSeen(p) : Dry(p, due, d) /\ k = Key(p, d) BY DEF DryKeys
    <3>2. Key(p, d) = DateKey(d) BY LoopFacts
    <3>3. k \in days /\ Total(Only("income", On(due, k))) <= 0
      <4> HIDE DEF days, due
      <4> QED BY <3>1, <3>2, <1>6 DEF Dry
    <3> HIDE DEF Low, days, due
    <3> QED BY <3>3, <2>2
  <2> HIDE DEF Low, due
  <2> QED BY <2>3, <2>4
<1>10. {low[i] : i \in DOMAIN low} = Low /\ Len(low) = Cardinality(Low)
  <2> HIDE DEF Low
  <2> QED BY <1>9, LowIncomeDaysAre
<1>11. Net(due) = income - expense BY DEF Net
<1>12. upTo(End(p)) = opening + (income - expense)
  <2>1. UpTo(due, End(p)) = due
    <3> HIDE DEF due
    <3> QED BY <1>3 DEF UpTo
  <2> QED BY <2>1, <1>11
<1>13. day = (IF Short = {} THEN None ELSE Min(Short)) /\ (day # None <=> Short # {})
  <2>1. short # {} => Key(p, Min(short)) \in Int
    <3>1. short # {} => Key(p, Min(short)) \in Start(p) .. End(p)
      <4> HIDE DEF b
      <4> QED BY CashShortIsADay
    <3> QED BY <3>1, <1>2
  <2> HIDE DEF short, Short
  <2> QED BY <2>1, <1>7, <1>8, NullAssumption
<1> HIDE DEF income, expense, day, low, due, Short, Low
<1>14. Exact(p, row)
  <2>1. row.startingBalance = opening /\ row.incomeTotal = income /\ row.expenseTotal = expense
        /\ row.netTotal = income - expense /\ row.endingBalance = opening + income - expense
        /\ row.dayOfCashShort = day /\ row.lowIncomeDays = low /\ row.lowIncomeDaysCount = Len(low)
        /\ row.healthStatus = HealthOf(day, income - expense)
    OBVIOUS
  <2> HIDE DEF row
  <2>2. row.startingBalance \in Openings(p) BY <2>1
  <2>3. row.netTotal = Net(due) BY <2>1, <1>11
  <2>4. row.endingBalance = upTo(End(p))
    <3>1. opening + income - expense = opening + (income - expense) BY <1>4
    <3> QED BY <3>1, <2>1, <1>12
  <2>5. row.dayOfCashShort = IF Short = {} THEN None ELSE Min(Short) BY <2>1, <1>13
  <2>6. /\ (row.healthStatus = "critical") <=> (Short # {})
        /\ (row.healthStatus = "healthy") <=> (Short = {} /\ Net(due) >= 0)
    <3>1. income - expense \in Int BY <1>4
    <3>2. ~(income - expense < 0) <=> income - expense >= 0 BY <3>1
    <3> QED BY <2>1, <3>2, <1>11, <1>13 DEF HealthOf
  <2>7. /\ {row.lowIncomeDays[i] : i \in DOMAIN row.lowIncomeDays} = Low
        /\ row.lowIncomeDaysCount = Cardinality(Low)
    BY <2>1, <1>10
  <2>8. row.incomeTotal = Total(Only("income", due)) /\ row.expenseTotal = Total(Only("expense", due))
    BY <2>1 DEF income, expense
  <2> QED BY <2>1, <2>2, <2>3, <2>4, <2>5, <2>6, <2>7, <2>8, Zenon
        DEF Exact, due, Short, Low, UpTo
<1> QED BY <1>1, <1>14 DEF due


-----------------------------------------------------------------------------
(* The inductive invariant, for any number of calls: every value has its   *)
(* type, a run has counted only movements of its period that it has asked  *)
(* for, and it only updates a period that has a row.                       *)

AnyRow  == UNION {RowsOf(p) : p \in Periods}
Pcs     == {"idle", "refused", "read", "balance", "find", "insert", "load", "update"}
Calling == [pc : Pcs, asked : Instants \cup {0}, period : Periods \cup {None},
            read : SUBSET Tables, counted : SUBSET Movements, opening : Nat,
            loaded : AnyRow \cup {None}, quiet : BOOLEAN]

RowsTyped ==
  /\ closings \in [Periods -> AnyRow \cup {None}]
  /\ \A p \in Periods : closings[p] # None => closings[p] \in RowsOf(p)

Runs(r) == r.pc \notin {"idle", "refused"}

Fits(r) ==
  /\ ~Runs(r) => r.counted = {}
  /\ Runs(r) =>
       /\ r.period \in Periods
       /\ r.asked \in Instants
       /\ \E type \in Types : r.period = PeriodOf(type, LocalDay(r.asked))
       /\ r.counted \subseteq {m \in InRange(r.period) : m.table \in r.read}
       /\ r.pc # "read" => r.read = Tables
       /\ r.pc \in {"load", "update"} => closings[r.period] \in RowsOf(r.period)

IInv ==
  /\ LedgerTyped
  /\ RowsTyped
  /\ failures \in 0 .. MaxFailures
  /\ call \in [Calls -> Calling]
  /\ \A c \in Calls : Fits(call[c])

(* What a run computes is a row of its period. *)
LEMMA ComputedIsRow ==
  ASSUME IInv, NEW c \in Calls, Running(c)
  PROVE  /\ call[c].period \in Periods
         /\ Counted(call[c].counted)
         /\ Computed(c) \in RowsOf(call[c].period)
         /\ Adds(Computed(c))
<1>1. call[c] \in Calling /\ Fits(call[c]) /\ Runs(call[c]) BY DEF IInv, Running, Runs
<1>2. call[c].period \in Periods /\ call[c].counted \subseteq movements /\ call[c].opening \in Nat
  BY <1>1 DEF Fits, InRange, Between, Calling
<1>3. Counted(call[c].counted) BY <1>2, LedgerIsCounted DEF IInv
<1> QED BY <1>2, <1>3, SummaryIsRow DEF Computed

(* A row of which some columns are written anew is a row. *)
LEMMA MixedIsRow ==
  ASSUME NEW p, NEW r \in RowsOf(p), NEW s \in RowsOf(p), NEW l
  PROVE  [column \in DOMAIN r |-> IF s[column] # l[column] THEN s[column] ELSE r[column]]
           \in RowsOf(p)
<1> DEFINE m == [column \in DOMAIN r |-> IF s[column] # l[column] THEN s[column] ELSE r[column]]
           Fields == {"incomeTotal", "expenseTotal", "netTotal", "startingBalance",
                      "endingBalance", "dayOfCashShort", "lowIncomeDays",
                      "lowIncomeDaysCount", "healthStatus"}
<1>1. DOMAIN r = Fields BY DEF RowsOf
<1>2. \A f \in Fields : m[f] \in {s[f], r[f]} BY <1>1
<1>3. m = [f \in Fields |-> m[f]] BY <1>1
<1> HIDE DEF m
<1>4. /\ m["incomeTotal"] \in Nat /\ m["expenseTotal"] \in Nat /\ m["netTotal"] \in Int
      /\ m["startingBalance"] \in Int /\ m["endingBalance"] \in Int
      /\ m["dayOfCashShort"] \in (Start(p) .. End(p)) \cup {None}
      /\ m["lowIncomeDays"] \in Seq(Int)
      /\ m["lowIncomeDaysCount"] \in 0 .. p.last - p.first + 1
      /\ m["healthStatus"] \in {"critical", "warning", "healthy"}
  BY <1>2 DEF RowsOf
<1>5. m \in RowsOf(p) BY <1>3, <1>4 DEF RowsOf
<1> QED BY <1>5 DEF m

(* What a step may do to the rows. *)
RowsKept ==
  /\ RowsTyped'
  /\ \A p \in Periods : closings[p] \in RowsOf(p) => closings'[p] \in RowsOf(p)

LEMMA RowIsAny == ASSUME NEW p \in Periods, NEW r \in RowsOf(p) PROVE r \in AnyRow
BY DEF AnyRow

LEMMA SetsRow ==
  ASSUME RowsTyped, NEW p \in Periods, NEW r \in RowsOf(p), closings' = [closings EXCEPT ![p] = r]
  PROVE  RowsKept
<1>1. closings' \in [Periods -> AnyRow \cup {None}] BY RowIsAny DEF RowsTyped
<1>2. \A q \in Periods : closings'[q] = IF q = p THEN r ELSE closings[q] BY DEF RowsTyped
<1> QED BY <1>1, <1>2 DEF RowsTyped, RowsKept

LEMMA InsertedKeeps ==
  ASSUME IInv, NEW c \in Calls, Running(c), closings' = Inserted(c)
  PROVE  RowsKept
<1> DEFINE p == call[c].period
<1>1. p \in Periods /\ Computed(c) \in RowsOf(p) BY ComputedIsRow
<1>2. CASE closings[p] = None
  <2>1. closings' = [closings EXCEPT ![p] = Computed(c)] BY <1>2 DEF Inserted
  <2> HIDE DEF p
  <2> QED BY <1>1, <2>1, SetsRow DEF IInv
<1>3. CASE closings[p] # None
  <2>1. closings' = closings BY <1>3 DEF Inserted
  <2> QED BY <2>1 DEF RowsKept, RowsTyped, IInv
<1> QED BY <1>2, <1>3

LEMMA UpdatedKeeps ==
  ASSUME IInv, NEW c \in Calls, call[c].pc = "update", closings' = Updated(c)
  PROVE  RowsKept
<1> DEFINE p == call[c].period
           r == closings[p]
           s == Computed(c)
           l == call[c].loaded
           m == [column \in DOMAIN r |-> IF s[column] # l[column] THEN s[column] ELSE r[column]]
<1>1. Running(c) BY DEF Running
<1>2. p \in Periods /\ s \in RowsOf(p) BY <1>1, ComputedIsRow
<1>3. r \in RowsOf(p) BY <1>1 DEF IInv, Fits, Runs, Running
<1>4. m \in RowsOf(p)
  <2> HIDE DEF p, r, s, l
  <2> QED BY <1>2, <1>3, MixedIsRow
<1>5. closings' = [closings EXCEPT ![p] = m] BY <1>2 DEF Updated, IInv, RowsTyped
<1> HIDE DEF m, p
<1> QED BY <1>2, <1>4, <1>5, SetsRow DEF IInv


(* A step of one run keeps the invariant if its new state does.            *)
LEMMA RunChanges ==
  ASSUME IInv, NEW c \in Calls, NEW r \in Calling, Fits(r)',
         call' = [call EXCEPT ![c] = r], UNCHANGED ledger, RowsKept,
         failures' \in 0 .. MaxFailures
  PROVE  IInv'
<1>1. LedgerTyped' BY DEF IInv, LedgerTyped, ledger
<1>2. call' \in [Calls -> Calling] BY DEF IInv
<1>3. ASSUME NEW d \in Calls PROVE Fits(call[d])'
  <2>1. CASE d = c
    <3>1. call'[d] = r BY <2>1 DEF IInv
    <3> QED BY <3>1 DEF Fits, Runs, InRange, Between
  <2>2. CASE d # c
    <3>1. call'[d] = call[d] BY <2>2 DEF IInv
    <3>2. Fits(call[d]) BY DEF IInv
    <3>3. movements' = movements BY DEF ledger
    <3>4. Runs(call[d]) /\ call[d].pc \in {"load", "update"}
            => closings'[call[d].period] \in RowsOf(call[d].period)
      BY <3>2 DEF Fits, RowsKept
    <3> QED BY <3>1, <3>2, <3>3, <3>4 DEF Fits, Runs, InRange, Between
  <2> QED BY <2>1, <2>2
<1> QED BY <1>1, <1>2, <1>3 DEF IInv, RowsKept

LEMMA RowsStay == ASSUME IInv, UNCHANGED closings PROVE RowsKept
BY DEF IInv, RowsKept, RowsTyped

LEMMA IdleIsCalling == Idle \in Calling /\ Idle.counted = {} /\ ~Runs(Idle)
BY DEF Idle, Calling, Pcs, Runs

LEMMA IdleFits ==
  ASSUME NEW pc \in {"idle", "refused"}
  PROVE  [Idle EXCEPT !.pc = pc] \in Calling /\ Fits([Idle EXCEPT !.pc = pc])'
<1>1. PICK r : r = [Idle EXCEPT !.pc = pc] OBVIOUS
<1>2. r \in Calling /\ r.counted = {} /\ r.pc = pc
  BY <1>1, IdleIsCalling DEF Calling, Pcs
<1>3. Fits(r)' BY <1>2 DEF Fits, Runs
<1> QED BY <1>1, <1>2, <1>3

LEMMA EndsKeeps ==
  ASSUME IInv, NEW c \in Calls, NEW pc \in {"idle", "refused"}, Ends(c, pc), UNCHANGED ledger,
         RowsKept, failures' \in 0 .. MaxFailures
  PROVE  IInv'
<1> DEFINE r == [Idle EXCEPT !.pc = pc]
<1>1. r \in Calling /\ Fits(r)' BY IdleFits
<1>2. call' = [call EXCEPT ![c] = r] BY DEF Ends
<1> HIDE DEF r
<1> QED BY <1>1, <1>2, RunChanges

LEMMA InitKeeps == ASSUME Init PROVE IInv
<1>1. LedgerTyped BY FS_EmptySet DEF Init, LedgerTyped
<1>2. RowsTyped BY DEF Init, RowsTyped
<1>3. Idle \in Calling /\ Fits(Idle) BY IdleIsCalling DEF Fits
<1>4. failures \in 0 .. MaxFailures BY ClosingAssumption DEF Init
<1> QED BY <1>1, <1>2, <1>3, <1>4 DEF Init, IInv

LEMMA BeginKeeps == ASSUME IInv, NEW c \in Calls, Begin(c) PROVE IInv'
<1>1. PICK type \in Types, t \in Instants :
        call' = [call EXCEPT ![c] = [Idle EXCEPT !.pc = "read", !.asked = t,
                                                 !.period = PeriodOf(type, LocalDay(t))]]
  BY DEF Begin
<1> DEFINE p == PeriodOf(type, LocalDay(t))
<1>2. p \in Periods BY DEF Periods
<1> HIDE DEF p
<1>3. PICK r : r = [[[Idle EXCEPT !.pc = "read"] EXCEPT !.asked = t] EXCEPT !.period = p]
  OBVIOUS
<1>4. call' = [call EXCEPT ![c] = r] BY <1>1, <1>3 DEF p
<1>5. /\ r \in Calling /\ r.pc = "read" /\ r.asked = t /\ r.period = p /\ r.counted = {}
  BY <1>2, <1>3, IdleIsCalling DEF Calling, Pcs
<1>6. Fits(r)' BY <1>2, <1>5 DEF Fits, Runs, p
<1>7. UNCHANGED <<ledger, closings, failures>> BY DEF Begin
<1>8. failures' \in 0 .. MaxFailures BY <1>7 DEF IInv
<1> QED BY <1>4, <1>5, <1>6, <1>7, <1>8, RowsStay, RunChanges

LEMMA ReadTableKeeps ==
  ASSUME IInv, NEW c \in Calls, NEW table \in Tables, ReadTable(c, table) PROVE IInv'
<1> DEFINE read    == call[c].read \cup {table}
           counted == call[c].counted \cup {m \in InRange(call[c].period) : m.table = table}
           pc      == IF read = Tables THEN "balance" ELSE "read"
<1>1. PICK r : r = [[[call[c] EXCEPT !.read = read] EXCEPT !.counted = counted] EXCEPT !.pc = pc]
  OBVIOUS
<1>2. call[c] \in Calling /\ Fits(call[c]) /\ call[c].pc = "read" /\ Runs(call[c])
  BY DEF IInv, ReadTable, Runs
<1>3. UNCHANGED <<ledger, closings, failures>> /\ movements' = movements BY DEF ReadTable, ledger
<1>4. call' = [call EXCEPT ![c] = r] BY <1>1, <1>2 DEF ReadTable, IInv
<1>5. InRange(call[c].period) \subseteq Movements
  BY DEF InRange, Between, IInv, LedgerTyped
<1>6. read \in SUBSET Tables /\ counted \in SUBSET Movements /\ pc \in Pcs
  BY <1>2, <1>5 DEF Calling, Pcs
<1>7. /\ r.read = read /\ r.counted = counted /\ r.pc = pc
      /\ r.period = call[c].period /\ r.asked = call[c].asked /\ r \in Calling
  BY <1>1, <1>2, <1>6 DEF Calling
<1>8. counted \subseteq {m \in InRange(call[c].period) : m.table \in read}
  BY <1>2 DEF Fits
<1>9. pc # "read" => read = Tables OBVIOUS
<1>10. pc \notin {"load", "update"} /\ Runs(r) BY <1>7 DEF Runs
<1> HIDE DEF read, counted, pc
<1>11. Fits(r)
  BY <1>2, <1>7, <1>8, <1>9, <1>10 DEF Fits
<1>12. Fits(r)' BY <1>11, <1>3 DEF Fits, InRange, Between
<1>13. failures' \in 0 .. MaxFailures BY <1>3 DEF IInv
<1> QED BY <1>3, <1>4, <1>7, <1>12, <1>13, RowsStay, RunChanges

LEMMA ReadBalanceKeeps ==
  ASSUME IInv, NEW c \in Calls, ReadBalance(c) PROVE IInv'
<1>1. PICK opening \in Openings(call[c].period) :
        call' = [call EXCEPT ![c].opening = opening, ![c].pc = "find"]
  BY DEF ReadBalance
<1>2. PICK r : r = [[call[c] EXCEPT !.opening = opening] EXCEPT !.pc = "find"] OBVIOUS
<1>3. call[c] \in Calling /\ Fits(call[c]) /\ call[c].pc = "balance" /\ Runs(call[c])
  BY DEF IInv, ReadBalance, Runs
<1>4. UNCHANGED <<ledger, closings, failures>> /\ movements' = movements BY DEF ReadBalance, ledger
<1>5. call' = [call EXCEPT ![c] = r] BY <1>1, <1>2, <1>3 DEF IInv
<1>6. opening \in Nat BY OpeningsAreNat DEF IInv, Openings
<1>7. /\ r.pc = "find" /\ r.read = call[c].read /\ r.counted = call[c].counted
      /\ r.period = call[c].period /\ r.asked = call[c].asked /\ r \in Calling
  BY <1>2, <1>3, <1>6 DEF Calling, Pcs
<1>8. Fits(r) BY <1>3, <1>7 DEF Fits, Runs
<1>9. Fits(r)' BY <1>8, <1>4 DEF Fits, InRange, Between
<1>10. failures' \in 0 .. MaxFailures BY <1>4 DEF IInv
<1> QED BY <1>4, <1>5, <1>7, <1>9, <1>10, RowsStay, RunChanges

LEMMA FindExistingKeeps ==
  ASSUME IInv, NEW c \in Calls, FindExisting(c) PROVE IInv'
<1> DEFINE pc == IF closings[call[c].period] = None THEN "insert" ELSE "load"
<1>1. PICK r : r = [call[c] EXCEPT !.pc = pc] OBVIOUS
<1>2. call[c] \in Calling /\ Fits(call[c]) /\ call[c].pc = "find" /\ Runs(call[c])
  BY DEF IInv, FindExisting, Runs
<1>3. UNCHANGED <<ledger, closings, failures>> /\ movements' = movements BY DEF FindExisting, ledger
<1>4. call' = [call EXCEPT ![c] = r] BY <1>1, <1>2 DEF IInv, FindExisting
<1>5. pc \in Pcs /\ pc # "update" /\ Runs(r) /\ pc = r.pc
  BY <1>1, <1>2 DEF Pcs, Runs, Calling
<1>6. pc = "load" => closings[call[c].period] \in RowsOf(call[c].period)
  BY <1>2 DEF Fits, IInv, RowsTyped
<1>7. /\ r.read = call[c].read /\ r.counted = call[c].counted
      /\ r.period = call[c].period /\ r.asked = call[c].asked /\ r \in Calling
  BY <1>1, <1>2, <1>5 DEF Calling
<1> HIDE DEF pc
<1>8. Fits(r) BY <1>2, <1>5, <1>6, <1>7 DEF Fits
<1>9. Fits(r)' BY <1>8, <1>3 DEF Fits, InRange, Between
<1>10. failures' \in 0 .. MaxFailures BY <1>3 DEF IInv
<1> QED BY <1>3, <1>4, <1>7, <1>9, <1>10, RowsStay, RunChanges

LEMMA LoadKeeps == ASSUME IInv, NEW c \in Calls, Load(c) PROVE IInv'
<1> DEFINE row == closings[call[c].period]
<1>1. PICK r : r = [[call[c] EXCEPT !.loaded = row] EXCEPT !.pc = "update"] OBVIOUS
<1>2. call[c] \in Calling /\ Fits(call[c]) /\ call[c].pc = "load" /\ Runs(call[c])
  BY DEF IInv, Load, Runs
<1>3. UNCHANGED <<ledger, closings, failures>> /\ movements' = movements BY DEF Load, ledger
<1>4. call' = [call EXCEPT ![c] = r] BY <1>1, <1>2 DEF IInv, Load
<1>5. row \in RowsOf(call[c].period) /\ call[c].period \in Periods BY <1>2 DEF Fits
<1>6. row \in AnyRow
  <2> HIDE DEF row
  <2> QED BY <1>5, RowIsAny
<1>7. /\ r.pc = "update" /\ r.read = call[c].read /\ r.counted = call[c].counted
      /\ r.period = call[c].period /\ r.asked = call[c].asked /\ r \in Calling
  <2> HIDE DEF row
  <2> QED BY <1>1, <1>2, <1>6 DEF Calling, Pcs
<1>8. Fits(r) BY <1>2, <1>5, <1>7 DEF Fits, Runs
<1>9. Fits(r)' BY <1>8, <1>3 DEF Fits, InRange, Between
<1>10. failures' \in 0 .. MaxFailures BY <1>3 DEF IInv
<1> QED BY <1>3, <1>4, <1>7, <1>9, <1>10, RowsStay, RunChanges

LEMMA InsertKeeps == ASSUME IInv, NEW c \in Calls, Insert(c) PROVE IInv'
<1>1. RowsKept BY InsertedKeeps DEF Insert, Running
<1>2. PICK pc \in {"idle", "refused"} : Ends(c, pc) BY DEF Insert
<1>3. UNCHANGED ledger /\ failures' \in 0 .. MaxFailures BY DEF Insert, IInv
<1> QED BY <1>1, <1>2, <1>3, EndsKeeps

LEMMA UpdateKeeps == ASSUME IInv, NEW c \in Calls, Update(c) PROVE IInv'
<1>1. RowsKept BY UpdatedKeeps DEF Update
<1>2. Ends(c, "idle") BY DEF Update
<1>3. UNCHANGED ledger /\ failures' \in 0 .. MaxFailures BY DEF Update, IInv
<1> QED BY <1>1, <1>2, <1>3, EndsKeeps

LEMMA FailsKeeps == ASSUME IInv, NEW c \in Calls, Fails(c) PROVE IInv'
<1>1. RowsKept BY RowsStay, InsertedKeeps, UpdatedKeeps DEF Fails
<1>2. Ends(c, "idle") /\ UNCHANGED ledger BY DEF Fails
<1>3. failures' \in 0 .. MaxFailures BY ClosingAssumption DEF Fails, IInv
<1> QED BY <1>1, <1>2, <1>3, EndsKeeps

LEMMA CallStepKeeps == ASSUME IInv, NEW c \in Calls, CallStep(c) PROVE IInv'
<1>1. CASE Begin(c) BY <1>1, BeginKeeps
<1>2. CASE \E table \in Tables : ReadTable(c, table) BY <1>2, ReadTableKeeps
<1>3. CASE ReadBalance(c) BY <1>3, ReadBalanceKeeps
<1>4. CASE FindExisting(c) BY <1>4, FindExistingKeeps
<1>5. CASE Insert(c) BY <1>5, InsertKeeps
<1>6. CASE Load(c) BY <1>6, LoadKeeps
<1>7. CASE Update(c) BY <1>7, UpdateKeeps
<1>8. CASE Fails(c) BY <1>8, FailsKeeps
<1> QED BY <1>1, <1>2, <1>3, <1>4, <1>5, <1>6, <1>7, <1>8 DEF CallStep


LEMMA DisturbSets ==
  ASSUME IInv, Disturb, NEW c \in Calls
  PROVE  /\ call'[c] \in Calling
         /\ \A field \in DOMAIN call[c] \ {"quiet"} : call'[c][field] = call[c][field]
         /\ Runs(call[c]) => ~call'[c].quiet
         /\ ~Runs(call[c]) => call'[c] = call[c]
<1>1. PICK r : r = [call[c] EXCEPT !.quiet = FALSE] OBVIOUS
<1>2. call[c] \in Calling BY DEF IInv
<1>3. call'[c] = IF Runs(call[c]) THEN r ELSE call[c] BY <1>1 DEF Disturb, Running, Runs
<1>4. /\ r \in Calling /\ r.quiet = FALSE
      /\ \A field \in DOMAIN call[c] \ {"quiet"} : r[field] = call[c][field]
  BY <1>1, <1>2 DEF Calling
<1> QED BY <1>2, <1>3, <1>4

LEMMA WriteKeeps == ASSUME IInv, Write PROVE IInv'
<1>1. LedgerTyped' /\ movements \subseteq movements' BY CreateGrows DEF IInv, Write
<1>2. Disturb /\ closings' = closings /\ failures' = failures BY DEF Write
<1>3. RowsTyped' BY <1>2 DEF IInv, RowsTyped
<1>4. call' \in [Calls -> Calling]
  <2>1. \A c \in Calls : call'[c] \in Calling BY <1>2, DisturbSets
  <2>2. DOMAIN call' = Calls /\ call' = [c \in Calls |-> call'[c]] BY <1>2 DEF Disturb
  <2> QED BY <2>1, <2>2
<1>5. ASSUME NEW c \in Calls PROVE Fits(call[c])'
  <2>1. Fits(call[c]) /\ call[c] \in Calling BY DEF IInv
  <2>2. /\ call'[c].pc = call[c].pc /\ call'[c].asked = call[c].asked
        /\ call'[c].period = call[c].period /\ call'[c].read = call[c].read
        /\ call'[c].counted = call[c].counted
    <3>1. {"pc", "asked", "period", "read", "counted"} \subseteq DOMAIN call[c] \ {"quiet"}
      BY <2>1 DEF Calling
    <3> QED BY <3>1, <1>2, DisturbSets
  <2>3. InRange(call[c].period) \subseteq InRange(call[c].period)'
    BY <1>1, <2>2 DEF InRange, Between
  <2> QED BY <1>2, <2>1, <2>2, <2>3 DEF Fits, Runs
<1> QED BY <1>1, <1>2, <1>3, <1>4, <1>5 DEF IInv

LEMMA StutterKeeps == ASSUME IInv, UNCHANGED vars PROVE IInv'
BY DEF IInv, vars, LedgerTyped, RowsTyped, Fits, Runs, InRange, Between

(* Every behaviour keeps the invariant, whoever calls and writes.          *)
THEOREM Invariance == Spec => []IInv
<1>1. Init => IInv BY InitKeeps
<1>2. IInv /\ [Next]_vars => IInv' BY WriteKeeps, CallStepKeeps, StutterKeeps DEF Next
<1> QED BY <1>1, <1>2, PTL DEF Spec

(* So does every behaviour over a ledger at rest. *)
LEMMA RestingInitKeeps == ASSUME IsFiniteSet(Movements), RestingInit PROVE IInv
<1>1. LedgerTyped BY FS_Subset DEF RestingInit, LedgerTyped
<1>2. RowsTyped BY DEF RestingInit, RowsTyped
<1>3. Idle \in Calling /\ Fits(Idle) BY IdleIsCalling DEF Fits
<1>4. failures \in 0 .. MaxFailures BY ClosingAssumption DEF RestingInit
<1> QED BY <1>1, <1>2, <1>3, <1>4 DEF RestingInit, IInv

(* The type invariant that the runs check: the columns of a row keep their *)
(* ranges even when two runs have written it, and a run counts only        *)
(* movements that there are.                                               *)
THEOREM TypeCorrect == Spec => []TypeOK
<1>1. IInv => TypeOK
  <2> SUFFICES ASSUME IInv PROVE TypeOK OBVIOUS
  <2>1. movements \subseteq Movements /\ marks \subseteq Marks BY DEF IInv, LedgerTyped
  <2>2. ASSUME NEW p \in Periods, closings[p] # None
        PROVE  /\ DOMAIN closings[p] = Columns
               /\ closings[p].dayOfCashShort \in (Start(p) .. End(p)) \cup {None}
               /\ closings[p].lowIncomeDaysCount \in 0 .. p.last - p.first + 1
    <3>1. closings[p] \in RowsOf(p) BY <2>2 DEF IInv, RowsTyped
    <3> QED BY <3>1, ColumnsAre DEF RowsOf
  <2>3. ASSUME NEW c \in Calls
        PROVE  /\ call[c].pc \in Pcs
               /\ Running(c) => call[c].period \in Periods
               /\ call[c].read \subseteq Tables
               /\ call[c].counted \subseteq movements
    <3>1. call[c] \in Calling /\ Fits(call[c]) BY DEF IInv
    <3>2. call[c].counted \subseteq movements BY <3>1 DEF Fits, InRange, Between
    <3> QED BY <3>1, <3>2 DEF Calling, Fits, Runs, Running
  <2> QED BY <2>1, <2>2, <2>3 DEF TypeOK, IInv, Pcs
<1> QED BY <1>1, Invariance, PTL


-----------------------------------------------------------------------------
(* What each step does to the run that takes it.                           *)

LEMMA BeginSets ==
  ASSUME IInv, NEW c \in Calls, Begin(c)
  PROVE  /\ call'[c].pc = "read" /\ call'[c].read = {} /\ call'[c].counted = {}
         /\ call'[c].period \in Periods /\ call'[c].quiet
         /\ UNCHANGED <<ledger, closings, failures>>
<1>1. PICK type \in Types, t \in Instants :
        call' = [call EXCEPT ![c] = [Idle EXCEPT !.pc = "read", !.asked = t,
                                                 !.period = PeriodOf(type, LocalDay(t))]]
  BY DEF Begin
<1> DEFINE p == PeriodOf(type, LocalDay(t))
<1>2. p \in Periods BY DEF Periods
<1> HIDE DEF p
<1>3. PICK r : r = [[[Idle EXCEPT !.pc = "read"] EXCEPT !.asked = t] EXCEPT !.period = p]
  OBVIOUS
<1>4. call'[c] = r BY <1>1, <1>3 DEF p, IInv
<1>5. r.pc = "read" /\ r.read = {} /\ r.counted = {} /\ r.period = p /\ r.quiet
  BY <1>3 DEF Idle
<1> QED BY <1>2, <1>4, <1>5 DEF Begin

LEMMA ReadTableSets ==
  ASSUME IInv, NEW c \in Calls, NEW table \in Tables, ReadTable(c, table)
  PROVE  /\ call[c].pc = "read" /\ call'[c].pc \in {"read", "balance"}
         /\ call'[c].read = call[c].read \cup {table}
         /\ call'[c].counted =
              call[c].counted \cup {m \in InRange(call[c].period) : m.table = table}
         /\ call'[c].period = call[c].period /\ call'[c].quiet = call[c].quiet
         /\ UNCHANGED <<ledger, closings, failures>>
<1> DEFINE read    == call[c].read \cup {table}
           counted == call[c].counted \cup {m \in InRange(call[c].period) : m.table = table}
           pc      == IF read = Tables THEN "balance" ELSE "read"
<1>1. PICK r : r = [[[call[c] EXCEPT !.read = read] EXCEPT !.counted = counted] EXCEPT !.pc = pc]
  OBVIOUS
<1>2. call[c] \in Calling BY DEF IInv
<1>3. call'[c] = r BY <1>1, <1>2 DEF ReadTable, IInv
<1>4. r.pc = pc /\ r.read = read /\ r.counted = counted /\ r.period = call[c].period
      /\ r.quiet = call[c].quiet
  BY <1>1, <1>2 DEF Calling
<1> QED BY <1>3, <1>4 DEF ReadTable

LEMMA ReadBalanceSets ==
  ASSUME IInv, NEW c \in Calls, ReadBalance(c)
  PROVE  /\ call[c].pc = "balance" /\ call'[c].pc = "find"
         /\ call'[c].opening \in Openings(call[c].period)
         /\ call'[c].read = call[c].read /\ call'[c].counted = call[c].counted
         /\ call'[c].period = call[c].period /\ call'[c].quiet = call[c].quiet
         /\ UNCHANGED <<ledger, closings, failures>>
<1>1. PICK opening \in Openings(call[c].period) :
        call' = [call EXCEPT ![c].opening = opening, ![c].pc = "find"]
  BY DEF ReadBalance
<1>2. PICK r : r = [[call[c] EXCEPT !.opening = opening] EXCEPT !.pc = "find"] OBVIOUS
<1>3. call[c] \in Calling BY DEF IInv
<1>4. call'[c] = r BY <1>1, <1>2, <1>3 DEF IInv
<1>5. r.pc = "find" /\ r.opening = opening /\ r.read = call[c].read
      /\ r.counted = call[c].counted /\ r.period = call[c].period /\ r.quiet = call[c].quiet
  BY <1>2, <1>3 DEF Calling
<1> QED BY <1>4, <1>5 DEF ReadBalance

LEMMA FindExistingSets ==
  ASSUME IInv, NEW c \in Calls, FindExisting(c)
  PROVE  /\ call[c].pc = "find"
         /\ call'[c].pc = IF closings[call[c].period] = None THEN "insert" ELSE "load"
         /\ call'[c].opening = call[c].opening
         /\ call'[c].read = call[c].read /\ call'[c].counted = call[c].counted
         /\ call'[c].period = call[c].period /\ call'[c].quiet = call[c].quiet
         /\ UNCHANGED <<ledger, closings, failures>>
<1> DEFINE pc == IF closings[call[c].period] = None THEN "insert" ELSE "load"
<1>1. PICK r : r = [call[c] EXCEPT !.pc = pc] OBVIOUS
<1>2. call[c] \in Calling BY DEF IInv
<1>3. call'[c] = r BY <1>1, <1>2 DEF IInv, FindExisting
<1>4. r.pc = pc /\ r.opening = call[c].opening /\ r.read = call[c].read
      /\ r.counted = call[c].counted /\ r.period = call[c].period /\ r.quiet = call[c].quiet
  BY <1>1, <1>2 DEF Calling
<1> QED BY <1>3, <1>4 DEF FindExisting

LEMMA LoadSets ==
  ASSUME IInv, NEW c \in Calls, Load(c)
  PROVE  /\ call[c].pc = "load" /\ call'[c].pc = "update"
         /\ call'[c].loaded = closings[call[c].period]
         /\ call'[c].opening = call[c].opening
         /\ call'[c].read = call[c].read /\ call'[c].counted = call[c].counted
         /\ call'[c].period = call[c].period /\ call'[c].quiet = call[c].quiet
         /\ UNCHANGED <<ledger, closings, failures>>
<1> DEFINE row == closings[call[c].period]
<1>1. PICK r : r = [[call[c] EXCEPT !.loaded = row] EXCEPT !.pc = "update"] OBVIOUS
<1>2. call[c] \in Calling BY DEF IInv
<1>3. call'[c] = r BY <1>1, <1>2 DEF IInv, Load
<1>4. r.pc = "update" /\ r.loaded = row /\ r.opening = call[c].opening /\ r.read = call[c].read
      /\ r.counted = call[c].counted /\ r.period = call[c].period /\ r.quiet = call[c].quiet
  BY <1>1, <1>2 DEF Calling
<1> QED BY <1>3, <1>4 DEF Load

LEMMA EndsSets ==
  ASSUME IInv, NEW c \in Calls, NEW pc \in {"idle", "refused"}, Ends(c, pc)
  PROVE  call'[c].pc = pc /\ ~Runs(call'[c]) /\ call'[c].quiet
<1>1. PICK r : r = [Idle EXCEPT !.pc = pc] OBVIOUS
<1>2. call'[c] = r BY <1>1 DEF Ends, IInv
<1>3. r.pc = pc /\ r.quiet BY <1>1 DEF Idle
<1> QED BY <1>2, <1>3 DEF Runs

(* A run that writes has read both tables.                                 *)
LEMMA WriterHasRead ==
  ASSUME IInv, NEW c \in Calls, call[c].pc \in {"insert", "update"}
  PROVE  Running(c) /\ Runs(call[c]) /\ call[c].period \in Periods /\ call[c].read = Tables
BY DEF IInv, Fits, Runs, Running

LEMMA OthersStay ==
  ASSUME NEW c \in Calls, CallStep(c), NEW d \in Calls, d # c, call \in [Calls -> Calling]
  PROVE  call'[d] = call[d]
BY DEF CallStep, Begin, ReadTable, ReadBalance, FindExisting, Insert, Load, Update, Fails, Ends


-----------------------------------------------------------------------------
(* A caller alone: what it found is still there when it saves, so that it  *)
(* is never refused, leaves rows that add up, and loses nothing that an    *)
(* earlier run has counted.                                                *)

LoneCaller == \A c, d \in Calls : c = d

Alone(r) ==
  /\ r.pc # "refused"
  /\ r.pc = "insert" => closings[r.period] = None
  /\ r.pc = "update" => r.loaded = closings[r.period]

(* The movements S are those the totals of the row of p were added up      *)
(* from: a run for p has met again what it has read of them.               *)
AddedUp(p, S) ==
  /\ closings[p].incomeTotal = Total(Only("income", S))
  /\ closings[p].expenseTotal = Total(Only("expense", S))
  /\ \A c \in Calls : (Runs(call[c]) /\ call[c].period = p) =>
       {m \in S : m.table \in call[c].read} \subseteq call[c].counted

Sound(p) == Adds(closings[p]) /\ \E S \in SUBSET InRange(p) : AddedUp(p, S)

AloneInv ==
  /\ \A c \in Calls : Alone(call[c])
  /\ \A p \in Periods : closings[p] # None => Sound(p)

(* A row written over by columns of which it knows the old is replaced.    *)
LEMMA MixedIsNew ==
  ASSUME NEW p, NEW r \in RowsOf(p), NEW s \in RowsOf(p)
  PROVE  [column \in DOMAIN r |-> IF s[column] # r[column] THEN s[column] ELSE r[column]] = s
<1> DEFINE Fields == {"incomeTotal", "expenseTotal", "netTotal", "startingBalance",
                      "endingBalance", "dayOfCashShort", "lowIncomeDays",
                      "lowIncomeDaysCount", "healthStatus"}
<1>1. DOMAIN r = Fields /\ DOMAIN s = Fields /\ s = [f \in Fields |-> s[f]] BY DEF RowsOf
<1>2. \A f \in Fields : (IF s[f] # r[f] THEN s[f] ELSE r[f]) = s[f] OBVIOUS
<1> HIDE DEF Fields
<1>3. [f \in Fields |-> IF s[f] # r[f] THEN s[f] ELSE r[f]] = [f \in Fields |-> s[f]]
  BY <1>2, Zenon
<1> QED BY <1>1, <1>3

LEMMA AloneSaves ==
  ASSUME IInv, NEW c \in Calls, Alone(call[c]),
         \/ call[c].pc = "insert" /\ closings' = Inserted(c)
         \/ call[c].pc = "update" /\ closings' = Updated(c)
  PROVE  closings' = [closings EXCEPT ![call[c].period] = Computed(c)]
<1> DEFINE p == call[c].period
<1>1. p \in Periods /\ Computed(c) \in RowsOf(p) BY WriterHasRead, ComputedIsRow
<1>2. CASE call[c].pc = "insert" /\ closings' = Inserted(c) BY <1>2 DEF Inserted, Alone
<1>3. CASE call[c].pc = "update" /\ closings' = Updated(c)
  <2> DEFINE r == closings[p]
             s == Computed(c)
             m == [column \in DOMAIN r |-> IF s[column] # r[column] THEN s[column] ELSE r[column]]
  <2>1. r \in RowsOf(p) BY <1>3 DEF IInv, Fits, Runs
  <2>2. call[c].loaded = r BY <1>3 DEF Alone
  <2>3. closings' = [closings EXCEPT ![p] = m] BY <1>1, <1>3, <2>2 DEF Updated, IInv, RowsTyped
  <2>4. m = s
    <3> HIDE DEF p, r, s
    <3> QED BY <1>1, <2>1, MixedIsNew DEF s
  <2> HIDE DEF m
  <2> QED BY <2>3, <2>4
<1> QED BY <1>2, <1>3

(* A run that only moves on, having met again what it has read.            *)
LEMMA AloneMovesOn ==
  ASSUME LoneCaller, IInv, AloneInv, NEW c \in Calls, UNCHANGED <<ledger, closings>>,
         Alone(call[c])',
         Runs(call'[c]) =>
           \A m \in InRange(call'[c].period) : m.table \in call'[c].read =>
             \/ m \in call'[c].counted
             \/ /\ Runs(call[c]) /\ call'[c].period = call[c].period
                /\ m.table \in call[c].read /\ call[c].counted \subseteq call'[c].counted
  PROVE  AloneInv'
<1>1. \A d \in Calls : d = c BY DEF LoneCaller
<1>2. \A d \in Calls : Alone(call[d])' BY <1>1
<1>3. ASSUME NEW p \in Periods, closings'[p] # None PROVE Sound(p)'
  <2>1. Sound(p) BY <1>3 DEF AloneInv
  <2>2. PICK S \in SUBSET InRange(p) : AddedUp(p, S) BY <2>1 DEF Sound
  <2>3. movements' = movements BY DEF ledger
  <2>4. S \in SUBSET InRange(p)' BY <2>3 DEF InRange, Between
  <2>5. ASSUME Runs(call'[c]), call'[c].period = p
        PROVE  {m \in S : m.table \in call'[c].read} \subseteq call'[c].counted
    <3> SUFFICES ASSUME NEW m \in S, m.table \in call'[c].read PROVE m \in call'[c].counted
      OBVIOUS
    <3>1. m \in InRange(call'[c].period) BY <2>5
    <3>2. CASE Runs(call[c]) /\ call'[c].period = call[c].period
               /\ m.table \in call[c].read /\ call[c].counted \subseteq call'[c].counted
      <4>1. m \in call[c].counted BY <3>2, <2>2, <2>5 DEF AddedUp
      <4> QED BY <4>1, <3>2
    <3> QED BY <2>5, <3>1, <3>2
  <2>6. AddedUp(p, S)' BY <2>2, <2>5, <1>1 DEF AddedUp
  <2>7. Adds(closings[p])' BY <2>1 DEF Sound, Adds
  <2> QED BY <2>4, <2>6, <2>7 DEF Sound
<1> QED BY <1>2, <1>3 DEF AloneInv

LEMMA AloneEnds ==
  ASSUME LoneCaller, IInv, AloneInv, NEW c \in Calls, UNCHANGED ledger,
         ~Runs(call'[c]), call'[c].pc # "refused",
         \/ UNCHANGED closings
         \/ /\ call[c].pc \in {"insert", "update"}
            /\ closings' = [closings EXCEPT ![call[c].period] = Computed(c)]
  PROVE  AloneInv'
<1>1. \A d \in Calls : d = c BY DEF LoneCaller
<1>2. Alone(call[c])' BY DEF Alone, Runs
<1>3. CASE UNCHANGED closings BY <1>2, <1>3, AloneMovesOn
<1>4. CASE /\ call[c].pc \in {"insert", "update"}
           /\ closings' = [closings EXCEPT ![call[c].period] = Computed(c)]
  <2> DEFINE q == call[c].period
  <2>0. PICK S : S = call[c].counted OBVIOUS
  <2>1. Running(c) /\ Runs(call[c]) /\ q \in Periods /\ call[c].read = Tables
    BY <1>4, WriterHasRead
  <2>2. Adds(Computed(c)) /\ Computed(c) \in RowsOf(q) BY <2>1, ComputedIsRow
  <2>3. S \in SUBSET InRange(q) /\ movements' = movements BY <2>0, <2>1 DEF IInv, Fits, ledger
  <2>4. ASSUME NEW p \in Periods, closings'[p] # None PROVE Sound(p)'
    <3>1. CASE p = q
      <4>1. closings'[p] = Computed(c) BY <3>1, <1>4, <2>1 DEF IInv, RowsTyped
      <4>2. /\ Computed(c).incomeTotal = Total(Only("income", S))
            /\ Computed(c).expenseTotal = Total(Only("expense", S))
        BY <2>0 DEF Computed, Summary
      <4>3. AddedUp(p, S)' BY <4>1, <4>2, <1>1 DEF AddedUp
      <4>4. S \in SUBSET InRange(p)' BY <2>3, <3>1 DEF InRange, Between
      <4>5. Adds(closings[p])' BY <2>2, <4>1
      <4> QED BY <4>3, <4>4, <4>5 DEF Sound
    <3>2. CASE p # q
      <4>1. closings'[p] = closings[p] BY <3>2, <1>4 DEF IInv, RowsTyped
      <4>2. Sound(p) BY <2>4, <4>1 DEF AloneInv
      <4>3. PICK T \in SUBSET InRange(p) : AddedUp(p, T) BY <4>2 DEF Sound
      <4>4. AddedUp(p, T)' BY <4>1, <4>3, <1>1 DEF AddedUp
      <4>5. T \in SUBSET InRange(p)' BY <2>3 DEF InRange, Between
      <4>6. Adds(closings[p])' BY <4>1, <4>2 DEF Sound
      <4> QED BY <4>4, <4>5, <4>6 DEF Sound
    <3> QED BY <3>1, <3>2
  <2> QED BY <1>1, <1>2, <2>4 DEF AloneInv
<1> QED BY <1>3, <1>4


LEMMA AloneStep ==
  ASSUME LoneCaller, IInv, AloneInv, NEW c \in Calls, CallStep(c)
  PROVE  AloneInv'
<1>0. Alone(call[c]) /\ Fits(call[c]) BY DEF AloneInv, IInv
<1>1. CASE Begin(c)
  <2>1. call'[c].pc = "read" /\ call'[c].read = {} /\ UNCHANGED <<ledger, closings>>
    BY <1>1, BeginSets
  <2>2. Alone(call[c])' BY <2>1 DEF Alone
  <2> QED BY <2>1, <2>2, AloneMovesOn
<1>2. CASE \E table \in Tables : ReadTable(c, table)
  <2>1. PICK table \in Tables : ReadTable(c, table) BY <1>2
  <2>2. /\ call[c].pc = "read" /\ call'[c].pc \in {"read", "balance"}
        /\ call'[c].read = call[c].read \cup {table}
        /\ call'[c].counted =
             call[c].counted \cup {m \in InRange(call[c].period) : m.table = table}
        /\ call'[c].period = call[c].period /\ UNCHANGED <<ledger, closings>>
    BY <2>1, ReadTableSets
  <2>3. Alone(call[c])' BY <2>2 DEF Alone
  <2>4. Runs(call[c]) BY <2>2 DEF Runs
  <2>5. ASSUME NEW m \in InRange(call'[c].period), m.table \in call'[c].read
        PROVE  m \in call'[c].counted \/ m.table \in call[c].read
    BY <2>2, <2>5
  <2>6. call[c].counted \subseteq call'[c].counted BY <2>2
  <2> QED BY <2>2, <2>3, <2>4, <2>5, <2>6, AloneMovesOn
<1>3. CASE ReadBalance(c)
  <2>1. /\ call[c].pc = "balance" /\ call'[c].pc = "find"
        /\ call'[c].read = call[c].read /\ call'[c].counted = call[c].counted
        /\ call'[c].period = call[c].period /\ UNCHANGED <<ledger, closings>>
    BY <1>3, ReadBalanceSets
  <2>2. Alone(call[c])' /\ Runs(call[c]) BY <2>1 DEF Alone, Runs
  <2> QED BY <2>1, <2>2, AloneMovesOn
<1>4. CASE FindExisting(c)
  <2>1. /\ call[c].pc = "find"
        /\ call'[c].pc = IF closings[call[c].period] = None THEN "insert" ELSE "load"
        /\ call'[c].read = call[c].read /\ call'[c].counted = call[c].counted
        /\ call'[c].period = call[c].period /\ UNCHANGED <<ledger, closings>>
    BY <1>4, FindExistingSets
  <2>2. Alone(call[c])' /\ Runs(call[c]) BY <2>1 DEF Alone, Runs
  <2> QED BY <2>1, <2>2, AloneMovesOn
<1>5. CASE Insert(c)
  <2>1. closings[call[c].period] = None /\ call[c].pc = "insert" BY <1>0, <1>5 DEF Alone, Insert
  <2>2. Ends(c, "idle") /\ closings' = Inserted(c) /\ UNCHANGED ledger BY <1>5, <2>1 DEF Insert
  <2>3. closings' = [closings EXCEPT ![call[c].period] = Computed(c)]
    BY <1>0, <2>1, <2>2, AloneSaves
  <2>4. call'[c].pc = "idle" /\ ~Runs(call'[c]) BY <2>2, EndsSets
  <2> QED BY <2>1, <2>2, <2>3, <2>4, AloneEnds
<1>6. CASE Load(c)
  <2>1. /\ call[c].pc = "load" /\ call'[c].pc = "update"
        /\ call'[c].loaded = closings[call[c].period]
        /\ call'[c].read = call[c].read /\ call'[c].counted = call[c].counted
        /\ call'[c].period = call[c].period /\ UNCHANGED <<ledger, closings>>
    BY <1>6, LoadSets
  <2>2. Alone(call[c])' /\ Runs(call[c]) BY <2>1 DEF Alone, Runs
  <2> QED BY <2>1, <2>2, AloneMovesOn
<1>7. CASE Update(c)
  <2>1. call[c].pc = "update" /\ Ends(c, "idle") /\ closings' = Updated(c) /\ UNCHANGED ledger
    BY <1>7 DEF Update
  <2>2. closings' = [closings EXCEPT ![call[c].period] = Computed(c)] BY <1>0, <2>1, AloneSaves
  <2>3. call'[c].pc = "idle" /\ ~Runs(call'[c]) BY <2>1, EndsSets
  <2> QED BY <2>1, <2>2, <2>3, AloneEnds
<1>8. CASE Fails(c)
  <2>1. Ends(c, "idle") /\ UNCHANGED ledger BY <1>8 DEF Fails
  <2>2. call'[c].pc = "idle" /\ ~Runs(call'[c]) BY <2>1, EndsSets
  <2>3. \/ UNCHANGED closings
        \/ /\ call[c].pc \in {"insert", "update"}
           /\ closings' = [closings EXCEPT ![call[c].period] = Computed(c)]
    BY <1>0, <1>8, AloneSaves DEF Fails
  <2> QED BY <2>1, <2>2, <2>3, AloneEnds
<1> QED BY <1>1, <1>2, <1>3, <1>4, <1>5, <1>6, <1>7, <1>8 DEF CallStep

(* A write to the ledger takes nothing from what has been counted.         *)
LEMMA AloneWrite == ASSUME IInv, AloneInv, Write PROVE AloneInv'
<1>1. movements \subseteq movements' BY CreateGrows DEF IInv, Write
<1>2. Disturb /\ closings' = closings BY DEF Write
<1>3. ASSUME NEW c \in Calls
      PROVE  /\ call'[c].pc = call[c].pc /\ call'[c].period = call[c].period
             /\ call'[c].read = call[c].read /\ call'[c].counted = call[c].counted
             /\ call'[c].loaded = call[c].loaded
  <2>1. {"pc", "period", "read", "counted", "loaded"} \subseteq DOMAIN call[c] \ {"quiet"}
    BY DEF IInv, Calling
  <2> QED BY <2>1, <1>2, DisturbSets
<1>4. ASSUME NEW c \in Calls PROVE Alone(call[c])'
  <2>1. Alone(call[c]) BY DEF AloneInv
  <2> QED BY <2>1, <1>2, <1>3 DEF Alone
<1>5. ASSUME NEW p \in Periods, closings'[p] # None PROVE Sound(p)'
  <2>1. Sound(p) BY <1>2, <1>5 DEF AloneInv
  <2>2. PICK S \in SUBSET InRange(p) : AddedUp(p, S) BY <2>1 DEF Sound
  <2>3. S \in SUBSET InRange(p)' BY <1>1 DEF InRange, Between
  <2>4. AddedUp(p, S)' BY <2>2, <1>2, <1>3 DEF AddedUp, Runs
  <2>5. Adds(closings[p])' BY <2>1, <1>2 DEF Sound, Adds
  <2> QED BY <2>3, <2>4, <2>5 DEF Sound
<1> QED BY <1>4, <1>5 DEF AloneInv

LEMMA AloneStutter == ASSUME AloneInv, UNCHANGED vars PROVE AloneInv'
<1>1. /\ movements' = movements /\ closings' = closings /\ call' = call BY DEF vars
<1>2. \A c \in Calls : Alone(call[c])' BY <1>1 DEF AloneInv, Alone
<1>3. ASSUME NEW p \in Periods, closings'[p] # None PROVE Sound(p)'
  <2>1. PICK S \in SUBSET InRange(p) : AddedUp(p, S) BY <1>1, <1>3 DEF AloneInv, Sound
  <2>2. AddedUp(p, S)' /\ S \in SUBSET InRange(p)'
    BY <1>1, <2>1 DEF AddedUp, Runs, InRange, Between
  <2>3. Adds(closings[p])' BY <1>1, <1>3 DEF AloneInv, Sound, Adds
  <2> QED BY <2>2, <2>3 DEF Sound
<1> QED BY <1>2, <1>3 DEF AloneInv

LEMMA AloneInvariance == ASSUME LoneCaller PROVE Spec => [](IInv /\ AloneInv)
<1>1. Init => IInv /\ AloneInv
  <2> SUFFICES ASSUME Init PROVE AloneInv BY InitKeeps
  <2>1. \A c \in Calls : Alone(call[c]) BY DEF Init, Alone, Idle
  <2>2. \A p \in Periods : closings[p] = None BY DEF Init
  <2> QED BY <2>1, <2>2 DEF AloneInv
<1>2. IInv /\ AloneInv /\ [Next]_vars => IInv' /\ AloneInv'
  BY AloneStep, AloneWrite, AloneStutter, CallStepKeeps, WriteKeeps, StutterKeeps DEF Next
<1> QED BY <1>1, <1>2, PTL DEF Spec


(* One caller, any ledger written meanwhile, any failures: the columns of  *)
(* every saved closing belong together.                                    *)
THEOREM ClosingsAddUp == ASSUME LoneCaller PROVE Spec => []StoredIsConsistent
<1>1. AloneInv => StoredIsConsistent BY DEF AloneInv, Sound, Adds, StoredIsConsistent
<1> QED BY <1>1, AloneInvariance, PTL

(* A lone caller is never refused by the unique index, whatever its        *)
(* failures left behind.                                                   *)
THEOREM LoneIsNotRefused == ASSUME LoneCaller PROVE Spec => []RetryIsNotRefused
<1>1. AloneInv => RetryIsNotRefused BY DEF AloneInv, Alone, RetryIsNotRefused
<1> QED BY <1>1, AloneInvariance, PTL

(* A call writes no table of the ledger, and closings only when it saves.  *)
LEMMA CallStepWrites ==
  ASSUME NEW c \in Calls, CallStep(c)
  PROVE  /\ UNCHANGED ledger
         /\ \/ UNCHANGED closings
            \/ call[c].pc = "insert" /\ closings' = Inserted(c)
            \/ call[c].pc = "update" /\ closings' = Updated(c)
<1>1. CASE Begin(c) BY <1>1 DEF Begin
<1>2. CASE \E table \in Tables : ReadTable(c, table) BY <1>2 DEF ReadTable
<1>3. CASE ReadBalance(c) BY <1>3 DEF ReadBalance
<1>4. CASE FindExisting(c) BY <1>4 DEF FindExisting
<1>5. CASE Load(c) BY <1>5 DEF Load
<1>6. CASE Insert(c) BY <1>6 DEF Insert
<1>7. CASE Update(c) BY <1>7 DEF Update
<1>8. CASE Fails(c) BY <1>8 DEF Fails
<1> QED BY <1>1, <1>2, <1>3, <1>4, <1>5, <1>6, <1>7, <1>8 DEF CallStep

(* What one step does to the rows of a lone caller.                        *)
LEMMA AloneRows ==
  ASSUME IInv, AloneInv, [Next]_vars
  PROVE  \/ UNCHANGED closings
         \/ \E c \in Calls :
              /\ call[c].pc \in {"insert", "update"}
              /\ closings' = [closings EXCEPT ![call[c].period] = Computed(c)]
<1>1. ASSUME NEW c \in Calls, CallStep(c), closings' # closings
      PROVE  /\ call[c].pc \in {"insert", "update"}
             /\ closings' = [closings EXCEPT ![call[c].period] = Computed(c)]
  <2>1. \/ call[c].pc = "insert" /\ closings' = Inserted(c)
        \/ call[c].pc = "update" /\ closings' = Updated(c)
    BY <1>1, CallStepWrites
  <2>2. Alone(call[c]) BY DEF AloneInv
  <2>3. closings' = [closings EXCEPT ![call[c].period] = Computed(c)] BY <2>1, <2>2, AloneSaves
  <2> QED BY <2>1, <2>3
<1>2. Write \/ UNCHANGED vars => UNCHANGED closings BY DEF Write, vars
<1> QED BY <1>1, <1>2 DEF Next

(* Closing a period again counts all that was counted before: its totals   *)
(* never drop.                                                             *)
THEOREM TotalsKeep == ASSUME LoneCaller PROVE Spec => TotalsNeverDrop
<1> DEFINE Keeps(p) == closings[p] # None =>
             /\ closings'[p].incomeTotal >= closings[p].incomeTotal
             /\ closings'[p].expenseTotal >= closings[p].expenseTotal
<1>1. ASSUME IInv, AloneInv, [Next]_vars PROVE \A p \in Periods : Keeps(p)
  <2> SUFFICES ASSUME NEW p \in Periods, closings[p] # None
               PROVE  /\ closings'[p].incomeTotal >= closings[p].incomeTotal
                      /\ closings'[p].expenseTotal >= closings[p].expenseTotal
    OBVIOUS
  <2>1. closings[p].incomeTotal \in Nat /\ closings[p].expenseTotal \in Nat
    <3>1. closings[p] \in RowsOf(p) BY <1>1 DEF IInv, RowsTyped
    <3> QED BY <3>1 DEF RowsOf
  <2>2. CASE closings'[p] = closings[p] BY <2>1, <2>2
  <2>3. CASE closings'[p] # closings[p]
    <3>1. PICK c \in Calls :
            /\ call[c].pc \in {"insert", "update"}
            /\ closings' = [closings EXCEPT ![call[c].period] = Computed(c)]
      BY <1>1, <2>3, AloneRows
    <3>2. p = call[c].period /\ closings'[p] = Computed(c)
      BY <2>3, <3>1 DEF IInv, RowsTyped
    <3>3. Running(c) /\ Runs(call[c]) /\ call[c].read = Tables BY <1>1, <3>1, WriterHasRead
    <3>4. PICK S \in SUBSET InRange(p) : AddedUp(p, S) BY <1>1 DEF AloneInv, Sound
    <3>5. S \in SUBSET movements /\ \A m \in S : m.table \in Tables
      <4>1. S \in SUBSET movements BY DEF InRange, Between
      <4> QED BY <4>1, <1>1, LedgerIsCounted DEF IInv
    <3> DEFINE T == call[c].counted
    <3>6. S \subseteq T BY <3>2, <3>3, <3>4, <3>5 DEF AddedUp
    <3>7. Counted(T) BY <1>1, <3>3, ComputedIsRow
    <3>8. ASSUME NEW type PROVE Total(Only(type, S)) <= Total(Only(type, T))
      <4>1. Only(type, S) \in SUBSET Only(type, T) BY <3>6 DEF Only
      <4>2. Counted(Only(type, T)) BY <3>7, OnlyIsCounted
      <4> QED BY <4>1, <4>2, TotalGrows
    <3>9. /\ Computed(c).incomeTotal = Total(Only("income", T))
          /\ Computed(c).expenseTotal = Total(Only("expense", T))
      BY DEF Computed, Summary
    <3>10. Total(Only("income", T)) \in Nat /\ Total(Only("expense", T)) \in Nat
      BY <3>7, OnlyIsNat
    <3> HIDE DEF T
    <3> QED BY <2>1, <3>2, <3>4, <3>8, <3>9, <3>10 DEF AddedUp
  <2> QED BY <2>2, <2>3
<1>2. IInv /\ AloneInv /\ [Next]_vars => [\A p \in Periods : Keeps(p)]_vars BY <1>1
<1> QED BY <1>2, AloneInvariance, PTL DEF Spec, TotalsNeverDrop


-----------------------------------------------------------------------------
(* A run during which the ledger does not change has counted all there is  *)
(* in the tables it has read, whatever the other runs do.                  *)

Unmissed(r) ==
  (Runs(r) /\ r.quiet) =>
    /\ {m \in InRange(r.period) : m.table \in r.read} \subseteq r.counted
    /\ r.pc \in {"find", "insert", "load", "update"} => r.opening \in Openings(r.period)

QuietInv == \A c \in Calls : Unmissed(call[c])

LEMMA QuietStep ==
  ASSUME IInv, QuietInv, NEW c \in Calls, CallStep(c) PROVE QuietInv'
<1>0. Unmissed(call[c]) BY DEF QuietInv
<1> SUFFICES ASSUME NEW d \in Calls PROVE Unmissed(call[d])'
  BY DEF QuietInv
<1>1. UNCHANGED ledger BY CallStepWrites
<1>2. \A p : InRange(p)' = InRange(p) /\ Openings(p)' = Openings(p)
  BY <1>1 DEF ledger, InRange, Between, Openings, BalancesAt, Of
<1>3. CASE d # c
  <2>1. call'[d] = call[d] BY <1>3, OthersStay DEF IInv
  <2>2. Unmissed(call[d]) BY DEF QuietInv
  <2> QED BY <2>1, <2>2, <1>2 DEF Unmissed, Runs
<1>4. CASE d = c
  <2>1. CASE Begin(c)
    <3>1. call'[c].pc = "read" /\ call'[c].read = {} BY <2>1, BeginSets
    <3> QED BY <3>1, <1>4 DEF Unmissed
  <2>2. CASE \E table \in Tables : ReadTable(c, table)
    <3>1. PICK table \in Tables : ReadTable(c, table) BY <2>2
    <3>2. /\ call[c].pc = "read" /\ call'[c].pc \in {"read", "balance"}
          /\ call'[c].read = call[c].read \cup {table}
          /\ call'[c].counted =
               call[c].counted \cup {m \in InRange(call[c].period) : m.table = table}
          /\ call'[c].period = call[c].period /\ call'[c].quiet = call[c].quiet
      BY <3>1, ReadTableSets
    <3>3. Runs(call[c]) BY <3>2 DEF Runs
    <3> QED BY <3>2, <3>3, <1>0, <1>2, <1>4 DEF Unmissed
  <2>3. CASE ReadBalance(c)
    <3>1. /\ call[c].pc = "balance" /\ call'[c].opening \in Openings(call[c].period)
          /\ call'[c].read = call[c].read /\ call'[c].counted = call[c].counted
          /\ call'[c].period = call[c].period /\ call'[c].quiet = call[c].quiet
      BY <2>3, ReadBalanceSets
    <3>2. Runs(call[c]) BY <3>1 DEF Runs
    <3> QED BY <3>1, <3>2, <1>0, <1>2, <1>4 DEF Unmissed
  <2>4. CASE FindExisting(c)
    <3>1. /\ call[c].pc = "find" /\ call'[c].opening = call[c].opening
          /\ call'[c].read = call[c].read /\ call'[c].counted = call[c].counted
          /\ call'[c].period = call[c].period /\ call'[c].quiet = call[c].quiet
      BY <2>4, FindExistingSets
    <3>2. Runs(call[c]) BY <3>1 DEF Runs
    <3> QED BY <3>1, <3>2, <1>0, <1>2, <1>4 DEF Unmissed
  <2>5. CASE Load(c)
    <3>1. /\ call[c].pc = "load" /\ call'[c].opening = call[c].opening
          /\ call'[c].read = call[c].read /\ call'[c].counted = call[c].counted
          /\ call'[c].period = call[c].period /\ call'[c].quiet = call[c].quiet
      BY <2>5, LoadSets
    <3>2. Runs(call[c]) BY <3>1 DEF Runs
    <3> QED BY <3>1, <3>2, <1>0, <1>2, <1>4 DEF Unmissed
  <2>6. CASE \E pc \in {"idle", "refused"} : Ends(c, pc)
    <3>1. ~Runs(call'[c]) BY <2>6, EndsSets
    <3> QED BY <3>1, <1>4 DEF Unmissed, Runs
  <2>7. Insert(c) \/ Update(c) \/ Fails(c) => \E pc \in {"idle", "refused"} : Ends(c, pc)
    BY DEF Insert, Update, Fails
  <2> QED BY <2>1, <2>2, <2>3, <2>4, <2>5, <2>6, <2>7 DEF CallStep
<1> QED BY <1>3, <1>4

LEMMA QuietWrite == ASSUME IInv, QuietInv, Write PROVE QuietInv'
<1> SUFFICES ASSUME NEW c \in Calls PROVE Unmissed(call[c])'
  BY DEF QuietInv
<1>1. Disturb BY DEF Write
<1>2. CASE Runs(call[c])
  <2>1. ~call'[c].quiet BY <1>1, <1>2, DisturbSets
  <2> QED BY <2>1 DEF Unmissed
<1>3. CASE ~Runs(call[c])
  <2>1. ~Runs(call'[c]) BY <1>1, <1>3, DisturbSets
  <2> QED BY <2>1 DEF Unmissed, Runs
<1> QED BY <1>2, <1>3

LEMMA QuietStutter == ASSUME QuietInv, UNCHANGED vars PROVE QuietInv'
BY DEF QuietInv, vars, Unmissed, Runs, InRange, Between, Openings, BalancesAt, Of

LEMMA QuietStarts == ASSUME call = [c \in Calls |-> Idle] PROVE QuietInv
BY IdleIsCalling DEF QuietInv, Unmissed

LEMMA QuietInvariance == Spec => [](IInv /\ QuietInv)
<1>1. Init => QuietInv BY QuietStarts DEF Init
<1>2. IInv /\ QuietInv /\ [Next]_vars => QuietInv'
  BY QuietStep, QuietWrite, QuietStutter DEF Next
<1> QED BY <1>1, <1>2, Invariance, PTL DEF Spec

(* Such a run computes the truth. *)
LEMMA QuietComputesExactly ==
  ASSUME OneSideOfUtc, IInv, QuietInv, NEW c \in Calls,
         call[c].pc \in {"insert", "update"}, call[c].quiet
  PROVE  LET p == call[c].period IN
         /\ p \in Periods /\ call[c].opening \in Openings(p)
         /\ Computed(c) = Summary(p, InRange(p), call[c].opening)
         /\ Exact(p, Computed(c))
<1> DEFINE p == call[c].period
<1>1. Running(c) /\ Runs(call[c]) /\ p \in Periods /\ call[c].read = Tables BY WriterHasRead
<1>2. Unmissed(call[c]) /\ Fits(call[c]) BY DEF QuietInv, IInv
<1>3. InRange(p) \in SUBSET movements BY DEF InRange, Between
<1>4. Counted(InRange(p)) /\ \A m \in InRange(p) : m.day \in Int /\ m.table \in Tables
  BY <1>3, LedgerIsCounted DEF IInv
<1>5. call[c].counted = InRange(p) BY <1>1, <1>2, <1>4 DEF Unmissed, Fits
<1>6. call[c].opening \in Openings(p) BY <1>1, <1>2 DEF Unmissed
<1>7. call[c].opening \in Int BY DEF IInv, Calling
<1> HIDE DEF p
<1>8. Exact(p, Summary(p, InRange(p), call[c].opening)) BY <1>1, <1>4, <1>6, <1>7, SummaryIsExact
<1>9. Computed(c) = Summary(p, InRange(p), call[c].opening) BY <1>5 DEF Computed, p
<1> QED BY <1>1, <1>6, <1>8, <1>9 DEF p

(* Left alone by the ledger's writers and by other calls, createClosing    *)
(* saves the truth: in every zone that keeps one side of UTC, for every    *)
(* calendar and ledger, but for the last day of a period in which a day    *)
(* has no midnight, which its loop does not come to.                       *)
THEOREM QuietClosingsAreExact ==
  ASSUME LoneCaller, OneSideOfUtc PROVE Spec => QuietClosingIsExact
<1> DEFINE Saves(c) ==
             (call[c].pc \in {"insert", "update"} /\ call[c].quiet /\ call'[c].pc = "idle"
                /\ failures' = failures)
             => Exact(call[c].period, closings'[call[c].period])
<1>1. ASSUME IInv, AloneInv, QuietInv, [Next]_vars PROVE \A c \in Calls : Saves(c)
  <2> SUFFICES ASSUME NEW c \in Calls, call[c].pc \in {"insert", "update"}, call[c].quiet,
                      call'[c].pc = "idle", failures' = failures
               PROVE  Exact(call[c].period, closings'[call[c].period])
    OBVIOUS
  <2>1. call[c].period \in Periods /\ Exact(call[c].period, Computed(c))
    BY <1>1, QuietComputesExactly
  <2>2. CallStep(c)
    <3>1. ~UNCHANGED vars
      <4>1. call'[c] # call[c] OBVIOUS
      <4> QED BY <4>1 DEF vars
    <3>2. ~Write
      <4>1. Write => call'[c].pc = call[c].pc
        <5>1. "pc" \in DOMAIN call[c] \ {"quiet"} BY <1>1 DEF IInv, Calling
        <5> QED BY <5>1, <1>1, DisturbSets DEF Write
      <4> QED BY <4>1
    <3>3. PICK d \in Calls : CallStep(d) BY <1>1, <3>1, <3>2 DEF Next
    <3>4. d = c
      <4>0. call \in [Calls -> Calling] BY <1>1 DEF IInv
      <4>1. d # c => call'[c] = call[c] BY <3>3, <4>0, OthersStay, SMTT(30)
      <4> QED BY <4>1
    <3> QED BY <3>3, <3>4
  <2>3. Insert(c) \/ Update(c)
    <3>1. ~Fails(c) BY <1>1, ClosingAssumption DEF Fails, IInv
    <3>2. ~Begin(c) BY DEF Begin, Running
    <3> QED BY <2>2, <3>1, <3>2
            DEF CallStep, ReadTable, ReadBalance, FindExisting, Load
  <2>4. closings' = [closings EXCEPT ![call[c].period] = Computed(c)]
    <3>1. Alone(call[c]) BY <1>1 DEF AloneInv
    <3> QED BY <3>1, <2>3, <1>1, AloneSaves DEF Insert, Update
  <2>5. closings'[call[c].period] = Computed(c)
    <3>1. DOMAIN closings = Periods BY <1>1 DEF IInv, RowsTyped
    <3> QED BY <2>1, <2>4, <3>1
  <2> QED BY <2>1, <2>5
<1>2. IInv /\ AloneInv /\ QuietInv /\ [Next]_vars => [\A c \in Calls : Saves(c)]_vars BY <1>1
<1> QED BY <1>2, AloneInvariance, QuietInvariance, PTL DEF Spec, QuietClosingIsExact


-----------------------------------------------------------------------------
(* The periods among themselves, and the date a period was asked for.      *)

LEMMA PeriodsInOrder ==
  ASSUME OneSideOfUtc, NEW p \in Periods, NEW q \in Periods, p.last < q.first
  PROVE  (Start(p) .. End(p)) \cap (Start(q) .. End(q)) = {}
<1>1. /\ p.last \in Int /\ q.first \in Int /\ p.last \in Days /\ q.first \in Days
      /\ End(p) \in Int /\ Start(q) \in Int /\ Start(p) \in Int /\ End(q) \in Int
  BY PeriodFacts
<1>2. Start(q) = End(p) + (q.first - p.last) BY <1>1, KeysFollow DEF Start, End
<1> QED BY <1>1, <1>2

LEMMA PeriodInside ==
  ASSUME NEW p \in Periods, NEW q \in Periods, q.first <= p.first, p.last <= q.last
  PROVE  Start(p) .. End(p) \subseteq Start(q) .. End(q)
<1>1. /\ p.first \in Days /\ p.last \in Days /\ q.first \in Days /\ q.last \in Days
      /\ Start(p) \in Int /\ End(p) \in Int /\ Start(q) \in Int /\ End(q) \in Int
  BY PeriodFacts
<1>2. Start(q) <= Start(p) /\ End(p) <= End(q) BY <1>1, KeysInOrder DEF Start, End
<1> QED BY <1>1, <1>2

(* Of two periods one ends before the other begins, or a month lies in a   *)
(* quarter, or they are the same.                                          *)
LEMMA PeriodsAreNested ==
  ASSUME NEW p \in Periods, NEW q \in Periods
  PROVE  \/ p = q
         \/ p.last < q.first
         \/ q.last < p.first
         \/ p.type # q.type /\ q.first <= p.first /\ p.last <= q.last
         \/ p.type # q.type /\ p.first <= q.first /\ q.last <= p.last
<1>1. PICK m \in Months, a \in {1, 3} :
        /\ m + a \in Months /\ p = Period(p.type, m, a) /\ p.type \in Types
        /\ p.first = MonthStart[m] /\ p.last = MonthStart[m + a] - 1
        /\ a = IF p.type = "quarterly" THEN 3 ELSE 1
        /\ a = 3 => \E k \in Int : m = 3 * k
  BY PeriodIsMonths
<1>2. PICK n \in Months, b \in {1, 3} :
        /\ n + b \in Months /\ q = Period(q.type, n, b) /\ q.type \in Types
        /\ q.first = MonthStart[n] /\ q.last = MonthStart[n + b] - 1
        /\ b = IF q.type = "quarterly" THEN 3 ELSE 1
        /\ b = 3 => \E k \in Int : n = 3 * k
  BY PeriodIsMonths
<1>3. /\ m \in Int /\ n \in Int /\ a \in Int /\ b \in Int
      /\ \A x \in Months : x \in Int /\ MonthStart[x] \in Int
      /\ \A x, y \in Months : x <= y => MonthStart[x] <= MonthStart[y]
  <2>1. \A x \in Months : x \in Int /\ MonthStart[x] \in Int BY CalendarAssumption
  <2>2. ASSUME NEW x \in Months, NEW y \in Months, x <= y PROVE MonthStart[x] <= MonthStart[y]
    <3>1. x = y \/ x < y BY <2>1, <2>2
    <3> QED BY <3>1, <2>1, CalendarAssumption
  <2> QED BY <2>1, <2>2
<1>4. CASE m + a <= n
  <2>1. MonthStart[m + a] <= MonthStart[n] BY <1>1, <1>2, <1>3, <1>4
  <2> QED BY <2>1, <1>1, <1>2, <1>3
<1>5. CASE n + b <= m
  <2>1. MonthStart[n + b] <= MonthStart[m] BY <1>1, <1>2, <1>3, <1>5
  <2> QED BY <2>1, <1>1, <1>2, <1>3
<1>6. CASE n < m + a /\ m < n + b
  <2>1. CASE a = b
    <3>1. p.type = q.type
      <4>1. p.type \in {"monthly", "quarterly"} /\ q.type \in {"monthly", "quarterly"}
        BY <1>1, <1>2, ClosingAssumption
      <4>2. a = IF p.type = "quarterly" THEN 3 ELSE 1 BY <1>1, Zenon
      <4>3. b = IF q.type = "quarterly" THEN 3 ELSE 1 BY <1>2, Zenon
      <4>4. CASE p.type = "quarterly"
        <5>1. a = 3 BY <4>2, <4>4
        <5>2. q.type = "quarterly" BY <5>1, <2>1, <4>3
        <5> QED BY <4>4, <5>2
      <4>5. CASE p.type # "quarterly"
        <5>1. a = 1 BY <4>2, <4>5
        <5>2. q.type # "quarterly" BY <5>1, <2>1, <4>3
        <5> QED BY <4>1, <4>5, <5>2
      <4> QED BY <4>4, <4>5
    <3>2. m = n
      <4>1. CASE a = 1 BY <4>1, <2>1, <1>3, <1>6
      <4>2. CASE a = 3
        <5>1. PICK k \in Int : m = 3 * k BY <4>2, <1>1
        <5>2. PICK l \in Int : n = 3 * l BY <4>2, <2>1, <1>2
        <5> QED BY <5>1, <5>2, <4>2, <2>1, <1>6
      <4> QED BY <4>1, <4>2
    <3> QED BY <3>1, <3>2, <2>1, <1>1, <1>2
  <2>2. CASE a = 1 /\ b = 3
    <3>1. p.type # q.type BY <2>2, <1>1, <1>2
    <3>2. n <= m /\ m + a <= n + b
      <4>1. PICK l \in Int : n = 3 * l BY <2>2, <1>2
      <4> QED BY <4>1, <2>2, <1>3, <1>6
    <3>3. MonthStart[n] <= MonthStart[m] /\ MonthStart[m + a] <= MonthStart[n + b]
      BY <3>2, <1>1, <1>2, <1>3
    <3> QED BY <3>1, <3>3, <1>1, <1>2, <1>3
  <2>3. CASE a = 3 /\ b = 1
    <3>1. p.type # q.type BY <2>3, <1>1, <1>2
    <3>2. m <= n /\ n + b <= m + a
      <4>1. PICK k \in Int : m = 3 * k BY <2>3, <1>1
      <4> QED BY <4>1, <2>3, <1>3, <1>6
    <3>3. MonthStart[m] <= MonthStart[n] /\ MonthStart[n + b] <= MonthStart[m + a]
      BY <3>2, <1>1, <1>2, <1>3
    <3> QED BY <3>1, <3>3, <1>1, <1>2, <1>3
  <2> QED BY <2>1, <2>2, <2>3
<1> QED BY <1>3, <1>4, <1>5, <1>6

(* The closings of a client never overlap but for a month in its quarter,  *)
(* in every calendar and in every zone that keeps one side of UTC: two     *)
(* dates of one month never make two closings.                             *)
THEOREM ClosingsFitTogether ==
  ASSUME OneSideOfUtc
  PROVE  (Spec => []PeriodsFit) /\ (RestingSpec => []PeriodsFit)
<1>1. PeriodsFit
  <2> SUFFICES ASSUME NEW p \in Periods, NEW q \in Periods
               PROVE  LET inP == Start(p) .. End(p)
                          inQ == Start(q) .. End(q)
                      IN  \/ p = q
                          \/ inP \cap inQ = {}
                          \/ p.type # q.type /\ (inP \subseteq inQ \/ inQ \subseteq inP)
    BY DEF PeriodsFit, ListClosings
  <2>1. CASE p.last < q.first BY <2>1, PeriodsInOrder
  <2>2. CASE q.last < p.first
    <3>1. (Start(q) .. End(q)) \cap (Start(p) .. End(p)) = {} BY <2>2, PeriodsInOrder
    <3> QED BY <3>1
  <2>3. CASE p.type # q.type /\ q.first <= p.first /\ p.last <= q.last BY <2>3, PeriodInside
  <2>4. CASE p.type # q.type /\ p.first <= q.first /\ q.last <= p.last BY <2>4, PeriodInside
  <2> QED BY <2>1, <2>2, <2>3, <2>4, PeriodsAreNested
<1> QED BY <1>1, PTL DEF Spec, RestingSpec

(* The zone is UTC, where clocks never change: a local day is the UTC day  *)
(* of the same number.                                                     *)
AtUtc == Skips = {} /\ \A d \in Days : Offset[d] = 0

LEMMA DayAtUtc ==
  ASSUME AtUtc
  PROVE  /\ OneSideOfUtc
         /\ \A d \in Days : DateKey(d) = d
         /\ \A t \in Instants : UtcDay(t) = LocalDay(t)
<1>0. DayTicks \in Nat \ {0} BY CalendarAssumption
<1>1. OneSideOfUtc BY <1>0 DEF AtUtc, OneSideOfUtc
<1>2. ASSUME NEW d \in Days PROVE DateKey(d) = d
  <2>1. d \in Int /\ Midnight(d) = DayTicks * d BY <1>0, CalendarAssumption DEF AtUtc, Midnight
  <2>2. DayTicks * d \in Int BY <1>0, <2>1
  <2>3. (DayTicks * d) \div DayTicks = d BY <1>0, <2>1, <2>2, DivIs
  <2> QED BY <2>1, <2>3 DEF DateKey, UtcDay
<1>3. ASSUME NEW t \in Instants PROVE UtcDay(t) = LocalDay(t)
  <2> DEFINE d == LocalDay(t)
  <2>1. t \in Int /\ d \in Days /\ d + 1 \in Days /\ Midnight(d) <= t /\ t < Midnight(d + 1)
    BY CoverageAssumption DEF Covers
  <2> HIDE DEF d
  <2>2. d \in Int /\ Midnight(d) = DayTicks * d /\ Midnight(d + 1) = DayTicks * d + DayTicks
    BY <1>0, <2>1, CalendarAssumption DEF AtUtc, Midnight
  <2>3. t \div DayTicks = d BY <1>0, <2>1, <2>2, DivIs
  <2> QED BY <2>3 DEF UtcDay, d
<1> QED BY <1>1, <1>2, <1>3

(* The period of a date holds its local day.                               *)
LEMMA PeriodHoldsDay ==
  ASSUME NEW type \in Types, NEW t \in Instants
  PROVE  LET p == PeriodOf(type, LocalDay(t)) IN
         p \in Periods /\ LocalDay(t) \in p.first .. p.last
<1> DEFINE d == LocalDay(t)
           m == MonthOf(d)
           q == 3 * QuarterOf(d)
           p == PeriodOf(type, d)
<1>1. /\ m \in Months /\ m + 1 \in Months /\ q \in Months /\ q + 3 \in Months
      /\ d \in Days /\ MonthStart[m] <= d /\ d < MonthStart[m + 1]
  BY CoverageAssumption DEF Covers
<1>2. m \in Int /\ q \in Int /\ d \in Int /\ MonthStart[m] \in Int /\ MonthStart[m + 1] \in Int
      /\ MonthStart[q] \in Int /\ MonthStart[q + 3] \in Int
  BY <1>1, CalendarAssumption
<1> HIDE DEF m
<1>3. q <= m /\ m + 1 <= q + 3 BY <1>2 DEF q, m, QuarterOf
<1>4. MonthStart[q] <= MonthStart[m] /\ MonthStart[m + 1] <= MonthStart[q + 3]
  <2> HIDE DEF q
  <2>1. q = m \/ q < m BY <1>2, <1>3
  <2>2. m + 1 = q + 3 \/ m + 1 < q + 3 BY <1>2, <1>3
  <2> QED BY <2>1, <2>2, <1>1, <1>2, CalendarAssumption
<1>5. p \in Periods BY DEF Periods
<1>6. p.first <= d /\ d <= p.last /\ p.first \in Int /\ p.last \in Int
  <2> HIDE DEF d, q
  <2>1. CASE type = "quarterly"
    <3>1. p = Period(type, q, 3) BY <2>1 DEF PeriodOf, q
    <3>2. p.first = MonthStart[q] /\ p.last = MonthStart[q + 3] - 1 BY <3>1 DEF Period
    <3> QED BY <3>2, <1>1, <1>2, <1>4
  <2>2. CASE type # "quarterly"
    <3>1. p = Period(type, m, 1) BY <2>2 DEF PeriodOf, m
    <3>2. p.first = MonthStart[m] /\ p.last = MonthStart[m + 1] - 1 BY <3>1 DEF Period
    <3> QED BY <3>2, <1>1, <1>2
  <2> QED BY <2>1, <2>2
<1> HIDE DEF p, d
<1>7. d \in p.first .. p.last BY <1>2, <1>6
<1> QED BY <1>5, <1>7 DEF p, d

(* In UTC the period closed holds the date that was asked for, whoever     *)
(* else calls; west and east of it the checker finds dates it does not.    *)
THEOREM PeriodsHoldReferences ==
  ASSUME AtUtc
  PROVE  /\ Spec => []PeriodHoldsReference
         /\ IsFiniteSet(Movements) => (RestingSpec => []PeriodHoldsReference)
<1>1. IInv => PeriodHoldsReference
  <2> SUFFICES ASSUME IInv, NEW c \in Calls, Running(c)
               PROVE  UtcDay(call[c].asked) \in Start(call[c].period) .. End(call[c].period)
    BY DEF PeriodHoldsReference
  <2> DEFINE t == call[c].asked
             p == call[c].period
  <2>1. t \in Instants /\ \E type \in Types : p = PeriodOf(type, LocalDay(t))
    BY DEF IInv, Fits, Runs, Running
  <2>2. p \in Periods /\ LocalDay(t) \in p.first .. p.last BY <2>1, PeriodHoldsDay
  <2> HIDE DEF p, t
  <2>3. p.first \in Days /\ p.last \in Days BY <2>2, PeriodFacts
  <2>4. Start(p) = p.first /\ End(p) = p.last BY <2>3, DayAtUtc DEF Start, End
  <2>5. UtcDay(t) = LocalDay(t) BY <2>1, DayAtUtc
  <2> QED BY <2>2, <2>4, <2>5 DEF p, t
<1>2. ASSUME IsFiniteSet(Movements) PROVE RestingSpec => []IInv
  <2>1. RestingInit => IInv BY <1>2, RestingInitKeeps
  <2>2. IInv /\ [\E c \in Calls : CallStep(c)]_vars => IInv' BY CallStepKeeps, StutterKeeps
  <2> QED BY <2>1, <2>2, PTL DEF RestingSpec
<1>3. (RestingSpec => []IInv) => (RestingSpec => []PeriodHoldsReference) BY <1>1, PTL
<1>4. Spec => []PeriodHoldsReference BY <1>1, Invariance, PTL
<1> QED BY <1>2, <1>3, <1>4


-----------------------------------------------------------------------------
(* A ledger at rest: however many calls overlap, fail and write over one   *)
(* another, a row is what each of them would have computed.                *)

(* Balances recorded at one instant are of one amount: of three that are   *)
(* not, two calls could each keep some columns of the other's row.         *)
NoTies ==
  \A r, s \in Marks : r.kind = "balance" /\ s.kind = "balance" /\ r.at = s.at => r.amount = s.amount

LEMMA OpeningIsOne ==
  ASSUME NoTies, LedgerTyped, NEW p, NEW o1 \in Openings(p), NEW o2 \in Openings(p)
  PROVE  o1 = o2
<1> DEFINE B == {b \in Of({"balance"}) : b.at <= Midnight(p.first)}
<1>1. o1 \in {Worth(r) : r \in LatestOf(B)} /\ o2 \in {Worth(r) : r \in LatestOf(B)}
  BY DEF Openings, BalancesAt
<1>2. \A r \in B : r \in Marks /\ r.kind = "balance" /\ r.at \in Int
  BY LedgerAssumption DEF LedgerTyped, Of
<1> HIDE DEF B
<1>3. PICK r \in LatestOf(B) : o1 = Worth(r) BY <1>1
<1>4. PICK s \in LatestOf(B) : o2 = Worth(s) BY <1>1
<1>5. CASE B = {}
  <2>1. r = None /\ s = None BY <1>5, <1>3, <1>4 DEF LatestOf
  <2> QED BY <2>1, <1>3, <1>4
<1>6. CASE B # {}
  <2>1. r \in B /\ s \in B /\ r.at <= s.at /\ s.at <= r.at BY <1>6, <1>3, <1>4 DEF LatestOf
  <2>2. r.amount = s.amount
    <3>1. r.at = s.at BY <2>1, <1>2
    <3> QED BY <3>1, <2>1, <1>2 DEF NoTies
  <2>3. r # None /\ s # None BY <2>1, <1>2, NullAssumption
  <2> QED BY <2>2, <2>3, <1>3, <1>4 DEF Worth
<1> QED BY <1>5, <1>6

True(p, row) == \E o \in Openings(p) : row = Summary(p, InRange(p), o)

RestInv ==
  /\ \A c \in Calls : /\ call[c].quiet
                      /\ call[c].pc \in {"load", "update"} => closings[call[c].period] # None
  /\ \A p \in Periods : closings[p] # None => True(p, closings[p])

LEMMA SameColumns ==
  ASSUME NEW p, NEW r \in RowsOf(p), NEW l
  PROVE  [column \in DOMAIN r |-> IF r[column] # l[column] THEN r[column] ELSE r[column]] = r
<1> DEFINE Fields == {"incomeTotal", "expenseTotal", "netTotal", "startingBalance",
                      "endingBalance", "dayOfCashShort", "lowIncomeDays",
                      "lowIncomeDaysCount", "healthStatus"}
<1>1. r = [column \in Fields |-> r[column]] /\ DOMAIN r = Fields BY DEF RowsOf
<1>2. \A column \in Fields : (IF r[column] # l[column] THEN r[column] ELSE r[column]) = r[column]
  OBVIOUS
<1> HIDE DEF Fields
<1>3. [column \in Fields |-> IF r[column] # l[column] THEN r[column] ELSE r[column]]
        = [column \in Fields |-> r[column]]
  BY <1>2, Zenon
<1> QED BY <1>1, <1>3

(* A call that writes finds no row, or one that has its own values.        *)
LEMMA RestingSaves ==
  ASSUME OneSideOfUtc, NoTies, IInv, QuietInv, RestInv, NEW c \in Calls,
         \/ call[c].pc = "insert" /\ closings' = Inserted(c)
         \/ call[c].pc = "update" /\ closings' = Updated(c)
  PROVE  \/ UNCHANGED closings
         \/ /\ closings[call[c].period] = None
            /\ closings' = [closings EXCEPT ![call[c].period] = Computed(c)]
            /\ True(call[c].period, Computed(c))
<1> DEFINE q == call[c].period
           r == closings[q]
           l == call[c].loaded
<1>1. call[c].quiet BY DEF RestInv
<1>2. q \in Periods /\ call[c].opening \in Openings(q)
      /\ Computed(c) = Summary(q, InRange(q), call[c].opening)
  BY <1>1, QuietComputesExactly
<1>3. True(q, Computed(c)) BY <1>2 DEF True
<1>4. closings \in [Periods -> AnyRow \cup {None}] BY DEF IInv, RowsTyped
<1>5. CASE call[c].pc = "insert" /\ closings' = Inserted(c) BY <1>3, <1>5 DEF Inserted
<1>6. CASE call[c].pc = "update" /\ closings' = Updated(c)
  <2>1. r \in RowsOf(q) /\ r # None BY <1>6 DEF IInv, Fits, Runs, RestInv
  <2>2. PICK o \in Openings(q) : r = Summary(q, InRange(q), o) BY <1>2, <2>1 DEF RestInv, True
  <2>3. o = call[c].opening
    <3> HIDE DEF q
    <3> QED BY <1>2, <2>2, OpeningIsOne DEF IInv
  <2>4. Computed(c) = r BY <1>2, <2>2, <2>3
  <2> DEFINE m == [column \in DOMAIN r |-> IF r[column] # l[column] THEN r[column] ELSE r[column]]
  <2>5. closings' = [closings EXCEPT ![q] = m] BY <1>2, <1>4, <1>6, <2>4 DEF Updated
  <2>6. m = r
    <3> HIDE DEF q, r, l
    <3> QED BY <2>1, SameColumns
  <2> HIDE DEF m
  <2>7. closings' = [closings EXCEPT ![q] = closings[q]] BY <2>5, <2>6
  <2> HIDE DEF q
  <2> QED BY <2>7, <1>4
<1> QED BY <1>5, <1>6

LEMMA RestingStep ==
  ASSUME OneSideOfUtc, NoTies, IInv, QuietInv, RestInv, NEW c \in Calls, CallStep(c)
  PROVE  RestInv'
<1>1. UNCHANGED ledger BY CallStepWrites
<1>2. \A p : InRange(p)' = InRange(p) /\ Openings(p)' = Openings(p)
  BY <1>1 DEF ledger, InRange, Between, Openings, BalancesAt, Of
<1>3. \/ UNCHANGED closings
      \/ /\ call[c].period \in Periods /\ closings[call[c].period] = None
         /\ closings' = [closings EXCEPT ![call[c].period] = Computed(c)]
         /\ True(call[c].period, Computed(c))
  <2>1. CASE /\ call[c].pc \in {"insert", "update"}
             /\ \/ call[c].pc = "insert" /\ closings' = Inserted(c)
                \/ call[c].pc = "update" /\ closings' = Updated(c)
    <3>1. call[c].period \in Periods BY <2>1, WriterHasRead
    <3> QED BY <2>1, <3>1, RestingSaves
  <2>2. \/ UNCHANGED closings
        \/ call[c].pc = "insert" /\ closings' = Inserted(c)
        \/ call[c].pc = "update" /\ closings' = Updated(c)
    BY CallStepWrites
  <2> QED BY <2>1, <2>2
<1>4. ASSUME NEW p \in Periods
      PROVE  \/ closings'[p] = closings[p]
             \/ closings[p] = None /\ True(p, closings'[p])
  <2>1. CASE UNCHANGED closings BY <2>1
  <2>2. CASE /\ call[c].period \in Periods /\ closings[call[c].period] = None
             /\ closings' = [closings EXCEPT ![call[c].period] = Computed(c)]
             /\ True(call[c].period, Computed(c))
    BY <2>2 DEF IInv, RowsTyped
  <2> QED BY <2>1, <2>2, <1>3
<1>5. ASSUME NEW p \in Periods, closings'[p] # None PROVE True(p, closings[p])'
  <2>1. True(p, closings'[p]) BY <1>4, <1>5 DEF RestInv
  <2>2. PICK o \in Openings(p) : closings'[p] = Summary(p, InRange(p), o) BY <2>1 DEF True
  <2>3. InRange(p)' = InRange(p) /\ o \in Openings(p)' BY <1>2
  <2> QED BY <2>2, <2>3 DEF True
<1>6. ASSUME NEW d \in Calls
      PROVE  call'[d].quiet /\ (call'[d].pc \in {"load", "update"} => closings'[call'[d].period] # None)
  <2>0. call[d].quiet /\ (call[d].pc \in {"load", "update"}
                            => call[d].period \in Periods /\ closings[call[d].period] # None)
    BY DEF RestInv, IInv, Fits, Runs
  <2>1. CASE d # c
    <3>1. call'[d] = call[d] BY <2>1, OthersStay DEF IInv
    <3> QED BY <3>1, <2>0, <1>4
  <2>2. CASE d = c
    <3>1. CASE Begin(c) BY <3>1, <2>2, BeginSets
    <3>2. CASE \E table \in Tables : ReadTable(c, table)
      <4>1. PICK table \in Tables : ReadTable(c, table) BY <3>2
      <4> QED BY <4>1, <2>0, <2>2, ReadTableSets
    <3>3. CASE ReadBalance(c) BY <3>3, <2>0, <2>2, ReadBalanceSets
    <3>4. CASE FindExisting(c)
      <4>1. /\ call'[c].pc = IF closings[call[c].period] = None THEN "insert" ELSE "load"
            /\ call'[c].period = call[c].period /\ call'[c].quiet = call[c].quiet
            /\ closings' = closings
        BY <3>4, FindExistingSets
      <4> QED BY <4>1, <2>0, <2>2
    <3>5. CASE Load(c)
      <4>1. /\ call[c].pc = "load" /\ call'[c].period = call[c].period
            /\ call'[c].quiet = call[c].quiet /\ closings' = closings
        BY <3>5, LoadSets
      <4> QED BY <4>1, <2>0, <2>2
    <3>6. CASE \E pc \in {"idle", "refused"} : Ends(c, pc)
      <4>1. PICK pc \in {"idle", "refused"} : Ends(c, pc) BY <3>6
      <4> QED BY <4>1, <2>2, EndsSets
    <3>7. CASE Insert(c) \/ Update(c) \/ Fails(c)
      <4>1. \E pc \in {"idle", "refused"} : Ends(c, pc) BY <3>7 DEF Insert, Update, Fails
      <4> QED BY <3>6, <4>1
    <3>8. \/ Begin(c) \/ (\E table \in Tables : ReadTable(c, table)) \/ ReadBalance(c)
          \/ FindExisting(c) \/ Load(c) \/ Insert(c) \/ Update(c) \/ Fails(c)
      BY DEF CallStep
    <3> QED BY <3>1, <3>2, <3>3, <3>4, <3>5, <3>7, <3>8
  <2> QED BY <2>1, <2>2
<1> QED BY <1>5, <1>6 DEF RestInv

LEMMA TrueIsExact ==
  ASSUME OneSideOfUtc, IInv, NEW p \in Periods, NEW row, True(p, row)
  PROVE  Exact(p, row)
<1>1. PICK o \in Openings(p) : row = Summary(p, InRange(p), o) BY DEF True
<1>2. o \in Int
  <2>1. o \in Nat BY <1>1, OpeningsAreNat DEF IInv, Openings
  <2> QED BY <2>1
<1>3. Counted(InRange(p)) /\ \A m \in InRange(p) : m.day \in Int
  <2>1. InRange(p) \in SUBSET movements BY DEF InRange, Between
  <2> QED BY <2>1, LedgerIsCounted DEF IInv
<1> QED BY <1>1, <1>2, <1>3, SummaryIsExact

(* Over a ledger at rest any number of calls may overlap, fail and repeat: *)
(* every row agrees with the ledger, for every calendar and ledger, in     *)
(* every zone that keeps one side of UTC, but for the last day of a period *)
(* in which a day has no midnight, which the loop does not come to.        *)
THEOREM RestingRowsAreExact ==
  ASSUME OneSideOfUtc, NoTies, IsFiniteSet(Movements)
  PROVE  RestingSpec => []RestingClosingsAreExact
<1>1. RestingInit => IInv /\ QuietInv /\ RestInv
  <2> SUFFICES ASSUME RestingInit PROVE IInv /\ QuietInv /\ RestInv OBVIOUS
  <2>1. IInv BY RestingInitKeeps
  <2>2. QuietInv BY QuietStarts DEF RestingInit
  <2>3. Idle.quiet /\ Idle.pc = "idle" BY DEF Idle
  <2>4. RestInv BY <2>3 DEF RestInv, RestingInit
  <2> QED BY <2>1, <2>2, <2>4
<1>2. IInv /\ QuietInv /\ RestInv /\ [\E c \in Calls : CallStep(c)]_vars
        => IInv' /\ QuietInv' /\ RestInv'
  <2> SUFFICES ASSUME IInv, QuietInv, RestInv, [\E c \in Calls : CallStep(c)]_vars
               PROVE  IInv' /\ QuietInv' /\ RestInv'
    OBVIOUS
  <2>1. CASE \E c \in Calls : CallStep(c)
    BY <2>1, CallStepKeeps, QuietStep, RestingStep
  <2>2. CASE UNCHANGED vars
    <3>1. RestInv'
      <4>1. closings' = closings /\ call' = call BY <2>2 DEF vars
      <4>2. \A p : InRange(p)' = InRange(p) /\ Openings(p)' = Openings(p)
        BY <2>2 DEF vars, InRange, Between, Openings, BalancesAt, Of
      <4>3. ASSUME NEW p \in Periods, closings'[p] # None PROVE True(p, closings[p])'
        <5>1. PICK o \in Openings(p) : closings'[p] = Summary(p, InRange(p), o)
          BY <4>1, <4>3 DEF RestInv, True
        <5> QED BY <5>1, <4>2 DEF True
      <4> QED BY <4>1, <4>3 DEF RestInv
    <3> QED BY <2>2, <3>1, StutterKeeps, QuietStutter
  <2> QED BY <2>1, <2>2
<1>3. IInv /\ RestInv => RestingClosingsAreExact
  BY TrueIsExact DEF RestInv, RestingClosingsAreExact
<1> QED BY <1>1, <1>2, <1>3, PTL DEF RestingSpec

=============================================================================
