------------------------------- MODULE Reports -------------------------------
(***************************************************************************)
(* The reports of finance.service.ts.  getCashflow projects the balance    *)
(* day by day over the coming months and says how long the money lasts;    *)
(* getIndicators sums the latest stock and reserves.  Each reads its       *)
(* tables in several queries while they are written, and computes all      *)
(* else from what they returned.  A report only reads, so that one request *)
(* at a time stands for any number of them.                                *)
(***************************************************************************)
EXTENDS Ledger, Sequences

CONSTANTS
  Nows,      \* the instants at which a projection is asked for
  Horizons   \* the numbers of months asked for

ASSUME ReportAssumption == Horizons \subseteq Nat \ {0}

VARIABLE query  \* the request being answered

vars == <<movements, marks, query>>

Parts == {"stock", "reserve", "investment"}

(* quiet: nothing was recorded since the request came; then: the       *)
(* assets there were when it came.  Neither is in the code.                *)
Idle == [report |-> "none", pc |-> "idle", asked |-> 0, first |-> 0, last |-> 0, end |-> 0,
         read |-> {}, counted |-> {}, opening |-> 0, found |-> [part \in Parts |-> None],
         quiet |-> TRUE, then |-> {}]

-----------------------------------------------------------------------------
(* What getCashflow computes.                                              *)

LastNegative(sum, n) ==   \* mutant: set at every turn, not only while null
  LET S == {i \in 1 .. n : sum[i] < 0} IN IF S = {} THEN None ELSE Max(S)

FirstNegative(sum, n) ==
  LET S == {i \in 1 .. n : sum[i] < 0} IN IF S = {} THEN None ELSE Min(S)

RunningBehind(keys, daily, opening) ==   \* mutant: a day is added at the next turn
  LET sum[i \in 0 .. Len(keys)] == IF i <= 1 THEN opening ELSE sum[i - 1] + daily[keys[i - 1]]
  IN  sum

(* The sums after each turn of a loop over keys that adds daily[key]. *)
Running(keys, daily, opening) ==
  LET sum[i \in 0 .. Len(keys)] == IF i = 0 THEN opening ELSE sum[i - 1] + daily[keys[i]]
  IN  sum

(* startDate plus n months, then less one day; endDate is in it. *)
LastDay(first, n) == PlusMonths(first, n) - 1
EndDate(first, n) == Moved(LastDay(first, n), {first, PlusMonths(first, n)})

(* The calendar reaches over every projection and every list asked for.    *)
ASSUME HorizonAssumption ==
  \A t \in Nows, n \in Horizons :
    LET first == LocalDay(t)
        m     == MonthOf(first) + n
    IN  Covers(t) /\ {m, m + 1} \subseteq Months /\ first .. LastDay(first, n) \subseteq Days

ASSUME ListAssumption ==
  \A r, s \in Marks : \A d \in UtcDay(r.at) .. UtcDay(s.at) + 1 : Covers(d * DayTicks)

(* The loop visits the days whose cursor has not passed endDate. *)
Turns(q) == {d \in q.first .. q.last : Cursor(q.first, d) <= q.end}

Projection(q) ==
  LET n       == Cardinality(Turns(q))
      keys    == [i \in 1 .. n |-> UtcDay(Cursor(q.first, q.first + i - 1))]
      Keys    == {keys[i] : i \in 1 .. n}
      income  == [k \in Keys |-> Total(Only("income", On(q.counted, k)))]
      expense == [k \in Keys |-> Total(Only("expense", On(q.counted, k)))]
      net     == [k \in Keys |-> income[k] - expense[k]]
      balance == Running(keys, net, q.opening)
      spent   == Running(keys, [k \in Keys |-> -expense[k]], q.opening)
      short   == FirstNegative(balance, n)
      runway  == IF q.opening < 0 THEN 0 ELSE FirstNegative(spent, n)
      monthly(m) ==
        LET turns  == {i \in 1 .. n : MonthOf(keys[i]) = m}
            sum(f) == SumFunction([i \in turns |-> f[keys[i]]])
        IN  [month |-> m, income |-> sum(income), expense |-> sum(expense),
             net |-> sum(net), endingBalance |-> balance[Max(turns)]]
  IN  [startDate       |-> DateKey(q.first),
       endDate         |-> UtcDay(q.end),
       startingBalance |-> q.opening,
       endingBalance   |-> balance[n],
       dayOfCashShort  |-> IF short = None THEN None ELSE keys[short],
       runwayDays      |-> runway,
       runwayEndsOn    |-> CASE runway = None -> None
                             [] runway = 0    -> DateKey(q.first)
                             [] OTHER         -> keys[runway],
       days            |-> [i \in 1 .. n |-> [date |-> keys[i], net |-> net[keys[i]], balance |-> balance[i]]],
       months          |-> {monthly(MonthOf(k)) : k \in Keys}]

(* What getIndicators computes. *)
AssetsSummedTwice(found) ==   \* mutant: the total takes the reserve for both
  Worth(found["stock"]) + Worth(found["reserve"]) + Worth(found["reserve"])

TotalAssets(found) ==
  LET reservesTotal == Worth(found["reserve"]) + Worth(found["investment"])
  IN  Worth(found["stock"]) + reservesTotal

-----------------------------------------------------------------------------
(* The movements between startKey and endKey. *)
Due(q) == Between(DateKey(q.first), UtcDay(q.end))

Init == movements = {} /\ marks = {} /\ query = Idle

Free == query.pc \in {"idle", "answered"}

(* An answer is looked at before the next write. *)
Write == Create /\ query' = IF Free THEN Idle ELSE [query EXCEPT !.quiet = FALSE]

GetCashflow ==
  /\ Free
  /\ \E t \in Nows, n \in Horizons :
       LET first == LocalDay(t) IN
       query' = [Idle EXCEPT !.report = "cashflow", !.pc = "read", !.asked = t, !.first = first,
                             !.last = LastDay(first, n), !.end = EndDate(first, n)]
  /\ UNCHANGED ledger

ReadTableAnew(table) ==   \* mutant: the second answer replaces the first
  /\ query.report = "cashflow" /\ query.pc = "read"
  /\ table \notin query.read
  /\ LET due  == Due(query)
         read == query.read \cup {table}
     IN  query' = [query EXCEPT !.read = read,
                                !.counted = {m \in due : m.table = table},
                                !.pc = IF read = Tables THEN "balance" ELSE "read"]
  /\ UNCHANGED ledger

ReadTableRace(table) ==   \* mutant: Promise.race for Promise.all
  /\ query.report = "cashflow" /\ query.pc = "read"
  /\ LET due == Due(query)
     IN  query' = [query EXCEPT !.read = {table}, !.pc = "balance",
                                !.counted = {m \in due : m.table = table}]
  /\ UNCHANGED ledger

(* The two queries of the Promise.all answer in either order. *)
ReadTable(table) ==
  /\ query.report = "cashflow" /\ query.pc = "read"
  /\ table \notin query.read
  /\ LET due  == Due(query)
         read == query.read \cup {table}
     IN  query' = [query EXCEPT !.read = read,
                                !.counted = @ \cup {m \in due : m.table = table},
                                !.pc = IF read = Tables THEN "balance" ELSE "read"]
  /\ UNCHANGED ledger

ReadBalance ==
  /\ query.pc = "balance"
  /\ \E opening \in BalancesAt(query.end) :
       query' = [query EXCEPT !.opening = opening, !.pc = "answered"]
  /\ UNCHANGED ledger

GetIndicators ==
  /\ Free
  /\ query' = [Idle EXCEPT !.report = "indicators", !.pc = "read", !.then = Of(Parts)]
  /\ UNCHANGED ledger

(* The three queries of the Promise.all answer in any order. *)
ReadPart(part) ==
  /\ query.report = "indicators" /\ query.pc = "read"
  /\ part \notin query.read
  /\ LET read == query.read \cup {part} IN
     \E row \in LatestOf(Of({part})) :
       query' = [query EXCEPT !.read = read, !.found[part] = row,
                              !.pc = IF read = Parts THEN "answered" ELSE "read"]
  /\ UNCHANGED ledger

(* A query rejects: the caller gets an error and nothing has changed. *)
Fails ==
  /\ ~Free
  /\ query' = Idle
  /\ UNCHANGED ledger

Next ==
  \/ Write
  \/ GetCashflow \/ (\E table \in Tables : ReadTable(table)) \/ ReadBalance
  \/ GetIndicators \/ (\E part \in Parts : ReadPart(part))
  \/ Fails

Spec == Init /\ [][Next]_vars

-----------------------------------------------------------------------------
Projected == query.report = "cashflow" /\ query.pc = "answered"
Assessed  == query.report = "indicators" /\ query.pc = "answered"
Answer    == Projection(query)
Dates     == DateKey(query.first) .. UtcDay(query.end)

TypeOK ==
  /\ movements \subseteq Movements
  /\ marks \subseteq Marks
  /\ query.pc \in {"idle", "read", "balance", "answered"}
  /\ query.counted \subseteq movements
  /\ \A part \in Parts : query.found[part] \in marks \cup {None}
  /\ Projected => query.read = Tables /\ Answer.dayOfCashShort \in Dates \cup {None}
  /\ Assessed => query.read = Parts

(* The loop loses the last day when a day has no midnight but endDate      *)
(* still is one: it is the first day and the day after the last that put   *)
(* endDate behind too.                                                     *)
LosesLast ==
  /\ query.last \notin Skips /\ Skips \cap (query.first .. query.last) # {}
  /\ query.end = Midnight(query.last)
Seen == DateKey(query.first) .. DateKey(query.last - IF LosesLast THEN 1 ELSE 0)

(* The answer of getCashflow said without its loop, day by day, over the   *)
(* dates it comes to; S is the set of movements it should have counted.    *)
Exact(S) ==
  LET a         == Answer
      upTo(day) == a.startingBalance + Net({m \in S : m.day <= day})
      left(day) == a.startingBalance - Total(Only("expense", {m \in S : m.day <= day}))
      earliest(D) == IF D = {} THEN None ELSE Min(D)
      inMonth(m) == {d \in Seen : MonthOf(d) = m}
  IN  /\ [i \in DOMAIN a.days |-> a.days[i].date] = [i \in 1 .. Cardinality(Seen) |-> a.startDate + i - 1]
      /\ \A i \in DOMAIN a.days : a.days[i].balance = upTo(a.days[i].date)
      /\ a.endingBalance = upTo(Max(Seen))
      /\ a.dayOfCashShort = earliest({d \in Seen : upTo(d) < 0})
      /\ a.runwayEndsOn = earliest({d \in Seen : left(d) < 0})
      /\ a.runwayDays = IF a.runwayEndsOn = None THEN None ELSE a.runwayEndsOn - a.startDate + 1
      /\ {r.month : r \in a.months} = {MonthOf(d) : d \in Seen}
      /\ \A r \in a.months :
           LET due == {m \in S : m.day \in inMonth(r.month)} IN
           /\ r.income = Total(Only("income", due))
           /\ r.expense = Total(Only("expense", due))
           /\ r.net = Net(due)
           /\ r.endingBalance = upTo(Max(inMonth(r.month)))

(* A projection of a ledger that nobody writes meanwhile is exact: every   *)
(* day it comes to once, every movement listed for it once, the months add *)
(* up to the days, and the day of cash shortage and the runway are the     *)
(* earliest there are.                                                     *)
QuietProjectionIsExact ==
  (Projected /\ query.quiet) =>
    /\ Exact(ListEntries(Min(Dates), Max(Dates)) \cup ListProvisions(Min(Dates), Max(Dates)))
    /\ Answer.startingBalance \in BalancesAt(query.end)

(* Whatever was written between its queries, a projection agrees with      *)
(* itself: it is exact for the movements it happened to read.              *)
ProjectionIsConsistent == Projected => Exact(query.counted)

(* The runway counts no income, so it never outlasts the day on which the  *)
(* projection itself runs out of cash.                                     *)
RunwayEndsFirst ==
  (Projected /\ Answer.dayOfCashShort # None) =>
    /\ Answer.runwayEndsOn # None
    /\ Answer.runwayEndsOn <= Answer.dayOfCashShort

(* Left alone, getIndicators sums the latest stock, the latest reserve and *)
(* the latest investment, each once.                                       *)
QuietIndicatorsAreLatest ==
  (Assessed /\ query.quiet) =>
    /\ \A part \in Parts : query.found[part] \in LatestOf(Of({part}))
    /\ TotalAssets(query.found) = Total({query.found[part] : part \in Parts} \ {None})

(* Whatever is recorded meanwhile, an answer shows nothing older than what *)
(* was there when it was asked for: answers one after another never go     *)
(* back in time.                                                           *)
IndicatorsNeverGoBack ==
  Assessed => \A r \in query.then :
    query.found[r.kind] # None /\ query.found[r.kind].at >= r.at

MarkedDays == {UtcDay(r.at) : r \in Marks}

(* Recorded while the last hour of a local day runs for the second time.   *)
InSecondRun(r) == \E d \in Repeats : LastTick(d) < r.at /\ r.at < Midnight(d + 1)

(* Lists of adjacent dates fit together in a zone that keeps ahead of UTC  *)
(* or behind it: a range holds exactly what the lists of its days hold,    *)
(* what a list ends with the next leaves out, and a value recorded with a  *)
(* bare date (that day's UTC midnight) is listed for that date even where  *)
(* the local day is another.  The one gap: endOfDay is before the second   *)
(* run of an hour that is repeated, and what is recorded in it is missing  *)
(* from the lists that end with that day.                                  *)
ListsTile ==
  LET Assets == {r \in marks \ ListBalances : ~InSecondRun(r)}
      Listed(first, last) == Assets \cap (ListStocks(first, last) \cup ListReserves(first, last))
  IN  query = Idle =>
        /\ \A first \in MarkedDays : \A last \in {d \in MarkedDays : first <= d} :
             /\ Listed(first, last) = UNION {Listed(d, d) : d \in first .. last}
             /\ Listed(None, last) \cap Listed(last + 1, None) = {}
             /\ Listed(None, last) \cup Listed(last + 1, None) = Assets
        /\ \A r \in Assets : r.at % DayTicks = 0 => r \in Listed(UtcDay(r.at), UtcDay(r.at))
=============================================================================
