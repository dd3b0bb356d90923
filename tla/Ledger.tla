------------------------------- MODULE Ledger -------------------------------
(***************************************************************************)
(* The records of one client in finance.service.ts: movements (entries and *)
(* provisions, each of a day) and marks (balances, stocks and reserves,    *)
(* each of an instant), how they are created and listed, and how they are  *)
(* added up.  Rows are only ever inserted.  Every query has the client's   *)
(* id in its condition, so clients never meet.                             *)
(***************************************************************************)
EXTENDS Calendar, FiniteSets, FiniteSetsExt

CONSTANTS
  Movements,   \* the entries and provisions a user may record:
               \* [table, type, amount, day, no], day a UTC day
  Marks,       \* the values a user may record: [kind, amount, at]
  None         \* null, and a bound or filter that is not given

Tables == {"entry", "provision"}
Kinds  == {"balance", "stock", "reserve", "investment"}

ASSUME LedgerAssumption ==
  /\ Movements \subseteq [table : Tables, type : {"income", "expense"},
                          amount : Nat, day : Int, no : Nat]
  /\ Marks \subseteq [kind : Kinds, amount : Nat, at : Int]

ASSUME NullAssumption == None \notin Marks /\ None \notin Int

VARIABLES
  movements,  \* the rows of entries and provisions
  marks       \* the rows of balances, stocks and reserves

ledger == <<movements, marks>>

-----------------------------------------------------------------------------
Total(S)      == SumFunction([m \in S |-> m.amount])
Only(type, S) == {m \in S : m.type = type}
Net(S)        == Total(Only("income", S)) - Total(Only("expense", S))
On(S, day)    == {m \in S : m.day = day}

Between(first, last) == {m \in movements : first <= m.day /\ m.day <= last}

EarliestOf(S) ==   \* mutant: recordedAt ASC
  IF S = {} THEN {None} ELSE {r \in S : \A o \in S : o.at >= r.at}

(* What findOne by recordedAt DESC may return: of two rows recorded at one *)
(* instant either, and null without any.                                   *)
LatestOf(S) ==
  IF S = {} THEN {None} ELSE {r \in S : \A o \in S : o.at <= r.at}

Worth(row)     == IF row = None THEN 0 ELSE row.amount
Of(kinds)      == {r \in marks : r.kind \in kinds}
BalancesAt(t)  == {Worth(r) : r \in LatestOf({b \in Of({"balance"}) : b.at <= t})}

-----------------------------------------------------------------------------
CreateMovement(table) ==
  /\ \E m \in Movements \ movements : m.table = table /\ movements' = movements \cup {m}
  /\ UNCHANGED marks

CreateMark(kinds) ==
  /\ \E r \in Marks \ marks : r.kind \in kinds /\ marks' = marks \cup {r}
  /\ UNCHANGED movements

CreateEntry     == CreateMovement("entry")
CreateProvision == CreateMovement("provision")
CreateBalance   == CreateMark({"balance"})
CreateStock     == CreateMark({"stock"})
CreateReserve   == CreateMark({"reserve", "investment"})

Create == CreateEntry \/ CreateProvision \/ CreateBalance \/ CreateStock \/ CreateReserve

-----------------------------------------------------------------------------
(* Lists by a range of dates, either bound being optional; their order is  *)
(* left out.                                                               *)

InRangeOf(x, first, last) == (first = None \/ first <= x) /\ (last = None \/ x <= last)

(* A date of a query is read as UTC midnight, then its local day is taken: *)
(* from its beginning to one tick before 24:00, the first time where that  *)
(* hour runs twice.                                                        *)
StartOfDay(day) == IF day = None THEN None ELSE Midnight(LocalDay(day * DayTicks))
LastTick(d)     == Midnight(d + 1) - 1 - IF d \in Repeats THEN Hour ELSE 0
EndOfDayAtDawn(day) == StartOfDay(day)   \* mutant: setHours(0, 0, 0, 0)
EndOfDay(day)   == IF day = None THEN None ELSE LastTick(LocalDay(day * DayTicks))

ListMovements(table, first, last) ==
  {m \in movements : m.table = table /\ InRangeOf(m.day, first, last)}
ListMarks(kinds, first, last) ==
  {r \in Of(kinds) : InRangeOf(r.at, StartOfDay(first), EndOfDay(last))}

ListEntries(first, last)    == ListMovements("entry", first, last)
ListProvisions(first, last) == ListMovements("provision", first, last)
ListBalances                == Of({"balance"})
ListStocks(first, last)     == ListMarks({"stock"}, first, last)
ListReserves(first, last)   == ListMarks({"reserve", "investment"}, first, last)
=============================================================================
