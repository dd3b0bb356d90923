------------------------------ MODULE Closings ------------------------------
(***************************************************************************)
(* createClosing of finance.service.ts: a monthly or quarterly closing is  *)
(* computed from entries, provisions and the latest balance, and saved     *)
(* over the closing of the same period if there is one.  The handler reads *)
(* in separate queries and saves without a transaction, while the ledger   *)
(* is written and other calls of it run.                                   *)
(***************************************************************************)
EXTENDS Ledger, Sequences

CONSTANTS
  Types,       \* the period types asked for
  Instants,    \* the reference dates, as instants
  Calls,       \* concurrent calls of createClosing
  MaxFailures  \* bound on the calls that fail half-way

Periods  == {PeriodOf(type, LocalDay(t)) : type \in Types, t \in Instants}
Start(p) == DateKey(p.first)
End(p)   == DateKey(p.last)

(* The unique index of closings is on the type, the start and the end.     *)
ASSUME ClosingAssumption ==
  /\ Types \subseteq {"monthly", "quarterly"}
  /\ MaxFailures \in Nat
  /\ \A p, q \in Periods :
       p.type = q.type /\ Start(p) = Start(q) /\ End(p) = End(q) => p = q

(* The calendar reaches over the quarter of every reference date.          *)
ASSUME CoverageAssumption ==
  \A t \in Instants :
    LET q == 3 * QuarterOf(LocalDay(t)) IN
    /\ Covers(t)
    /\ {q, q + 3} \subseteq Months
    /\ MonthStart[q] .. MonthStart[q + 3] \subseteq Days

VARIABLES
  closings,   \* closings[p]: the row of period p, or None
  call,       \* call[c]: a run of createClosing
  failures

vars == <<movements, marks, closings, call, failures>>

Idle == [pc |-> "idle", asked |-> 0, period |-> None, read |-> {}, counted |-> {},
         opening |-> 0, loaded |-> None, quiet |-> TRUE]

Running(c) == call[c].pc \notin {"idle", "refused"}

-----------------------------------------------------------------------------
(* What createClosing computes from what it has read.                      *)

HealthByEnding(short, net) ==   \* mutant: the tests in the other order
  IF net < 0 THEN "warning" ELSE IF short # None THEN "critical" ELSE "healthy"

HealthOf(short, net) ==
  IF short # None THEN "critical" ELSE IF net < 0 THEN "warning" ELSE "healthy"

LoopDaysCounted(p) == p.first .. p.last + 1   \* mutant: one turn more than there are days
KeyLocal(p, d)     == d   \* mutant: the cursor's local date
(* The loop from start to end, both local midnights, and the key of a turn. *)
LoopDays(p) == {d \in p.first .. p.last : Cursor(p.first, d) <= Midnight(p.last)}
Key(p, d)   == UtcDay(Cursor(p.first, d))

(* The running balance at the end of each turn of the loop. *)
RunningBalance(p, S, opening) ==
  LET balance[d \in {p.first - 1} \cup LoopDays(p)] ==
        IF d < p.first THEN opening ELSE balance[d - 1] + Net(On(S, Key(p, d)))
  IN  balance

(* The days that the loop pushes for want of income. *)
LowIncomeDays(p, S) ==
  LET low[d \in {p.first - 1} \cup LoopDays(p)] ==
        IF d < p.first THEN << >>
        ELSE IF Total(Only("income", On(S, Key(p, d)))) <= 0 THEN Append(low[d - 1], Key(p, d))
        ELSE low[d - 1]
  IN  low[Max(LoopDays(p))]

Summary(p, S, opening) ==
  LET income  == Total(Only("income", S))
      expense == Total(Only("expense", S))
      balance == RunningBalance(p, S, opening)
      short   == {d \in LoopDays(p) : balance[d] < 0}
      day     == IF short = {} THEN None ELSE Key(p, Min(short))
      low     == LowIncomeDays(p, S)
  IN  [incomeTotal        |-> income,
       expenseTotal       |-> expense,
       netTotal           |-> income - expense,
       startingBalance    |-> opening,
       endingBalance      |-> opening + income - expense,
       dayOfCashShort     |-> day,
       lowIncomeDays      |-> low,
       lowIncomeDaysCount |-> Len(low),
       healthStatus       |-> HealthOf(day, income - expense)]

Computed(c) == Summary(call[c].period, call[c].counted, call[c].opening)

(* The balance at the local midnight that starts p. *)
Openings(p) == BalancesAt(Midnight(p.first))
InRange(p)  == Between(Start(p), End(p))

-----------------------------------------------------------------------------
Init ==
  /\ movements = {}
  /\ marks = {}
  /\ closings = [p \in Periods |-> None]
  /\ call = [c \in Calls |-> Idle]
  /\ failures = 0

(* A write to the ledger; the calls that run meanwhile are no longer quiet *)
(* (quiet is not in the code, the properties below refer to it).           *)
Disturb == call' = [c \in Calls |-> IF Running(c) THEN [call[c] EXCEPT !.quiet = FALSE] ELSE call[c]]

Write == Create /\ Disturb /\ UNCHANGED <<closings, failures>>

Begin(c) ==
  /\ ~Running(c)
  /\ \E type \in Types, t \in Instants :
       call' = [call EXCEPT ![c] = [Idle EXCEPT !.pc = "read", !.asked = t,
                                                !.period = PeriodOf(type, LocalDay(t))]]
  /\ UNCHANGED <<ledger, closings, failures>>

ReadTableAnew(c, table) ==   \* mutant: the second answer replaces the first
  /\ call[c].pc = "read"
  /\ table \notin call[c].read
  /\ LET read == call[c].read \cup {table}
     IN  call' = [call EXCEPT ![c].read = read,
                              ![c].counted = {m \in InRange(call[c].period) : m.table = table},
                              ![c].pc = IF read = Tables THEN "balance" ELSE "read"]
  /\ UNCHANGED <<ledger, closings, failures>>

(* The two queries of the Promise.all answer in either order. *)
ReadTable(c, table) ==
  /\ call[c].pc = "read"
  /\ table \notin call[c].read
  /\ LET read == call[c].read \cup {table}
     IN  call' = [call EXCEPT ![c].read = read,
                              ![c].counted = @ \cup {m \in InRange(call[c].period) : m.table = table},
                              ![c].pc = IF read = Tables THEN "balance" ELSE "read"]
  /\ UNCHANGED <<ledger, closings, failures>>

ReadBalance(c) ==
  /\ call[c].pc = "balance"
  /\ \E opening \in Openings(call[c].period) :
       call' = [call EXCEPT ![c].opening = opening, ![c].pc = "find"]
  /\ UNCHANGED <<ledger, closings, failures>>

FindNothing(c) ==   \* mutant: existing is not looked up
  /\ call[c].pc = "find"
  /\ call' = [call EXCEPT ![c].pc = "insert"]
  /\ UNCHANGED <<ledger, closings, failures>>

FindExisting(c) ==
  /\ call[c].pc = "find"
  /\ call' = [call EXCEPT ![c].pc = IF closings[call[c].period] = None THEN "insert" ELSE "load"]
  /\ UNCHANGED <<ledger, closings, failures>>

Ends(c, pc) == call' = [call EXCEPT ![c] = [Idle EXCEPT !.pc = pc]]

(* save without an id inserts; the unique index refuses a second row.      *)
Inserted(c) ==
  IF closings[call[c].period] = None
  THEN [closings EXCEPT ![call[c].period] = Computed(c)]
  ELSE closings

Insert(c) ==
  /\ call[c].pc = "insert"
  /\ closings' = Inserted(c)
  /\ Ends(c, IF closings[call[c].period] = None THEN "idle" ELSE "refused")
  /\ UNCHANGED <<ledger, failures>>

(* save with an id reads the row again, then writes the columns in which   *)
(* what it read differs from what it saves.                                *)
Load(c) ==
  /\ call[c].pc = "load"
  /\ call' = [call EXCEPT ![c].loaded = closings[call[c].period], ![c].pc = "update"]
  /\ UNCHANGED <<ledger, closings, failures>>

UpdatedTotals(c) ==   \* mutant: only the totals are saved again
  [closings EXCEPT ![call[c].period] =
     [@ EXCEPT !.incomeTotal = Computed(c).incomeTotal, !.expenseTotal = Computed(c).expenseTotal]]

Updated(c) ==
  [closings EXCEPT ![call[c].period] =
     [column \in DOMAIN @ |->
        IF Computed(c)[column] # call[c].loaded[column] THEN Computed(c)[column] ELSE @[column]]]

Update(c) ==
  /\ call[c].pc = "update"
  /\ closings' = Updated(c)
  /\ Ends(c, "idle")
  /\ UNCHANGED <<ledger, failures>>

(* A query rejects or the process dies; a write may have been applied.     *)
Fails(c) ==
  /\ failures < MaxFailures
  /\ Running(c)
  /\ failures' = failures + 1
  /\ Ends(c, "idle")
  /\ \/ UNCHANGED closings
     \/ call[c].pc = "insert" /\ closings' = Inserted(c)
     \/ call[c].pc = "update" /\ closings' = Updated(c)
  /\ UNCHANGED ledger

(* listClosings: by the type and the first day of the period. *)
ListClosings(type, first, last) ==
  {p \in Periods : /\ closings[p] # None
                   /\ type = None \/ p.type = type
                   /\ InRangeOf(Start(p), first, last)}

CallStep(c) ==
  \/ Begin(c)
  \/ \E table \in Tables : ReadTable(c, table)
  \/ ReadBalance(c) \/ FindExisting(c) \/ Insert(c) \/ Load(c) \/ Update(c)
  \/ Fails(c)

Next == Write \/ \E c \in Calls : CallStep(c)
Spec == Init /\ [][Next]_vars

(* The same calls over any ledger, nobody writing it.                      *)
RestingInit ==
  /\ movements \in SUBSET Movements
  /\ marks \in SUBSET Marks
  /\ closings = [p \in Periods |-> None]
  /\ call = [c \in Calls |-> Idle]
  /\ failures = 0
RestingSpec == RestingInit /\ [][\E c \in Calls : CallStep(c)]_vars

-----------------------------------------------------------------------------
Columns == DOMAIN Summary([type |-> "monthly", first |-> 0, last |-> 0], {}, 0)

TypeOK ==
  /\ movements \subseteq Movements
  /\ marks \subseteq Marks
  /\ failures \in 0 .. MaxFailures
  /\ \A p \in Periods : closings[p] # None =>
       /\ DOMAIN closings[p] = Columns
       /\ closings[p].dayOfCashShort \in (Start(p) .. End(p)) \cup {None}
       /\ closings[p].lowIncomeDaysCount \in 0 .. p.last - p.first + 1
  /\ \A c \in Calls :
       /\ call[c].pc \in {"idle", "refused", "read", "balance", "find", "insert", "load", "update"}
       /\ Running(c) => call[c].period \in Periods
       /\ call[c].read \subseteq Tables
       /\ call[c].counted \subseteq movements

(* The loop loses the last day of a period with a day that has no          *)
(* midnight, unless that is the last day itself: it is not looked at for   *)
(* cash shortage or low income, though the totals count it.                *)
LastSeen(p) ==
  IF p.last \notin Skips /\ (p.first .. p.last) \cap Skips # {} THEN p.last - 1 ELSE p.last

(* A closing of period p that agrees with the ledger as it stands, said    *)
(* without the loop: day by day, over the days the queries covered, or     *)
(* those of them that are looked at.                                       *)
Exact(p, row) ==
  LET due       == InRange(p)
      days      == Start(p) .. DateKey(LastSeen(p))
      upTo(day) == row.startingBalance + Net({m \in due : m.day <= day})
      short     == {day \in days : upTo(day) < 0}
      low       == {day \in days : ~\E m \in On(due, day) : m.type = "income" /\ m.amount > 0}
  IN  /\ row.startingBalance \in Openings(p)
      /\ row.incomeTotal = Total(Only("income", due))
      /\ row.expenseTotal = Total(Only("expense", due))
      /\ row.netTotal = Net(due)
      /\ row.endingBalance = upTo(End(p))
      /\ row.dayOfCashShort = IF short = {} THEN None ELSE Min(short)
      /\ {row.lowIncomeDays[i] : i \in DOMAIN row.lowIncomeDays} = low
      /\ row.lowIncomeDaysCount = Cardinality(low)
      /\ (row.healthStatus = "critical") <=> (short # {})
      /\ (row.healthStatus = "healthy") <=> (short = {} /\ Net(due) >= 0)

(* createClosing saves the truth when it is left alone: if the ledger did  *)
(* not change while a call ran, the row it leaves agrees with the ledger,  *)
(* but for the last day of a period in which a day has no midnight.        *)
QuietClosingIsExact ==
  [][\A c \in Calls :
       (call[c].pc \in {"insert", "update"} /\ call[c].quiet /\ call'[c].pc = "idle"
          /\ failures' = failures)
       => Exact(call[c].period, closings'[call[c].period])]_vars

(* The columns of a saved closing belong together: its totals add up and   *)
(* its health follows from them.  README.md:39 calls a closing a snapshot  *)
(* with its summary and health.                                            *)
StoredIsConsistent ==
  \A p \in Periods : LET row == closings[p] IN row # None =>
    /\ row.netTotal = row.incomeTotal - row.expenseTotal
    /\ row.endingBalance = row.startingBalance + row.netTotal
    /\ row.lowIncomeDaysCount = Len(row.lowIncomeDays)
    /\ (row.healthStatus = "critical") <=> (row.dayOfCashShort # None)
    /\ row.healthStatus = "healthy" => row.netTotal >= 0

(* The ledger only grows, so closing a period again never lowers its       *)
(* totals: nothing that was counted is lost.                               *)
TotalsNeverDrop ==
  [][\A p \in Periods : closings[p] # None =>
       /\ closings'[p].incomeTotal >= closings[p].incomeTotal
       /\ closings'[p].expenseTotal >= closings[p].expenseTotal]_vars

(* A single caller is never refused by the unique index, not even when it  *)
(* repeats a call whose insert was applied and whose answer was lost.      *)
RetryIsNotRefused == \A c \in Calls : call[c].pc # "refused"

(* The period closed is the one that holds the reference date asked for.   *)
(* README.md:39 calls the closings monthly and quarterly snapshots.        *)
PeriodHoldsReference ==
  \A c \in Calls : Running(c) =>
    UtcDay(call[c].asked) \in Start(call[c].period) .. End(call[c].period)

(* The closings of a client fit together: no day is in two of one type,    *)
(* and a month is wholly inside a quarter or wholly outside it.            *)
PeriodsFit ==
  \A p, q \in ListClosings(None, None, None) :
    LET inP == Start(p) .. End(p)
        inQ == Start(q) .. End(q)
    IN  \/ p = q
        \/ inP \cap inQ = {}
        \/ p.type # q.type /\ (inP \subseteq inQ \/ inQ \subseteq inP)

(* Over a ledger at rest calls may overlap and fail as they like: every    *)
(* row is exact, as above, whoever wrote it.                               *)
RestingClosingsAreExact ==
  \A p \in Periods : closings[p] # None => Exact(p, closings[p])
=============================================================================
