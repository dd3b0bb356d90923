----------------------------- MODULE ImportReads -----------------------------
(***************************************************************************)
(* The pages that follow an import: listImports and listImportRows, where  *)
(* a caller asks for one page after another until one comes back short,    *)
(* and getImportDetails, which reads the batch and then its first rows.    *)
(* The import tables change meanwhile as ImportLedger allows;              *)
(* ImportPipeline implements ImportLedger, so that what holds here holds   *)
(* of pages that follow the pipeline.  findAndCount is two queries: the    *)
(* rows of the page and then, when the page does not tell, how many there  *)
(* are in all.                                                             *)
(***************************************************************************)
EXTENDS Integers, FiniteSets, FiniteSetsExt, SequencesExt

CONSTANTS Batches, Rows, Malformed,
          PageSize,   \* limit, the same for all the pages of a list
          SampleSize, \* take: 10
          None        \* no filter, no list

ASSUME PageAssumption ==
  /\ Rows \in [Batches -> Nat]
  /\ PageSize \in Nat \ {0} /\ SampleSize \in Nat \ {0}

VARIABLES
  status, stored, counted,  \* the tables, as in ImportLedger
  created,                  \* the batches in the order of createdAt
  list                      \* the list or the import being looked at

tables == <<status, stored, counted>>
vars   == <<tables, created, list>>

Tables == INSTANCE ImportLedger

(* got: the items of all pages so far; known: the batches there were when  *)
(* the first page was asked for.  Neither is in the code.  For the details *)
(* items are the sample rows, seen and total the status and rowCount of    *)
(* the batch, and offset the number of queries made.                       *)
NoList == [kind |-> "none", of |-> None, pc |-> "idle", offset |-> 0, items |-> <<>>,
           total |-> 0, seen |-> "none", got |-> <<>>, known |-> {}]

-----------------------------------------------------------------------------
(* ORDER BY: the element that i - 1 others precede comes i-th.             *)
Ascending(S)  == [i \in 1 .. Cardinality(S) |-> CHOOSE x \in S : Cardinality({y \in S : y < x}) = i - 1]
Descending(S) == [i \in 1 .. Cardinality(S) |-> CHOOSE x \in S : Cardinality({y \in S : y > x}) = i - 1]

DescendingRows(b) == Descending(stored[b])   \* mutant
(* rowIndex ASC *)
OrderedRows(b) == Ascending(stored[b])

(* The imports of a client by createdAt DESC, of one status if asked for. *)
Matching(filter) == {j \in 1 .. Len(created) : filter = None \/ status[created[j]] = filter}
OrderedImports(filter) ==
  LET order == Descending(Matching(filter))
  IN  [i \in 1 .. Cardinality(Matching(filter)) |-> created[order[i]]]

Result == IF list.kind = "rows" THEN OrderedRows(list.of) ELSE OrderedImports(list.of)

PagePast(s, offset) ==   \* mutant: skip counts from one
  SubSeq(s, offset + 2, Min({Len(s), offset + 1 + PageSize}))

(* skip and take *)
Page(s, offset) == SubSeq(s, offset + 1, Min({Len(s), offset + PageSize}))

(* A page that is short, and not empty past the beginning, ends the list:  *)
(* the total is known without asking for it.                               *)
TotalKnown == /\ Len(list.items) < PageSize
              /\ list.items = <<>> => list.offset = 0

DetailReadsSwapped == <<"rows", "batch">>   \* mutant
(* The queries of getImportDetails, in order. *)
DetailReads == <<"batch", "rows">>

SampleUntaken(rows) == rows   \* mutant: no take
SampleOf(rows) == SubSeq(rows, 1, Min({Len(rows), SampleSize}))

-----------------------------------------------------------------------------
Init == Tables!Init /\ created = <<>> /\ list = NoList

Import ==
  /\ Tables!Next
  /\ created' = created \o SetToSeq({b \in Batches : status[b] = "none" /\ status'[b] # "none"})
  /\ UNCHANGED list

Start(kind, of) ==
  list' = [NoList EXCEPT !.kind = kind, !.of = of, !.pc = "find",
                         !.known = {b \in Batches : status[b] # "none"}]

ListImports ==
  /\ list.kind = "none"
  /\ \E filter \in {None, "uploaded", "processed", "failed"} : Start("imports", filter)
  /\ UNCHANGED <<tables, created>>

(* The batch is looked up before the rows; without it the answer is 404. *)
ListImportRows ==
  /\ list.kind = "none"
  /\ \E b \in Batches : status[b] # "none" /\ Start("rows", b)
  /\ UNCHANGED <<tables, created>>

(* The import is looked up like the one of listImportRows. *)
GetImportDetails ==
  /\ list.kind = "none"
  /\ \E b \in Batches : status[b] # "none" /\ Start("details", b)
  /\ UNCHANGED <<tables, created>>

ReadDetail ==
  /\ list.kind = "details" /\ list.pc = "find"
  /\ LET n == list.offset + 1
         b == list.of
     IN  list' = [(IF DetailReads[n] = "batch"
                   THEN [list EXCEPT !.seen = status[b], !.total = counted[b]]
                   ELSE [list EXCEPT !.items = SampleOf(OrderedRows(b))])
                  EXCEPT !.offset = n, !.pc = IF n = Len(DetailReads) THEN "done" ELSE "find"]
  /\ UNCHANGED <<tables, created>>

Find ==
  /\ list.kind \in {"imports", "rows"} /\ list.pc = "find"
  /\ LET items == Page(Result, list.offset)
     IN  list' = [list EXCEPT !.items = items, !.got = @ \o items, !.pc = "count"]
  /\ UNCHANGED <<tables, created>>

CountPage ==   \* mutant: the total is the length of the page
  /\ list.pc = "count"
  /\ list' = [list EXCEPT !.total = Len(list.items), !.pc = "answered"]
  /\ UNCHANGED <<tables, created>>

Count ==
  /\ list.pc = "count"
  /\ list' = [list EXCEPT !.pc = "answered",
                          !.total = IF TotalKnown THEN list.offset + Len(list.items) ELSE Len(Result)]
  /\ UNCHANGED <<tables, created>>

(* The caller asks for the page after a full one, and is done after a      *)
(* short one.                                                              *)
NextPage ==
  /\ list.pc = "answered"
  /\ list' = IF Len(list.items) = PageSize
             THEN [list EXCEPT !.pc = "find", !.offset = @ + PageSize]
             ELSE [list EXCEPT !.pc = "done"]
  /\ UNCHANGED <<tables, created>>

Forget ==
  /\ list.pc \in {"answered", "done"}
  /\ list' = NoList
  /\ UNCHANGED <<tables, created>>

Next ==
  \/ Import
  \/ ListImports \/ ListImportRows \/ Find \/ Count \/ NextPage
  \/ GetImportDetails \/ ReadDetail
  \/ Forget

Spec == Init /\ [][Next]_vars

-----------------------------------------------------------------------------
TypeOK ==
  /\ list.kind \in {"none", "imports", "rows", "details"}
  /\ list.pc \in {"idle", "find", "count", "answered", "done"}
  /\ Len(list.items) <= IF list.kind = "details" THEN SampleSize ELSE PageSize
  /\ list.offset + Len(list.items) >= Len(list.got)
  /\ ToSet(created) = {b \in Batches : status[b] # "none"}

(* The rows of an import are paged without gap or repetition, although the *)
(* worker inserts more of them between the pages: the pages joined are the *)
(* beginning of the file.                                                  *)
RowPagesJoin ==
  list.kind = "rows" => list.got = [i \in 1 .. Len(list.got) |-> i]

(* The rows are counted after the page is read, and none is ever removed:  *)
(* the total of an answer is never less than what the pages have shown.    *)
TotalCoversPages ==
  (list.kind = "rows" /\ list.pc \in {"answered", "done"}) => list.total >= Len(list.got)

(* Newer imports push the others back by whole places, so a caller that    *)
(* pages through all imports may meet one twice but misses none of those   *)
(* there were when it began.                                               *)
NoImportMissed ==
  (list.kind = "imports" /\ list.of = None /\ list.pc = "done")
    => list.known \subseteq ToSet(list.got)

(* The details of an import are never torn: the sample rows are the first  *)
(* ones of the file, and where the batch shown counts n rows, or says it   *)
(* is processed, there are as many of them as a sample may hold.           *)
AnswerIsConsistent ==
  (list.kind = "details" /\ list.pc = "done") =>
    LET shown  == Len(list.items)
        due(n) == Min({n, SampleSize})
    IN  /\ list.items = [i \in 1 .. shown |-> i]
        /\ shown >= due(list.total)
        /\ list.seen = "processed" => shown = due(Rows[list.of])
=============================================================================
