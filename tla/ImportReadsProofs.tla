-------------------------- MODULE ImportReadsProofs --------------------------
(***************************************************************************)
(* Proofs about ImportReads for any files, page and sample sizes: what the *)
(* pages of an import show while the import ledger changes between their   *)
(* queries.                                                                *)
(***************************************************************************)
EXTENDS ImportReads, FiniteSetTheorems, SequenceTheorems, TLAPS

(* What ImportLedger keeps of its tables. *)
BatchOK(b) ==
  /\ \E n \in 0 .. Rows[b] : stored[b] = 1 .. n
  /\ counted[b] = 0 \/ (counted[b] = Rows[b] /\ stored[b] = 1 .. Rows[b])
  /\ status[b] = "processed" => stored[b] = 1 .. Rows[b]
LedgerOK ==
  /\ status \in [Batches -> {"none", "uploaded", "processed", "failed"}]
  /\ stored \in [Batches -> SUBSET Nat]
  /\ counted \in [Batches -> Nat]
  /\ \A b \in Batches : BatchOK(b)

(* Every batch is inserted once and has its place in createdAt. *)
CreatedOK ==
  /\ created \in Seq(Batches)
  /\ ToSet(created) = {b \in Batches : status[b] # "none"}

-----------------------------------------------------------------------------
(* What a list knows.  A record holds what its handler has read; the pages *)
(* joined are as long as the offset and the page in hand say.              *)
ListOK ==
  /\ list \in [kind   : {"none", "imports", "rows", "details"},
               of     : Batches \cup {None, "uploaded", "processed", "failed"},
               pc     : {"idle", "find", "count", "answered", "done"},
               offset : Nat,
               items  : Seq(Nat \cup Batches),
               total  : Nat,
               seen   : {"none", "uploaded", "processed", "failed"},
               got    : Seq(Nat \cup Batches),
               known  : SUBSET Batches]
  /\ list.kind \in {"none", "details"} => list.pc \notin {"count", "answered"} /\ list.got = <<>>
  /\ list.kind = "none" => list.items = <<>>
  /\ list.kind \in {"imports", "rows"} =>
       /\ Len(list.items) <= PageSize
       /\ Len(list.got) = IF list.pc = "find" THEN list.offset ELSE list.offset + Len(list.items)

(* Rows: what the pages showed is still stored. *)
RowsOK ==
  list.kind = "rows" =>
    /\ list.of \in Batches
    /\ list.got = [i \in 1 .. Len(list.got) |-> i]
    /\ 1 .. Len(list.got) \subseteq stored[list.of]
    /\ list.pc \in {"answered", "done"} => list.total >= Len(list.got)

(* Imports: one that is not shown yet lies behind the pages shown, counted *)
(* from the newest, and another page will be asked for.                    *)
Ahead(b) == \E j \in 1 .. Len(created) : created[j] = b /\ Len(created) - j >= Len(list.got)
ImportsOK ==
  list.kind = "imports" /\ list.of = None =>
    \A b \in list.known :
      \/ b \in ToSet(list.got)
      \/ /\ list.pc = "find" \/ (list.pc \in {"count", "answered"} /\ Len(list.items) = PageSize)
         /\ Ahead(b)

(* Details: a batch that was seen to be processed, or counted, has all of  *)
(* its rows since then.                                                    *)
SeenWhole == list.seen = "processed" \/ list.total # 0
DetailsOK ==
  list.kind = "details" =>
    /\ list.of \in Batches
    /\ \/ list.pc = "find" /\ list.offset = 0 /\ list.items = <<>>
       \/ /\ list.pc = "find" /\ list.offset = 1 /\ list.items = <<>>
          /\ SeenWhole => stored[list.of] = 1 .. Rows[list.of]
       \/ /\ list.pc = "done" /\ list.offset = 2
          /\ list.items = [i \in 1 .. Len(list.items) |-> i]
          /\ Len(list.items) <= SampleSize
          /\ SeenWhole => Len(list.items) = Min({Rows[list.of], SampleSize})
    /\ list.total \in {0, Rows[list.of]}

IInv == LedgerOK /\ CreatedOK /\ ListOK /\ RowsOK /\ ImportsOK /\ DetailsOK

-----------------------------------------------------------------------------
(* The operators of the queries.                                           *)

LEMMA MinOfTwo ==
  ASSUME NEW a \in Int, NEW b \in Int
  PROVE  Min({a, b}) = IF a <= b THEN a ELSE b
  BY DEF Min

(* ORDER BY over the numbers 1 .. n. *)
LEMMA OrderOfInterval ==
  ASSUME NEW n \in Nat
  PROVE  /\ Ascending(1 .. n) = [i \in 1 .. n |-> i]
         /\ Descending(1 .. n) = [i \in 1 .. n |-> n + 1 - i]
  <1>1. Cardinality(1 .. n) = n
    BY FS_Interval
  <1>2. ASSUME NEW x \in 1 .. n
        PROVE  /\ Cardinality({y \in 1 .. n : y < x}) = x - 1
               /\ Cardinality({y \in 1 .. n : y > x}) = n - x
    <2>1. {y \in 1 .. n : y < x} = 1 .. x - 1 /\ {y \in 1 .. n : y > x} = x + 1 .. n
      OBVIOUS
    <2>2. Cardinality(1 .. x - 1) = x - 1 /\ Cardinality(x + 1 .. n) = n - x
      BY FS_Interval
    <2> QED
      BY <2>1, <2>2
  <1>3. ASSUME NEW i \in 1 .. n
        PROVE  /\ (CHOOSE x \in 1 .. n : Cardinality({y \in 1 .. n : y < x}) = i - 1) = i
               /\ (CHOOSE x \in 1 .. n : Cardinality({y \in 1 .. n : y > x}) = i - 1) = n + 1 - i
    <2>1. ASSUME NEW x \in 1 .. n
          PROVE  Cardinality({y \in 1 .. n : y < x}) = i - 1 <=> x = i
      <3>1. Cardinality({y \in 1 .. n : y < x}) = x - 1
        BY <1>2
      <3> QED
        BY <3>1
    <2>2. ASSUME NEW x \in 1 .. n
          PROVE  Cardinality({y \in 1 .. n : y > x}) = i - 1 <=> x = n + 1 - i
      <3>1. Cardinality({y \in 1 .. n : y > x}) = n - x
        BY <1>2
      <3> QED
        BY <3>1
    <2>3. n + 1 - i \in 1 .. n
      OBVIOUS
    <2> QED
      BY <2>1, <2>2, <2>3, Zenon
  <1>4. Ascending(1 .. n) = [i \in 1 .. n |-> CHOOSE x \in 1 .. n : Cardinality({y \in 1 .. n : y < x}) = i - 1]
    BY <1>1 DEF Ascending
  <1>5. Descending(1 .. n) = [i \in 1 .. n |-> CHOOSE x \in 1 .. n : Cardinality({y \in 1 .. n : y > x}) = i - 1]
    BY <1>1 DEF Descending
  <1> QED
    BY <1>3, <1>4, <1>5, Zenon

(* A page is a sequence of at most PageSize items of the list. *)
LEMMA PageParts ==
  ASSUME NEW S, NEW s \in Seq(S), NEW offset \in Nat
  PROVE  /\ Page(s, offset) \in Seq(S)
         /\ Len(Page(s, offset)) = IF Len(s) <= offset THEN 0
                                   ELSE IF Len(s) <= offset + PageSize THEN Len(s) - offset
                                   ELSE PageSize
         /\ \A i \in 1 .. Len(Page(s, offset)) : Page(s, offset)[i] = s[offset + i]
  <1> DEFINE end == Min({Len(s), offset + PageSize})
  <1>1. Len(s) \in Nat /\ PageSize \in Nat \ {0} /\ s \in [1 .. Len(s) -> S]
    BY PageAssumption
  <1>2. end = IF Len(s) <= offset + PageSize THEN Len(s) ELSE offset + PageSize
    BY <1>1, MinOfTwo
  <1> HIDE DEF end
  <1>3. end \in Nat /\ end <= Len(s)
    BY <1>1, <1>2
  <1>4. Page(s, offset) = SubSeq(s, offset + 1, end)
    BY DEF Page, end
  <1>5. CASE offset + 1 <= end
    <2>1. /\ SubSeq(s, offset + 1, end) \in Seq(S)
          /\ Len(SubSeq(s, offset + 1, end)) = end - offset
          /\ \A i \in 1 .. end - offset : SubSeq(s, offset + 1, end)[i] = s[offset + i]
      BY <1>1, <1>3, <1>5
    <2>2. end - offset = IF Len(s) <= offset THEN 0
                         ELSE IF Len(s) <= offset + PageSize THEN Len(s) - offset
                         ELSE PageSize
      BY <1>1, <1>2, <1>5
    <2>3. /\ Page(s, offset) \in Seq(S)
          /\ Len(Page(s, offset)) = end - offset
          /\ \A i \in 1 .. end - offset : Page(s, offset)[i] = s[offset + i]
      BY <1>4, <2>1
    <2> QED
      BY <2>2, <2>3
  <1>6. CASE end < offset + 1
    <2>1. SubSeq(s, offset + 1, end) = <<>>
      BY <1>1, <1>3, <1>6
    <2> QED
      BY <1>1, <1>2, <1>4, <1>6, <2>1
  <1> QED
    BY <1>3, <1>5, <1>6

(* The rows of an import, as its ledger keeps them, in the order of a page. *)
LEMMA RowsInQuery ==
  ASSUME NEW b, NEW n \in Nat, stored[b] = 1 .. n
  PROVE  OrderedRows(b) = [i \in 1 .. n |-> i] /\ OrderedRows(b) \in Seq(Nat) /\ Len(OrderedRows(b)) = n
  <1>1. OrderedRows(b) = [i \in 1 .. n |-> i]
    BY OrderOfInterval, Zenon DEF OrderedRows
  <1> QED
    BY <1>1

(* ORDER BY finds an element for every place.                              *)
LEMMA OrderOfFinite ==
  ASSUME NEW S, S \subseteq Int, IsFiniteSet(S)
  PROVE  /\ Cardinality(S) \in Nat
         /\ \A i \in 1 .. Cardinality(S) : Descending(S)[i] \in S
  <1> DEFINE Above(x) == {y \in S : y > x}
             n        == Cardinality(S)
             rank     == [x \in S |-> Cardinality(Above(x)) + 1]
  <1>1. n \in Nat
    BY FS_CardinalityType
  <1>2. ASSUME NEW x \in S
        PROVE  Cardinality(Above(x)) \in 0 .. n - 1
    <2>1. Above(x) \in SUBSET S /\ Above(x) # S
      OBVIOUS
    <2>2. IsFiniteSet(Above(x)) /\ Cardinality(Above(x)) <= n /\ n # Cardinality(Above(x))
      BY <2>1, FS_Subset
    <2>3. Cardinality(Above(x)) \in Nat
      BY <2>2, FS_CardinalityType
    <2> QED
      BY <1>1, <2>2, <2>3
  <1>3. ASSUME NEW x \in S, NEW z \in S, x < z
        PROVE  rank[x] # rank[z]
    <2>1. Above(z) \in SUBSET Above(x) /\ Above(z) # Above(x)
      <3>1. x \in Int /\ z \in Int /\ \A y \in S : y \in Int
        OBVIOUS
      <3>2. z \in Above(x) /\ z \notin Above(z)
        BY <1>3, <3>1
      <3>3. \A y \in S : y > z => y > x
        BY <1>3, <3>1
      <3> QED
        BY <3>2, <3>3
    <2>2. IsFiniteSet(Above(x))
      BY FS_Subset, Above(x) \in SUBSET S
    <2>3. Cardinality(Above(x)) # Cardinality(Above(z))
      BY <2>1, <2>2, FS_Subset
    <2> QED
      BY <1>2, <2>3
  <1>4. rank \in Injection(S, 1 .. n)
    <2>1. rank \in [S -> 1 .. n]
      BY <1>1, <1>2
    <2>2. \A x, z \in S : rank[x] = rank[z] => x = z
      BY <1>3
    <2> QED
      BY <2>1, <2>2 DEF Injection, IsInjective
  <1>5. IsFiniteSet(1 .. n) /\ Cardinality(1 .. n) = n
    BY <1>1, FS_Interval
  <1>6. rank \in Surjection(S, 1 .. n)
    BY <1>4, <1>5, FS_Injection
  <1>7. ASSUME NEW i \in 1 .. n
        PROVE  Descending(S)[i] \in S
    <2>1. PICK x \in S : rank[x] = i
      BY <1>6 DEF Surjection
    <2>2. Cardinality(Above(x)) = i - 1
      BY <1>2, <2>1
    <2>3. Descending(S)[i] = CHOOSE z \in S : Cardinality(Above(z)) = i - 1
      BY Zenon DEF Descending
    <2> QED
      BY <2>2, <2>3, Zenon
  <1> QED
    BY <1>1, <1>7

LEMMA OneOrNone ==
  ASSUME NEW x
  PROVE  SetToSeq({}) = <<>> /\ SetToSeq({x}) = <<x>>
  <1>1. SetToSeq({}) = <<>>
    <2>1. SetToSeq({}) = CHOOSE f \in [1 .. 0 -> {}] : IsInjective(f)
      BY FS_EmptySet DEF SetToSeq
    <2>2. \A f \in [1 .. 0 -> {}] : f = <<>> /\ IsInjective(f)
      BY DEF IsInjective
    <2>3. <<>> \in [1 .. 0 -> {}]
      OBVIOUS
    <2> QED
      BY <2>1, <2>2, <2>3, Zenon
  <1>2. SetToSeq({x}) = <<x>>
    <2>1. SetToSeq({x}) = CHOOSE f \in [1 .. 1 -> {x}] : IsInjective(f)
      BY FS_Singleton DEF SetToSeq
    <2>2. \A f \in [1 .. 1 -> {x}] : f = <<x>> /\ IsInjective(f)
      BY DEF IsInjective
    <2>3. <<x>> \in [1 .. 1 -> {x}]
      OBVIOUS
    <2> QED
      BY <2>1, <2>2, <2>3, Zenon
  <1> QED
    BY <1>1, <1>2

LEMMA ItemsOfJoined ==
  ASSUME NEW S, NEW s \in Seq(S)
  PROVE  /\ ToSet(s) = {s[i] : i \in 1 .. Len(s)}
         /\ ToSet(s) \subseteq S
         /\ \A t \in Seq(S) : s \o t \in Seq(S) /\ ToSet(s \o t) = ToSet(s) \cup ToSet(t)
         /\ \A x \in S : s \o <<x>> \in Seq(S) /\ ToSet(s \o <<x>>) = ToSet(s) \cup {x}
  <1>1. \A r \in Seq(S) : Len(r) \in Nat /\ ToSet(r) = {r[i] : i \in 1 .. Len(r)}
    BY DEF ToSet
  <1>2. ToSet(s) \subseteq S
    BY <1>1
  <1>3. ASSUME NEW t \in Seq(S)
        PROVE  s \o t \in Seq(S) /\ ToSet(s \o t) = ToSet(s) \cup ToSet(t)
    <2> DEFINE r == s \o t
    <2>1. /\ r \in Seq(S)
          /\ Len(r) = Len(s) + Len(t)
          /\ \A i \in 1 .. Len(s) : r[i] = s[i]
          /\ \A i \in 1 .. Len(t) : r[Len(s) + i] = t[i]
          /\ \A i \in 1 .. Len(r) : r[i] = IF i <= Len(s) THEN s[i] ELSE t[i - Len(s)]
      BY <1>1, ConcatProperties
    <2> HIDE DEF r
    <2>2. \A i \in 1 .. Len(s) : i \in 1 .. Len(r)
      BY <1>1, <2>1
    <2>3. \A i \in 1 .. Len(t) : Len(s) + i \in 1 .. Len(r)
      BY <1>1, <2>1
    <2>4. \A i \in 1 .. Len(r) : i \in 1 .. Len(s) \/ i - Len(s) \in 1 .. Len(t)
      BY <1>1, <2>1
    <2>5. ToSet(s) \cup ToSet(t) \subseteq ToSet(r)
      <3>1. ToSet(r) = {r[i] : i \in 1 .. Len(r)}
        BY <1>1, <2>1
      <3>2. ToSet(s) \subseteq ToSet(r)
        BY <1>1, <2>1, <2>2, <3>1
      <3>3. ToSet(t) \subseteq ToSet(r)
        BY <1>1, <2>1, <2>3, <3>1
      <3> QED
        BY <3>2, <3>3
    <2>6. ASSUME NEW i \in 1 .. Len(r)
          PROVE  r[i] \in ToSet(s) \cup ToSet(t)
      <3>1. CASE i \in 1 .. Len(s)
        BY <1>1, <2>1, <3>1
      <3>2. CASE i \notin 1 .. Len(s)
        <4>1. ~(i <= Len(s)) /\ i - Len(s) \in 1 .. Len(t)
          BY <1>1, <2>1, <2>4, <3>2
        <4> QED
          BY <1>1, <2>1, <4>1
      <3> QED
        BY <3>1, <3>2
    <2>7. ToSet(r) \subseteq ToSet(s) \cup ToSet(t)
      BY <1>1, <2>1, <2>6
    <2> QED
      BY <2>1, <2>5, <2>7 DEF r
  <1>4. ASSUME NEW x \in S
        PROVE  s \o <<x>> \in Seq(S) /\ ToSet(s \o <<x>>) = ToSet(s) \cup {x}
    <2>1. <<x>> \in Seq(S) /\ ToSet(<<x>>) = {x}
      BY DEF ToSet
    <2> QED
      BY <1>3, <2>1
  <1> QED
    BY <1>1, <1>2, <1>3, <1>4

(* The imports of a list, newest first; all of them when none is left out. *)
LEMMA ImportsInQuery ==
  ASSUME CreatedOK, NEW filter
  PROVE  /\ OrderedImports(filter) \in Seq(Batches)
         /\ Len(OrderedImports(filter)) \in Nat
         /\ filter = None => /\ Len(OrderedImports(filter)) = Len(created)
                             /\ \A i \in 1 .. Len(created) : OrderedImports(filter)[i] = created[Len(created) + 1 - i]
  <1> DEFINE S == Matching(filter)
             n == Cardinality(S)
  <1>1. created \in Seq(Batches) /\ Len(created) \in Nat
    BY DEF CreatedOK
  <1>2. S \in SUBSET (1 .. Len(created))
    BY DEF Matching
  <1>3. IsFiniteSet(S) /\ S \subseteq Int
    <2>1. IsFiniteSet(1 .. Len(created)) /\ 1 .. Len(created) \subseteq Int
      BY <1>1, FS_Interval
    <2> HIDE DEF S
    <2> QED
      BY <1>2, <2>1, FS_Subset
  <1>4. n \in Nat /\ \A i \in 1 .. n : Descending(S)[i] \in S
    BY <1>3, OrderOfFinite, Zenon
  <1>5. OrderedImports(filter) = [i \in 1 .. n |-> created[Descending(S)[i]]]
    BY DEF OrderedImports
  <1>6. \A i \in 1 .. n : created[Descending(S)[i]] \in Batches
    BY <1>1, <1>2, <1>4
  <1>7. OrderedImports(filter) \in Seq(Batches) /\ Len(OrderedImports(filter)) = n
    <2> HIDE DEF n, S
    <2> QED
      BY <1>4, <1>5, <1>6
  <1>8. ASSUME filter = None
        PROVE  /\ n = Len(created)
               /\ \A i \in 1 .. Len(created) : OrderedImports(filter)[i] = created[Len(created) + 1 - i]
    <2>1. S = 1 .. Len(created)
      BY <1>8 DEF Matching
    <2>2. n = Len(created)
      BY <1>1, <2>1, FS_Interval
    <2>3. Descending(S) = [i \in 1 .. Len(created) |-> Len(created) + 1 - i]
      BY <1>1, <2>1, OrderOfInterval, Zenon
    <2> QED
      BY <1>5, <2>2, <2>3
  <1> QED
    BY <1>1, <1>4, <1>7, <1>8

-----------------------------------------------------------------------------
(* The tables under an import step.                                        *)

LEMMA ImportStep ==
  ASSUME LedgerOK, CreatedOK, Import
  PROVE  /\ LedgerOK'
         /\ CreatedOK'
         /\ \A b \in Batches : /\ stored[b] \subseteq stored'[b]
                               /\ stored[b] = 1 .. Rows[b] => stored'[b] = 1 .. Rows[b]
         /\ created' = created \/ \E b \in Batches : created' = created \o <<b>>
  <1> DEFINE Statuses == {"none", "uploaded", "processed", "failed"}
             New == {b \in Batches : status[b] = "none" /\ status'[b] # "none"}
  <1>1. /\ status \in [Batches -> Statuses]
        /\ created \in Seq(Batches)
        /\ ToSet(created) = {b \in Batches : status[b] # "none"}
        /\ created' = created \o SetToSeq(New)
    BY DEF LedgerOK, CreatedOK, Import
  <1> HIDE DEF New
  <1>2. PICK b \in Batches : \/ Tables!Register(b) \/ Tables!Append(b)
                             \/ Tables!Announce(b) \/ Tables!Reject(b)
    BY DEF Import, Tables!Next
  <1>3. ASSUME New = {}, \A c \in Batches : status[c] = "none" <=> status'[c] = "none"
        PROVE  CreatedOK' /\ created' = created
    <2>1. created' = created
      BY <1>1, <1>3, OneOrNone, ConcatEmptySeq
    <2> QED
      BY <1>1, <1>3, <2>1 DEF CreatedOK
  <1>8. /\ status \in [Batches -> Statuses] /\ stored \in [Batches -> SUBSET Nat] /\ counted \in [Batches -> Nat]
        /\ \A c \in Batches : BatchOK(c) /\ Rows[c] \in Nat
    BY PageAssumption DEF LedgerOK
  <1>4. CASE Tables!Register(b)
    <2>1. /\ status[b] = "none"
          /\ status' = [status EXCEPT ![b] = "uploaded"]
          /\ UNCHANGED <<stored, counted>>
      BY <1>4 DEF Tables!Register
    <2>2. New = {b}
      BY <1>1, <2>1 DEF New
    <2>3. created' = created \o <<b>>
      BY <1>1, <2>2, OneOrNone
    <2>4. /\ created' \in Seq(Batches)
          /\ ToSet(created') = ToSet(created) \cup {b}
      BY <1>1, <2>3, ItemsOfJoined
    <2>5. CreatedOK'
      BY <1>1, <2>1, <2>4 DEF CreatedOK
    <2>6. LedgerOK'
      BY <1>8, <2>1 DEF LedgerOK, BatchOK
    <2> QED
      BY <2>1, <2>3, <2>5, <2>6
  <1>5. CASE Tables!Append(b)
    <2>1. PICK m \in 0 .. Rows[b] : \E n \in m + 1 .. Rows[b] :
             stored[b] = 1 .. m /\ stored' = [stored EXCEPT ![b] = 1 .. n]
      BY <1>5 DEF Tables!Append
    <2>2. PICK n \in m + 1 .. Rows[b] : stored' = [stored EXCEPT ![b] = 1 .. n]
      BY <2>1
    <2>3. UNCHANGED <<status, counted>> /\ stored[b] = 1 .. m
      BY <1>5, <2>1 DEF Tables!Append
    <2>4. New = {}
      BY <2>3 DEF New
    <2>5. CreatedOK' /\ created' = created
      BY <1>3, <2>3, <2>4
    <2>6. m \in Nat /\ n \in Nat /\ m < n /\ n <= Rows[b]
      BY <1>8, <2>2
    <2>7. 1 .. m \subseteq 1 .. n /\ (1 .. m = 1 .. Rows[b] => FALSE)
      <3>1. n \in 1 .. Rows[b] /\ n \notin 1 .. m
        BY <1>8, <2>6
      <3>2. 1 .. m \subseteq 1 .. n
        BY <2>6
      <3> QED
        BY <3>1, <3>2
    <2>8. BatchOK(b)'
      <3>1. stored'[b] = 1 .. n /\ counted'[b] = counted[b] /\ status'[b] = status[b]
        BY <1>8, <2>2, <2>3
      <3>2. n \in 0 .. Rows[b] /\ counted[b] = 0 /\ status[b] # "processed"
        BY <1>8, <2>3, <2>6, <2>7 DEF BatchOK
      <3> QED
        BY <3>1, <3>2 DEF BatchOK
    <2>9. LedgerOK'
      BY <1>8, <2>2, <2>3, <2>6, <2>8 DEF LedgerOK, BatchOK
    <2>10. \A c \in Batches : /\ stored[c] \subseteq stored'[c]
                              /\ stored[c] = 1 .. Rows[c] => stored'[c] = 1 .. Rows[c]
      BY <1>8, <2>2, <2>3, <2>7
    <2> QED
      BY <2>5, <2>9, <2>10
  <1>6. CASE Tables!Announce(b)
    <2>1. /\ status[b] # "none" /\ stored[b] = 1 .. Rows[b]
          /\ status' = [status EXCEPT ![b] = "processed"]
          /\ counted' = [counted EXCEPT ![b] = Rows[b]]
          /\ UNCHANGED stored
      BY <1>6 DEF Tables!Announce
    <2>2. \A c \in Batches : status[c] = "none" <=> status'[c] = "none"
      BY <1>1, <2>1
    <2>3. CreatedOK' /\ created' = created
      BY <1>3, <2>2 DEF New
    <2>4. BatchOK(b)'
      BY <1>8, <2>1 DEF BatchOK
    <2>5. LedgerOK'
      BY <1>8, <2>1, <2>4 DEF LedgerOK, BatchOK
    <2> QED
      BY <2>1, <2>3, <2>5
  <1>7. CASE Tables!Reject(b)
    <2>1. /\ status[b] # "none"
          /\ status' = [status EXCEPT ![b] = "failed"]
          /\ UNCHANGED <<stored, counted>>
      BY <1>7 DEF Tables!Reject
    <2>2. \A c \in Batches : status[c] = "none" <=> status'[c] = "none"
      BY <1>1, <2>1
    <2>3. CreatedOK' /\ created' = created
      BY <1>3, <2>2 DEF New
    <2>4. LedgerOK'
      BY <1>8, <2>1 DEF LedgerOK, BatchOK
    <2> QED
      BY <2>1, <2>3, <2>4
  <1> QED
    BY <1>2, <1>4, <1>5, <1>6, <1>7

-----------------------------------------------------------------------------
(* Each action keeps the invariant.                                        *)

LEMMA ImportKeeps == IInv /\ Import => IInv'
  <1> SUFFICES ASSUME IInv, Import PROVE IInv'
    OBVIOUS
  <1> USE DEF IInv
  <1>1. /\ LedgerOK' /\ CreatedOK' /\ list' = list
        /\ \A b \in Batches : /\ stored[b] \subseteq stored'[b]
                              /\ stored[b] = 1 .. Rows[b] => stored'[b] = 1 .. Rows[b]
        /\ created' = created \/ \E b \in Batches : created' = created \o <<b>>
    BY ImportStep DEF Import
  <1>2. ListOK'
    BY <1>1 DEF ListOK
  <1>3. RowsOK'
    BY <1>1 DEF RowsOK
  <1>4. ImportsOK'
    <2>1. ASSUME NEW b, Ahead(b) PROVE Ahead(b)'
      <3>1. CASE created' = created
        BY <1>1, <2>1, <3>1 DEF Ahead
      <3>2. CASE \E c \in Batches : created' = created \o <<c>>
        <4>1. PICK c \in Batches : created' = created \o <<c>>
          BY <3>2
        <4>2. created \in Seq(Batches) /\ Len(created) \in Nat /\ Len(list.got) \in Nat
          BY DEF CreatedOK, ListOK
        <4>3. PICK j \in 1 .. Len(created) : created[j] = b /\ Len(created) - j >= Len(list.got)
          BY <2>1 DEF Ahead
        <4>4. Len(created') = Len(created) + 1 /\ created'[j] = created[j]
          BY <4>1, <4>2
        <4> QED
          BY <1>1, <4>2, <4>3, <4>4 DEF Ahead
      <3> QED
        BY <1>1, <3>1, <3>2
    <2> QED
      BY <1>1, <2>1 DEF ImportsOK
  <1>5. DetailsOK'
    BY <1>1 DEF DetailsOK, SeenWhole
  <1> QED
    BY <1>1, <1>2, <1>3, <1>4, <1>5

LEMMA StartKeeps == IInv /\ (ListImports \/ ListImportRows \/ GetImportDetails) => IInv'
  <1> SUFFICES ASSUME IInv, ListImports \/ ListImportRows \/ GetImportDetails PROVE IInv'
    OBVIOUS
  <1> USE DEF IInv
  <1>1. PICK kind \in {"imports", "rows", "details"}, of \in Batches \cup {None, "uploaded", "processed", "failed"} :
          /\ kind # "imports" => of \in Batches
          /\ Start(kind, of)
    BY DEF ListImports, ListImportRows, GetImportDetails
  <1>2. list' = [kind |-> kind, of |-> of, pc |-> "find", offset |-> 0, items |-> <<>>, total |-> 0,
                 seen |-> "none", got |-> <<>>, known |-> {b \in Batches : status[b] # "none"}]
    BY <1>1 DEF Start, NoList
  <1>3. UNCHANGED <<status, stored, counted, created>>
    BY DEF ListImports, ListImportRows, GetImportDetails, tables
  <1>4. LedgerOK' /\ CreatedOK'
    BY <1>3 DEF LedgerOK, BatchOK, CreatedOK
  <1>5. ListOK'
    BY <1>1, <1>2, PageAssumption DEF ListOK
  <1>6. RowsOK'
    BY <1>1, <1>2 DEF RowsOK
  <1>7. ImportsOK'
    <2>1. ASSUME NEW b \in list'.known PROVE Ahead(b)'
      <3>1. b \in ToSet(created) /\ created \in Seq(Batches)
        BY <1>2, <2>1 DEF CreatedOK
      <3>2. PICK j \in 1 .. Len(created) : created[j] = b
        BY <3>1, ItemsOfJoined
      <3>3. Len(list'.got) = 0
        BY <1>2
      <3> QED
        BY <1>3, <3>1, <3>2, <3>3 DEF Ahead
    <2> QED
      BY <1>2, <2>1 DEF ImportsOK
  <1>8. DetailsOK'
    BY <1>1, <1>2 DEF DetailsOK
  <1> QED
    BY <1>4, <1>5, <1>6, <1>7, <1>8

LEMMA ForgetKeeps == IInv /\ Forget => IInv'
  <1> SUFFICES ASSUME IInv, Forget PROVE IInv'
    OBVIOUS
  <1>1. list' = NoList /\ UNCHANGED <<status, stored, counted, created>>
    BY DEF Forget, tables
  <1>2. LedgerOK' /\ CreatedOK'
    BY <1>1 DEF IInv, LedgerOK, BatchOK, CreatedOK
  <1>3. ListOK'
    BY <1>1, PageAssumption DEF ListOK, NoList
  <1> QED
    BY <1>1, <1>2, <1>3 DEF IInv, RowsOK, ImportsOK, DetailsOK, NoList

LEMMA CountKeeps == IInv /\ Count => IInv'
  <1> SUFFICES ASSUME IInv, Count PROVE IInv'
    OBVIOUS
  <1> USE DEF IInv
  <1> DEFINE total == IF TotalKnown THEN list.offset + Len(list.items) ELSE Len(Result)
  <1>1. /\ list.pc = "count"
        /\ list' = [list EXCEPT !.pc = "answered", !.total = total]
        /\ UNCHANGED <<status, stored, counted, created>>
    BY DEF Count, tables
  <1>2. LedgerOK' /\ CreatedOK'
    BY <1>1 DEF LedgerOK, BatchOK, CreatedOK
  <1>3. list.kind \in {"imports", "rows"} /\ list.offset \in Nat /\ Len(list.items) \in Nat
    BY <1>1 DEF ListOK
  <1>4. ASSUME list.kind = "rows"
        PROVE  total \in Nat /\ total >= Len(list.got)
    <2>1. PICK n \in Nat : stored[list.of] = 1 .. n
      BY <1>4, PageAssumption DEF RowsOK, LedgerOK, BatchOK
    <2>2. Len(Result) = n
      BY <1>4, <2>1, RowsInQuery DEF Result
    <2>3. 1 .. Len(list.got) \subseteq 1 .. n /\ Len(list.got) \in Nat
      BY <1>4, <2>1 DEF RowsOK, ListOK
    <2>4. Len(list.got) <= n
      BY <2>3
    <2>5. Len(list.got) = list.offset + Len(list.items)
      BY <1>1, <1>3 DEF ListOK
    <2> QED
      BY <1>3, <2>2, <2>4, <2>5
  <1>5. total \in Nat
    <2>1. CASE list.kind = "rows"
      BY <1>4, <2>1
    <2>2. CASE list.kind = "imports"
      <3>1. Len(Result) \in Nat
        BY <2>2, ImportsInQuery DEF Result
      <3> QED
        BY <1>3, <3>1
    <2> QED
      BY <1>3, <2>1, <2>2
  <1> HIDE DEF total
  <1>6. ListOK'
    BY <1>1, <1>5 DEF ListOK
  <1>7. list'.total = total /\ \A f \in {"kind", "of", "offset", "items", "got", "known"} : list'[f] = list[f]
    BY <1>1 DEF ListOK
  <1>8. list'.pc = "answered"
    BY <1>1 DEF ListOK
  <1>9. RowsOK'
    BY <1>1, <1>4, <1>7 DEF RowsOK
  <1>10. ImportsOK'
    BY <1>1, <1>7, <1>8 DEF ImportsOK, Ahead
  <1>11. DetailsOK'
    BY <1>3, <1>7 DEF DetailsOK
  <1> QED
    BY <1>2, <1>6, <1>9, <1>10, <1>11

LEMMA NextPageKeeps == IInv /\ NextPage => IInv'
  <1> SUFFICES ASSUME IInv, NextPage PROVE IInv'
    OBVIOUS
  <1> USE DEF IInv
  <1> DEFINE full == Len(list.items) = PageSize
  <1>1. /\ list.pc = "answered"
        /\ list' = IF full THEN [list EXCEPT !.pc = "find", !.offset = @ + PageSize]
                   ELSE [list EXCEPT !.pc = "done"]
        /\ UNCHANGED <<status, stored, counted, created>>
    BY DEF NextPage, tables
  <1>2. LedgerOK' /\ CreatedOK'
    BY <1>1 DEF LedgerOK, BatchOK, CreatedOK
  <1>3. list.kind \in {"imports", "rows"}
    BY <1>1 DEF ListOK
  <1>4. ListOK'
    <2>1. /\ PageSize \in Nat /\ list.offset \in Nat
          /\ Len(list.got) = list.offset + Len(list.items)
      BY <1>1, <1>3, PageAssumption DEF ListOK
    <2>2. CASE full
      <3>1. list' = [list EXCEPT !.pc = "find", !.offset = @ + PageSize] /\ list.offset + PageSize \in Nat
        BY <1>1, <2>1, <2>2
      <3>2. Len(list.got) = list.offset + PageSize
        BY <2>1, <2>2
      <3> HIDE DEF full
      <3> QED
        BY <1>3, <3>1, <3>2 DEF ListOK
    <2>3. CASE ~full
      BY <1>1, <1>3, <2>1, <2>3 DEF ListOK
    <2> QED
      BY <2>2, <2>3
  <1>5. /\ list'.pc = IF full THEN "find" ELSE "done"
        /\ \A f \in {"kind", "of", "items", "got", "known", "total"} : list'[f] = list[f]
    BY <1>1 DEF ListOK
  <1>6. RowsOK'
    BY <1>1, <1>5 DEF RowsOK
  <1>7. ImportsOK'
    BY <1>1, <1>5 DEF ImportsOK, Ahead
  <1>8. DetailsOK'
    BY <1>3, <1>5 DEF DetailsOK
  <1> QED
    BY <1>2, <1>4, <1>6, <1>7, <1>8

LEMMA FindKeeps == IInv /\ Find => IInv'
  <1> SUFFICES ASSUME IInv, Find PROVE IInv'
    OBVIOUS
  <1> USE DEF IInv
  <1> DEFINE S    == Nat \cup Batches
             page == Page(Result, list.offset)
             got  == list.got \o page
  <1>1. /\ list.pc = "find" /\ list.kind \in {"imports", "rows"}
        /\ list' = [list EXCEPT !.items = page, !.got = got, !.pc = "count"]
        /\ UNCHANGED <<status, stored, counted, created>>
    BY DEF Find, tables
  <1>2. LedgerOK' /\ CreatedOK'
    BY <1>1 DEF LedgerOK, BatchOK, CreatedOK
  <1>3. /\ list.offset \in Nat /\ PageSize \in Nat \ {0}
        /\ list.got \in Seq(S) /\ Len(list.got) = list.offset
    BY <1>1, PageAssumption DEF ListOK
  <1>4. ASSUME list.kind = "rows"
        PROVE  \E n \in Nat : stored[list.of] = 1 .. n /\ Result = [i \in 1 .. n |-> i] /\ list.of \in Batches
    <2>1. PICK n \in Nat : stored[list.of] = 1 .. n
      BY <1>4, PageAssumption DEF RowsOK, LedgerOK, BatchOK
    <2> QED
      BY <1>4, <2>1, RowsInQuery DEF Result, RowsOK
  <1>5. Result \in Seq(S) /\ Len(Result) \in Nat
    <2>1. CASE list.kind = "rows"
      <3>1. PICK n \in Nat : Result = [i \in 1 .. n |-> i]
        BY <1>4, <2>1
      <3> QED
        BY <3>1
    <2>2. CASE list.kind = "imports"
      <3>1. Result \in Seq(Batches)
        BY <2>2, ImportsInQuery DEF Result
      <3> QED
        BY <3>1
    <2> QED
      BY <1>1, <2>1, <2>2
  <1>6. /\ page \in Seq(S)
        /\ Len(page) = IF Len(Result) <= list.offset THEN 0
                       ELSE IF Len(Result) <= list.offset + PageSize THEN Len(Result) - list.offset
                       ELSE PageSize
        /\ \A i \in 1 .. Len(page) : page[i] = Result[list.offset + i]
    BY <1>3, <1>5, PageParts, Zenon
  <1> HIDE DEF page
  <1>7. /\ got \in Seq(S)
        /\ Len(got) = list.offset + Len(page)
        /\ Len(page) \in Nat /\ Len(page) <= PageSize
        /\ \A i \in 1 .. Len(got) : got[i] = IF i <= list.offset THEN list.got[i] ELSE page[i - list.offset]
    <2>1. Len(page) \in Nat /\ Len(page) <= PageSize
      BY <1>3, <1>5, <1>6
    <2>2. /\ got \in Seq(S)
          /\ Len(got) = Len(list.got) + Len(page)
          /\ \A i \in 1 .. Len(list.got) + Len(page) :
               got[i] = IF i <= Len(list.got) THEN list.got[i] ELSE page[i - Len(list.got)]
      BY <1>3, <1>6, ConcatProperties, Zenon
    <2> HIDE DEF got, S
    <2> QED
      BY <1>3, <2>1, <2>2
  <1>8. \A i \in 1 .. Len(got) : got[i] = IF i <= list.offset THEN list.got[i] ELSE Result[i]
    <2> SUFFICES ASSUME NEW i \in 1 .. Len(got), ~(i <= list.offset)
                 PROVE  page[i - list.offset] = Result[i]
      BY <1>7
    <2>1. i - list.offset \in 1 .. Len(page) /\ list.offset + (i - list.offset) = i
      BY <1>3, <1>7
    <2> QED
      BY <1>6, <2>1
  <1>9. ToSet(got) = ToSet(list.got) \cup ToSet(page)
    BY <1>3, <1>6, ItemsOfJoined
  <1> HIDE DEF got
  <1>10. /\ list'.got = got /\ list'.items = page /\ list'.pc = "count"
         /\ \A f \in {"kind", "of", "known"} : list'[f] = list[f]
    BY <1>1 DEF ListOK
  <1>11. ListOK'
    BY <1>1, <1>6, <1>7 DEF ListOK
  <1>12. RowsOK'
    <2> SUFFICES ASSUME list.kind = "rows"
                 PROVE  got = [i \in 1 .. Len(got) |-> i] /\ 1 .. Len(got) \subseteq stored[list.of]
      BY <1>1, <1>10 DEF RowsOK
    <2>1. PICK n \in Nat : stored[list.of] = 1 .. n /\ Result = [i \in 1 .. n |-> i]
      BY <1>4
    <2>2. /\ list.got = [i \in 1 .. list.offset |-> i]
          /\ 1 .. list.offset \subseteq 1 .. n
      BY <1>3, <2>1 DEF RowsOK
    <2>3. list.offset <= n
      BY <1>3, <2>2
    <2>4. Len(Result) = n
      BY <2>1
    <2>5. Len(got) \in Nat /\ Len(got) <= n
      BY <1>3, <1>6, <1>7, <2>3, <2>4
    <2>6. ASSUME NEW i \in 1 .. Len(got) PROVE got[i] = i
      <3>1. CASE i <= list.offset
        <4>1. i \in 1 .. list.offset
          BY <1>3, <2>5, <3>1
        <4> QED
          BY <1>8, <2>2, <3>1, <4>1
      <3>2. CASE ~(i <= list.offset)
        <4>1. i \in 1 .. n
          BY <2>5
        <4> QED
          BY <1>8, <2>1, <3>2, <4>1
      <3> QED
        BY <3>1, <3>2
    <2> QED
      BY <1>7, <2>1, <2>5, <2>6
  <1>13. ImportsOK'
    <2> SUFFICES ASSUME list.kind = "imports", list.of = None, NEW b \in list.known, b \notin ToSet(got)
                 PROVE  Len(page) = PageSize /\ Ahead(b)'
      BY <1>10 DEF ImportsOK
    <2>1. Ahead(b)
      BY <1>9 DEF ImportsOK
    <2>2. PICK j \in 1 .. Len(created) : created[j] = b /\ Len(created) - j >= list.offset
      BY <1>3, <2>1 DEF Ahead
    <2>3. Len(created) \in Nat
      BY DEF CreatedOK
    <2>4. /\ Len(Result) = Len(created)
          /\ \A i \in 1 .. Len(created) : Result[i] = created[Len(created) + 1 - i]
      BY ImportsInQuery DEF Result
    <2> DEFINE place == Len(created) + 1 - j
    <2>5. place \in 1 .. Len(created) /\ place > list.offset /\ Len(created) + 1 - place = j
      BY <1>3, <2>2, <2>3
    <2>6. Result[place] = b
      BY <2>2, <2>4, <2>5
    <2> HIDE DEF place
    <2>7. ASSUME place <= Len(got) PROVE FALSE
      <3>1. place \in 1 .. Len(got)
        BY <2>3, <2>5, <2>7
      <3>2. got[place] = b
        BY <1>3, <1>8, <2>5, <2>6, <3>1
      <3> QED
        BY <1>7, <3>1, <3>2, ItemsOfJoined
    <2>8. place > list.offset + Len(page)
      BY <1>3, <1>7, <2>3, <2>5, <2>7
    <2>9. Len(page) = PageSize
      BY <1>3, <1>6, <2>3, <2>4, <2>5, <2>8
    <2>10. Len(created) - j >= Len(got)
      BY <1>3, <1>7, <2>2, <2>3, <2>8 DEF place
    <2> QED
      BY <1>1, <1>10, <2>2, <2>9, <2>10 DEF Ahead
  <1>14. DetailsOK'
    BY <1>1, <1>10 DEF DetailsOK
  <1> QED
    BY <1>2, <1>11, <1>12, <1>13, <1>14

LEMMA ReadDetailKeeps == IInv /\ ReadDetail => IInv'
  <1> SUFFICES ASSUME IInv, ReadDetail PROVE IInv'
    OBVIOUS
  <1> USE DEF IInv
  <1> DEFINE b == list.of
  <1>1. /\ list.kind = "details" /\ list.pc = "find"
        /\ UNCHANGED <<status, stored, counted, created>>
    BY DEF ReadDetail, tables
  <1>2. LedgerOK' /\ CreatedOK'
    BY <1>1 DEF LedgerOK, BatchOK, CreatedOK
  <1>3. b \in Batches /\ list.offset \in {0, 1} /\ list.items = <<>>
    BY <1>1 DEF DetailsOK
  <1>4. /\ Rows[b] \in Nat /\ BatchOK(b)
        /\ status[b] \in {"none", "uploaded", "processed", "failed"} /\ counted[b] \in Nat
    BY <1>3, PageAssumption DEF LedgerOK
  <1>5. RowsOK' /\ ImportsOK'
    <2>1. list'.kind = "details"
      BY <1>1 DEF ReadDetail, ListOK
    <2> QED
      BY <2>1 DEF RowsOK, ImportsOK
  <1>6. CASE list.offset = 0
    <2>1. list' = [list EXCEPT !.seen = status[b], !.total = counted[b], !.offset = 1, !.pc = "find"]
      BY <1>1, <1>6 DEF ReadDetail, DetailReads, ListOK
    <2>2. ListOK'
      BY <1>1, <1>4, <2>1 DEF ListOK
    <2>3. /\ list'.kind = "details" /\ list'.pc = "find" /\ list'.offset = 1 /\ list'.items = <<>>
          /\ list'.seen = status[b] /\ list'.total = counted[b] /\ list'.of = b
      BY <1>1, <1>3, <2>1 DEF ListOK
    <2>4. DetailsOK'
      BY <1>1, <1>3, <1>4, <2>3 DEF DetailsOK, SeenWhole, BatchOK
    <2> QED
      BY <1>2, <1>5, <2>2, <2>4
  <1>7. CASE list.offset = 1
    <2> DEFINE sample == SampleOf(OrderedRows(b))
    <2>1. list' = [list EXCEPT !.items = sample, !.offset = 2, !.pc = "done"]
      BY <1>1, <1>7 DEF ReadDetail, DetailReads, ListOK
    <2>2. PICK n \in Nat : stored[b] = 1 .. n /\ n <= Rows[b]
      BY <1>4 DEF BatchOK
    <2>3. OrderedRows(b) = [i \in 1 .. n |-> i] /\ OrderedRows(b) \in Seq(Nat) /\ Len(OrderedRows(b)) = n
      BY <2>2, RowsInQuery
    <2>4. /\ SampleSize \in Nat
          /\ Min({n, SampleSize}) = IF n <= SampleSize THEN n ELSE SampleSize
      BY PageAssumption, MinOfTwo
    <2> DEFINE m == Min({n, SampleSize})
    <2>5. sample = SubSeq(OrderedRows(b), 1, m)
      BY <2>3 DEF SampleOf
    <2>6. m \in Nat /\ m <= n /\ m <= SampleSize
      BY <2>4
    <2> HIDE DEF m, sample
    <2>7. sample = [i \in 1 .. m |-> i] /\ sample \in Seq(Nat) /\ Len(sample) = m
      BY <2>3, <2>5, <2>6
    <2>8. ListOK'
      <3>1. sample \in Seq(Nat \cup Batches)
        BY <2>7
      <3> QED
        BY <1>1, <2>1, <3>1 DEF ListOK
    <2>9. /\ list'.kind = "details" /\ list'.pc = "done" /\ list'.offset = 2 /\ list'.items = sample
          /\ list'.seen = list.seen /\ list'.total = list.total /\ list'.of = b
      BY <1>1, <2>1 DEF ListOK
    <2>10. ASSUME SeenWhole PROVE m = Min({Rows[b], SampleSize})
      <3>1. 1 .. n = 1 .. Rows[b]
        BY <1>1, <1>7, <2>2, <2>10 DEF DetailsOK
      <3>2. n = Rows[b]
        <4>1. \A k \in Nat : Cardinality(1 .. k) = k
          BY FS_Interval
        <4> QED
          BY <1>4, <3>1, <4>1
      <3> QED
        BY <3>2 DEF m
    <2>11. DetailsOK'
      BY <1>1, <1>3, <2>6, <2>7, <2>9, <2>10 DEF DetailsOK, SeenWhole
    <2> QED
      BY <1>2, <1>5, <2>8, <2>11
  <1> QED
    BY <1>3, <1>6, <1>7

LEMMA InitKeeps == Init => IInv
  <1> SUFFICES ASSUME Init PROVE IInv
    OBVIOUS
  <1>1. /\ status = [b \in Batches |-> "none"] /\ stored = [b \in Batches |-> {}]
        /\ counted = [b \in Batches |-> 0] /\ created = <<>> /\ list = NoList
    BY DEF Init, Tables!Init
  <1>2. LedgerOK
    <2>1. 0 \in 0 .. 0 /\ {} = 1 .. 0 /\ \A b \in Batches : 0 \in 0 .. Rows[b]
      BY PageAssumption
    <2> QED
      BY <1>1, <2>1 DEF LedgerOK, BatchOK
  <1>3. CreatedOK
    BY <1>1 DEF CreatedOK, ToSet
  <1>4. ListOK
    BY <1>1, PageAssumption DEF ListOK, NoList
  <1> QED
    BY <1>1, <1>2, <1>3, <1>4 DEF IInv, RowsOK, ImportsOK, DetailsOK, NoList

(* Whatever imports come and go between the queries, the lists and details *)
(* know what IInv says.                                                    *)
THEOREM Invariance == Spec => []IInv
  <1>1. IInv /\ [Next]_vars => IInv'
    <2> SUFFICES ASSUME IInv, [Next]_vars PROVE IInv'
      OBVIOUS
    <2>1. CASE UNCHANGED vars
      BY <2>1 DEF vars, tables, IInv, LedgerOK, BatchOK, CreatedOK, ListOK, RowsOK, ImportsOK, Ahead,
                  DetailsOK, SeenWhole
    <2> QED
      BY <2>1, ImportKeeps, StartKeeps, ForgetKeeps, FindKeeps, CountKeeps, NextPageKeeps, ReadDetailKeeps
      DEF Next
  <1> QED
    BY <1>1, InitKeeps, PTL DEF Spec

-----------------------------------------------------------------------------
(* What a caller may rely on.                                              *)

(* The type invariant, with the pages and samples no longer than their     *)
(* limits and every registered import in its place by createdAt.           *)
THEOREM TypeCorrect == Spec => []TypeOK
  <1>1. IInv => TypeOK
    <2> SUFFICES ASSUME IInv PROVE TypeOK
      OBVIOUS
    <2>1. Len(list.items) \in Nat /\ Len(list.got) \in Nat /\ PageSize \in Nat /\ SampleSize \in Nat
          /\ list.offset \in Nat
      BY PageAssumption DEF IInv, ListOK
    <2>2. CASE list.kind \in {"imports", "rows"}
      BY <2>1, <2>2 DEF IInv, ListOK, CreatedOK, TypeOK
    <2>3. CASE list.kind = "none"
      BY <2>1, <2>3 DEF IInv, ListOK, CreatedOK, TypeOK
    <2>4. CASE list.kind = "details"
      BY <2>1, <2>4 DEF IInv, ListOK, DetailsOK, CreatedOK, TypeOK
    <2> QED
      BY <2>2, <2>3, <2>4 DEF IInv, ListOK
  <1> QED
    BY <1>1, Invariance, PTL

(* listImportRows: the pages of an import join without gap or repetition,  *)
(* however the worker's inserts fall between them.                         *)
THEOREM PagesJoin == Spec => []RowPagesJoin
  <1>1. IInv => RowPagesJoin
    BY DEF IInv, RowsOK, RowPagesJoin
  <1> QED
    BY <1>1, Invariance, PTL

(* listImportRows: an answer's total covers all that its pages showed.     *)
THEOREM TotalIsEnough == Spec => []TotalCoversPages
  <1>1. IInv => TotalCoversPages
    BY DEF IInv, RowsOK, TotalCoversPages
  <1> QED
    BY <1>1, Invariance, PTL

(* listImports: a caller that pages to the end has met every import there  *)
(* was when it began, whatever was uploaded meanwhile.                     *)
THEOREM AllImportsMet == Spec => []NoImportMissed
  <1>1. IInv => NoImportMissed
    BY DEF IInv, ImportsOK, NoImportMissed
  <1> QED
    BY <1>1, Invariance, PTL

(* getImportDetails: the batch and the sample rows, read one after the     *)
(* other, fit together.                                                    *)
THEOREM DetailsFit == Spec => []AnswerIsConsistent
  <1>1. IInv => AnswerIsConsistent
    <2> SUFFICES ASSUME IInv, list.kind = "details", list.pc = "done"
                 PROVE  /\ list.items = [i \in 1 .. Len(list.items) |-> i]
                        /\ Len(list.items) >= Min({list.total, SampleSize})
                        /\ list.seen = "processed" => Len(list.items) = Min({Rows[list.of], SampleSize})
      BY Zenon DEF AnswerIsConsistent
    <2>1. /\ list.items = [i \in 1 .. Len(list.items) |-> i]
          /\ SeenWhole => Len(list.items) = Min({Rows[list.of], SampleSize})
          /\ list.total \in {0, Rows[list.of]}
          /\ list.of \in Batches
      BY DEF IInv, DetailsOK
    <2>2. Len(list.items) \in Nat /\ SampleSize \in Nat /\ Rows[list.of] \in Nat
      BY <2>1, PageAssumption DEF IInv, ListOK
    <2>3. CASE list.total = 0
      <3>1. Min({list.total, SampleSize}) = 0
        BY <2>2, <2>3, MinOfTwo
      <3> QED
        BY <2>1, <2>2, <3>1 DEF SeenWhole
    <2>4. CASE list.total # 0
      BY <2>1, <2>2, <2>4, MinOfTwo DEF SeenWhole
    <2> QED
      BY <2>3, <2>4
  <1> QED
    BY <1>1, Invariance, PTL

=============================================================================
