---------------------------- MODULE ImportLedger ----------------------------
(***************************************************************************)
(* What the import tables promise to the pages that read them, with no     *)
(* API, queue or worker in sight: the rows of a batch only ever grow, as   *)
(* a prefix of its file, a batch is announced as processed only while all  *)
(* of a well-formed file is stored, and its rowCount is given then and     *)
(* never changes.  ImportPipeline implements it.                           *)
(***************************************************************************)
EXTENDS Integers

CONSTANTS Batches, Rows, Malformed

VARIABLES
  status,   \* status[b]: the import_batches status, "none" before the insert
  stored,   \* stored[b]: the rowIndex values of import_rows
  counted   \* counted[b]: the import_batches rowCount

ledger == <<status, stored, counted>>

Init ==
  /\ status = [b \in Batches |-> "none"]
  /\ stored = [b \in Batches |-> {}]
  /\ counted = [b \in Batches |-> 0]

Register(b) ==
  /\ status[b] = "none"
  /\ status' = [status EXCEPT ![b] = "uploaded"]
  /\ UNCHANGED <<stored, counted>>

Append(b) ==
  /\ status[b] # "none"
  /\ \E m \in 0 .. Rows[b] : \E n \in m + 1 .. Rows[b] :
       /\ stored[b] = 1 .. m
       /\ stored' = [stored EXCEPT ![b] = 1 .. n]
  /\ UNCHANGED <<status, counted>>

Announce(b) ==
  /\ status[b] # "none"
  /\ b \notin Malformed
  /\ stored[b] = 1 .. Rows[b]
  /\ status' = [status EXCEPT ![b] = "processed"]
  /\ counted' = [counted EXCEPT ![b] = Rows[b]]
  /\ UNCHANGED stored

Reject(b) ==
  /\ status[b] # "none"
  /\ status' = [status EXCEPT ![b] = "failed"]
  /\ UNCHANGED <<stored, counted>>

Next == \E b \in Batches : Register(b) \/ Append(b) \/ Announce(b) \/ Reject(b)

Spec == Init /\ [][Next]_ledger
=============================================================================
