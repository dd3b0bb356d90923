---------------------------- MODULE MCImportReads ----------------------------
(* Three imports, one of them a file of three records, in pages and        *)
(* samples of two.                                                         *)
EXTENDS ImportReads, TLC

CONSTANTS long, empty, broken
MCRows == long :> 3 @@ empty :> 0 @@ broken :> 0
=============================================================================
