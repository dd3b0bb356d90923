-------------------------- MODULE MCImportPipeline --------------------------
(* ImportPipeline on a small instance: a file of three records, so that    *)
(* with BatchSize 2 it takes a full and a partial chunk; and a malformed   *)
(* file of two, whose one full chunk may be stored before the error.       *)
EXTENDS ImportPipeline, TLC

CONSTANTS good, bad

MCRows == [b \in Batches |-> IF b = good THEN 3 ELSE 2]
MCMalformed == {bad} \cap Batches
Symmetry == Permutations(Workers)
=============================================================================
