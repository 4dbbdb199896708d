-------------------------- MODULE MCParallelQueue --------------------------
(* Small values for ParallelQueue: the two types of the code, and keys that *)
(* occur under both so that a key alone never decides anything.             *)
EXTENDS ParallelQueue, TLC

CONSTANTS A, B

MCTypes == {"connection", "bnc"}
MCKeys  == {A, B}

=============================================================================
