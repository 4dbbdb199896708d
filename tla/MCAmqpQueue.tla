---------------------------- MODULE MCAmqpQueue ----------------------------
(* Two connections and the internal key; the limits are 1000 in the code,   *)
(* here they are small enough to be reached.                                *)
EXTENDS AmqpQueue, TLC

CONSTANTS A, B

MCConns == {A, B}

=============================================================================
