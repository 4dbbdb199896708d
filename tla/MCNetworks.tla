----------------------------- MODULE MCNetworks -----------------------------
(* Networks with two clients that nothing tells apart. *)
EXTENDS Networks, TLC

Alike == Permutations(Clients)

=============================================================================
