--------------------------- MODULE MCRuntimeQueue ---------------------------
(* Small instances of RuntimeQueue. *)
EXTENDS RuntimeQueue, TLC

Symmetry == Permutations(Message) \cup Permutations(Prompt)
=============================================================================
