-------------------------- MODULE MCHumanQuestions --------------------------
(* Small instances of HumanQuestions. *)
EXTENDS HumanQuestions, TLC

Symmetry == Permutations(Task)
=============================================================================
