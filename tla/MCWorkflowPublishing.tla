------------------------- MODULE MCWorkflowPublishing -------------------------
(* Two valid definitions and an invalid one, edited by a few requests.      *)
EXTENDS WorkflowPublishing, TLC

Symmetry == Permutations(Caller) \cup Permutations(Valid) \cup Permutations(Input) \cup Permutations(Key)
=============================================================================
