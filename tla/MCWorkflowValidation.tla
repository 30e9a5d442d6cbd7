------------------------ MODULE MCWorkflowValidation ------------------------
EXTENDS WorkflowValidation, TLC

Symmetry == Permutations(NodeId) \cup Permutations(EdgeId)
=============================================================================
