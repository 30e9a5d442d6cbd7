----------------------------- MODULE MCEventForge -----------------------------
(* EventForge on small instances.                                           *)
EXTENDS EventForge, TLC

(* Senders, endpoints and API requests are interchangeable.                 *)
Symmetry == Permutations(Sender) \cup Permutations(Endpoint) \cup Permutations(Admin)
=============================================================================
