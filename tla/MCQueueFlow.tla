----------------------------- MODULE MCQueueFlow -----------------------------
(* Small instances of QueueFlow for TLC.                                    *)
EXTENDS QueueFlow, TLC

(* Every slot belongs to one pool.                                          *)
OnePool == [p \in Proc |-> CHOOSE w \in Worker : TRUE]

(* Every slot is a pool of its own: Worker = Proc.                          *)
OwnPool == [p \in Proc |-> p]

(* Slots of one pool, and pools of one slot, are interchangeable.           *)
Sym == Permutations(Proc)
=============================================================================
