---------------------------- MODULE MCTaskCanvas ----------------------------
(***************************************************************************)
(* A trigger, a condition with a task on one branch and a delay on the      *)
(* other, and a webhook that joins the two branches; and two smaller        *)
(* workflows.                                                               *)
(***************************************************************************)
EXTENDS TaskCanvas, TLC

CONSTANTS trig, cond, task, wait, hook

Symmetry == Permutations(Advancer)

MCKind == [n \in Node |->
             CASE n = trig -> "trigger" [] n = cond -> "condition"
               [] n = task -> "task" [] n = wait -> "delay" [] OTHER -> "webhook"]

Diamond == (<<trig, cond>> :> "any") @@ (<<cond, task>> :> "true")
             @@ (<<cond, wait>> :> "false")
             @@ (<<task, hook>> :> "any") @@ (<<wait, hook>> :> "any")

Fork == (<<trig, cond>> :> "any") @@ (<<cond, task>> :> "true") @@ (<<cond, wait>> :> "false")

Pair == (<<trig, cond>> :> "any") @@ (<<cond, task>> :> "true")
=============================================================================
