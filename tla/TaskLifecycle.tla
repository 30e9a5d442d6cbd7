---------------------------- MODULE TaskLifecycle ----------------------------
(***************************************************************************)
(* What QueueFlow promises about each task, without workers, messages,     *)
(* leases or loops: the states of internal/domain/task.go and the          *)
(* transitions between them.  attempts counts executions since the last    *)
(* manual retry.                                                           *)
(***************************************************************************)
EXTENDS Naturals

CONSTANT Task

VARIABLES status, attempts, deleted

Final == {"completed", "failed", "dead_letter", "cancelled"}

Init ==
  /\ status = [t \in Task |-> "absent"]
  /\ attempts = [t \in Task |-> 0]
  /\ deleted = [t \in Task |-> FALSE]

Move(t, from, to) == /\ status[t] \in from
                     /\ ~deleted[t]
                     /\ status' = [status EXCEPT ![t] = to]
                     /\ UNCHANGED deleted

Create(t) == Move(t, {"absent"}, "pending") /\ UNCHANGED attempts

(* Also when an abandoned execution is taken over.                          *)
Start(t) == /\ Move(t, {"pending", "processing"}, "processing")
            /\ attempts' = [attempts EXCEPT ![t] = @ + 1]

Finish(t) ==
  /\ Move(t, {"processing"}, "completed") \/ Move(t, {"processing"}, "dead_letter")
  /\ UNCHANGED attempts

(* A failed or abandoned execution is queued again.                         *)
Repeat(t) == Move(t, {"processing"}, "pending") /\ UNCHANGED attempts

Withdraw(t) == Move(t, {"pending"}, "cancelled") /\ UNCHANGED attempts

Requeue(t) == /\ Move(t, Final \ {"completed"}, "pending")
              /\ attempts' = [attempts EXCEPT ![t] = 0]

Delete(t) == /\ status[t] \in Final
             /\ ~deleted[t]
             /\ deleted' = [deleted EXCEPT ![t] = TRUE]
             /\ UNCHANGED <<status, attempts>>

(* One statement of the reclaim loop repeats several tasks.                 *)
RepeatAll(S) == /\ \A t \in S : status[t] = "processing" /\ ~deleted[t]
                /\ status' = [t \in Task |-> IF t \in S THEN "pending" ELSE status[t]]
                /\ UNCHANGED <<attempts, deleted>>

Next ==
  \/ \E t \in Task : \/ Create(t) \/ Start(t) \/ Finish(t) \/ Repeat(t)
                     \/ Withdraw(t) \/ Requeue(t) \/ Delete(t)
  \/ \E S \in SUBSET Task : RepeatAll(S)

Spec == Init /\ [][Next]_<<status, attempts, deleted>>
=============================================================================
