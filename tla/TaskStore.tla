------------------------------ MODULE TaskStore ------------------------------
(***************************************************************************)
(* The tasks table of internal/storage/postgres, one operator per          *)
(* statement.  A statement "UPDATE ... WHERE P" is a pair: a guard CanX(r) *)
(* (the WHERE clause on the row) and the row X(r) it leaves behind.  The   *)
(* processes that issue the statements are in QueueFlow.                   *)
(*                                                                         *)
(* visible_at is abstracted to the only thing any statement asks of it:    *)
(* whether it has passed (due).  A row of status "absent" was not          *)
(* inserted yet.  Payload, timestamps and error texts are left out.        *)
(***************************************************************************)
EXTENDS Naturals

CONSTANTS Worker,       \* the worker ids written to locked_by
          None,         \* SQL NULL
          MaxAttempts   \* max_attempts, that is max_retries + 1

Terminal == {"completed", "failed", "dead_letter", "cancelled"}

Status == Terminal \cup {"absent", "pending", "processing"}

Row == [status     : Status,
        attempts   : Nat,
        due        : BOOLEAN,              \* visible_at <= now
        owner      : Worker \cup {None},   \* locked_by
        dispatched : BOOLEAN,              \* dispatched_at IS NOT NULL
        deleted    : BOOLEAN]              \* deleted_at IS NOT NULL

Absent == [status |-> "absent", attempts |-> 0, due |-> FALSE, owner |-> None,
           dispatched |-> FALSE, deleted |-> FALSE]

NewTask(scheduled) == [Absent EXCEPT !.status = "pending", !.due = ~scheduled]

IsTerminal(r) == r.status \in Terminal

(* Mutant: one attempt too many.                                           *)
IsExhaustedLate(attempts) == attempts > MaxAttempts

IsExhausted(attempts) == attempts >= MaxAttempts

(* Mutant: visible_at is not looked at.                                     *)
CanClaimLeased(r) == ~r.deleted /\ r.status \in {"pending", "processing"}

CanClaim(r) == /\ ~r.deleted
               /\ r.due
               /\ r.status \in {"pending", "processing"}

ClaimForProcessing(r, w) == [r EXCEPT !.status = "processing", !.owner = w,
                                      !.attempts = @ + 1, !.due = FALSE]

CanHeartbeat(r, w) == r.owner = w /\ r.status = "processing"

Heartbeat(r) == [r EXCEPT !.due = FALSE]

(* The WHERE clause that Complete, Fail and MoveToDeadLetter share: it      *)
(* names the status and not locked_by.                                     *)
CanFinish(r) == r.status = "processing"

(* Mutant: locked_by is not cleared.                                        *)
CompleteLocked(r) == [r EXCEPT !.status = "completed"]

Complete(r) == [r EXCEPT !.status = "completed", !.owner = None]

(* Mutant: dispatched_at is not cleared.                                    *)
FailDispatched(r) == [r EXCEPT !.status = "pending", !.due = FALSE, !.owner = None]

Fail(r) == [r EXCEPT !.status = "pending", !.due = FALSE, !.owner = None,
                     !.dispatched = FALSE]

MoveToDeadLetter(r) == [r EXCEPT !.status = "dead_letter", !.owner = None]

CanReclaim(r) == r.status = "processing" /\ r.due

ReclaimExpired(r) == [r EXCEPT !.status = "pending", !.owner = None,
                               !.due = TRUE, !.dispatched = FALSE]

(* Mutant: a completed task may be retried.                                 *)
CanRequeueAll(r) == IsTerminal(r) /\ ~r.deleted

CanRequeue(r) == r.status \in {"failed", "dead_letter", "cancelled"} /\ ~r.deleted

Requeue(r) == [r EXCEPT !.status = "pending", !.attempts = 0, !.owner = None,
                        !.due = TRUE, !.dispatched = FALSE]

(* Mutant: a running task may be cancelled.                                 *)
CanCancelRunning(r) == r.status \in {"pending", "processing"} /\ ~r.deleted

CanCancel(r) == r.status = "pending" /\ ~r.deleted

Cancel(r) == [r EXCEPT !.status = "cancelled", !.owner = None]

CanSoftDelete(r) == IsTerminal(r) /\ ~r.deleted

SoftDelete(r) == [r EXCEPT !.deleted = TRUE]

CanMarkDispatched(r) == r.status = "pending"

MarkDispatched(r) == [r EXCEPT !.dispatched = TRUE]

(* Mutant: retried tasks are not reconciled.                                *)
UndispatchedNew(r) == r.status = "pending" /\ ~r.dispatched /\ r.due /\ r.attempts = 0

Undispatched(r) == /\ r.status = "pending"
                   /\ ~r.dispatched
                   /\ r.due
                   /\ ~r.deleted

(* ListDispatchableTasks: dispatched or not, visible or not.                *)
Dispatchable(r) == r.status = "pending" /\ ~r.deleted
=============================================================================
