---------------------------- MODULE DeliveryStore ----------------------------
(***************************************************************************)
(* The webhook_deliveries table of internal/storage/postgres, one operator *)
(* per statement: CanX(r) is the WHERE clause of X, X(r) the row it leaves *)
(* behind.  next_attempt_at is abstracted to whether it has passed (due);  *)
(* payload, response and error columns are left out.                       *)
(***************************************************************************)
EXTENDS Naturals

CONSTANT MaxAttempts   \* max_attempts

Status == {"absent", "pending", "delivering", "delivered", "retrying", "failed"}

Row == [status : Status, attempts : 0..MaxAttempts, due : BOOLEAN]

Absent == [status |-> "absent", attempts |-> 0, due |-> FALSE]

(* next_attempt_at is NULL: due at once.                                   *)
CreateWebhookDelivery == [status |-> "pending", attempts |-> 0, due |-> TRUE]

(* Mutant: deliveries in progress are claimed as well.                     *)
CanClaimAny(r) == /\ r.status \in {"pending", "retrying", "delivering"}
                  /\ r.attempts < MaxAttempts

CanClaim(r) == /\ r.status \in {"pending", "retrying"}
               /\ r.attempts < MaxAttempts
               /\ r.due

ClaimDueWebhookDelivery(r) ==
  [status |-> "delivering", attempts |-> r.attempts + 1, due |-> FALSE]

(* The statement names the row by id alone: whatever the row has become,   *)
(* it is overwritten with the sender's copy.                               *)
UpdateWebhookDelivery(status, attempts) ==
  [status |-> status, attempts |-> attempts, due |-> FALSE]

(* Mutant: any settled delivery can be sent again.                         *)
CanRetryAny(r) == r.status \in {"failed", "retrying", "delivered"}

CanRetry(r) == r.status \in {"failed", "retrying"}

RetryWebhookDelivery(r) == [status |-> "pending", attempts |-> 0, due |-> TRUE]
=============================================================================
