------------------------------ MODULE EventForge ------------------------------
(***************************************************************************)
(* EventForge: the publisher that turns a task event into one delivery per *)
(* subscribed endpoint, the webhook workers that claim and send the        *)
(* deliveries that are due, and the API requests that edit endpoints and   *)
(* retry deliveries, concurrently over two Postgres tables.                *)
(*                                                                         *)
(* The grain is one SQL statement or one HTTP request.  A delivery is an   *)
(* (event, endpoint) pair.  Failures are guarded by Fault(k):              *)
(*   insert    CreateWebhookDelivery returns an error                      *)
(*   read      GetWebhookEndpoint or Decrypt does                          *)
(*   write     UpdateWebhookDelivery does                                  *)
(*   claim     the reply of ClaimDueWebhookDeliveries is lost              *)
(*   shutdown  a worker's context is cancelled (SIGTERM)                   *)
(*   crash     a worker dies                                               *)
(***************************************************************************)
EXTENDS FiniteSets, RetryPolicies

CONSTANTS Event, Endpoint,
          Sender,        \* webhook worker processes
          Admin,         \* concurrent API requests
          None,
          MaxAttempts,
          BatchSize,     \* deliveries a worker claims at once
          Faults, MaxFaults,
          MaxRetries,    \* bound: manual retries of one delivery
          MaxEdits       \* bound: edits of one endpoint

FaultKinds == {"insert", "read", "write", "claim", "shutdown", "crash"}

ASSUME EventForgeAssumption ==
  /\ MaxAttempts \in Nat \ {0}
  /\ BatchSize \in Nat \ {0}
  /\ None \notin (Event \X Endpoint) \cup Endpoint
  /\ Faults \subseteq FaultKinds
  /\ MaxFaults \in Nat /\ MaxRetries \in Nat /\ MaxEdits \in Nat

DB == INSTANCE DeliveryStore

Delivery == Event \X Endpoint

VARIABLES delivery,   \* Postgres: webhook_deliveries
          endpoint,   \* Postgres: webhook_endpoints
          publisher,  \* PublishTaskEvent of each event
          sender,     \* ProcessDue of each worker
          admin,      \* endpoint edits between their read and their write
          posts,      \* history: requests made since the last manual retry
          accepted,   \* history: deliveries some receiver accepted
          retries,    \* history: manual retries
          faults

hist == <<posts, accepted, retries>>

vars == <<delivery, endpoint, publisher, sender, admin, hist, faults>>

(* wants: the event's type is in event_types.  Signing secrets are numbered *)
(* in the order they are stored; secrets is the number stored so far and    *)
(* edits the number of edits begun (both history).                          *)
EndpointRow == [exists : BOOLEAN, deleted : BOOLEAN, active : BOOLEAN,
                wants : BOOLEAN, secret : Nat, secrets : Nat, edits : Nat]

NoEndpoint == [exists |-> FALSE, deleted |-> FALSE, active |-> FALSE,
               wants |-> FALSE, secret |-> 0, secrets |-> 0, edits |-> 0]

(* todo: endpoints still to get their delivery; lost: inserts that failed.  *)
Publisher == [pc : {"idle", "insert", "done"}, todo : SUBSET Endpoint,
              lost : SUBSET Endpoint, listed : SUBSET Endpoint]

(* copy is the attempt_count the claim returned for each delivery of the    *)
(* batch (todo and cur).                                                    *)
SenderState == [pc        : {"idle", "read", "send", "delivered", "failure"},
                todo      : SUBSET Delivery,
                cur       : Delivery \cup {None},
                copy      : [Delivery -> 0..MaxAttempts],
                cancelled : BOOLEAN]

Resting == [pc |-> "idle", todo |-> {}, cur |-> None,
            copy |-> [d \in Delivery |-> 0], cancelled |-> FALSE]

(* An edit of a field holds the row it read.                                *)
AdminState == [target : Endpoint \cup {None}, row : EndpointRow,
               field : {"active", "event_types", "secret"}]

Calm == [target |-> None, row |-> NoEndpoint, field |-> "active"]

TypeOK ==
  /\ delivery \in [Delivery -> DB!Row]
  /\ endpoint \in [Endpoint -> EndpointRow]
  /\ publisher \in [Event -> Publisher]
  /\ sender \in [Sender -> SenderState]
  /\ admin \in [Admin -> AdminState]
  /\ posts \in [Delivery -> Nat]
  /\ accepted \subseteq Delivery
  /\ retries \in [Delivery -> Nat]
  /\ faults \in 0..MaxFaults

Init ==
  /\ delivery = [d \in Delivery |-> DB!Absent]
  /\ endpoint = [e \in Endpoint |-> NoEndpoint]
  /\ publisher = [v \in Event |-> [pc |-> "idle", todo |-> {}, lost |-> {}, listed |-> {}]]
  /\ sender = [s \in Sender |-> Resting]
  /\ admin = [a \in Admin |-> Calm]
  /\ posts = [d \in Delivery |-> 0]
  /\ accepted = {}
  /\ retries = [d \in Delivery |-> 0]
  /\ faults = 0

Fault(k) == k \in Faults /\ faults < MaxFaults /\ faults' = faults + 1
-----------------------------------------------------------------------------
(* usecase.WebhookService: endpoints.                                       *)

CreateEndpoint(e) ==
  /\ ~endpoint[e].exists
  /\ \E active \in BOOLEAN, wants \in BOOLEAN :
       endpoint' = [endpoint EXCEPT ![e] =
                      [NoEndpoint EXCEPT !.exists = TRUE, !.active = active,
                                         !.wants = wants, !.secret = 1, !.secrets = 1]]
  /\ UNCHANGED <<delivery, publisher, sender, admin, hist, faults>>

Visible(e) == endpoint[e].exists /\ ~endpoint[e].deleted

(* UpdateEndpoint and RotateSecret read the row ...                         *)
EditRead(a, e) ==
  /\ admin[a] = Calm
  /\ Visible(e)
  /\ endpoint[e].edits < MaxEdits
  /\ \E field \in {"active", "event_types", "secret"} :
       admin' = [admin EXCEPT ![a] = [target |-> e, row |-> endpoint[e], field |-> field]]
  /\ endpoint' = [endpoint EXCEPT ![e].edits = @ + 1]
  /\ UNCHANGED <<delivery, publisher, sender, hist, faults>>

(* ... change one field of it, and write every column back.                 *)
Edited(r, a) ==
  LET own == admin[a].row IN
  [own EXCEPT !.deleted = r.deleted,
              !.active  = IF admin[a].field = "active" THEN ~@ ELSE @,
              !.wants   = IF admin[a].field = "event_types" THEN ~@ ELSE @,
              !.secret  = IF admin[a].field = "secret" THEN r.secrets + 1 ELSE @,
              !.secrets = IF admin[a].field = "secret" THEN r.secrets + 1 ELSE r.secrets,
              !.edits   = r.edits]

(* The write finds no row when the endpoint was deleted in between.         *)
UpdateWebhookEndpoint(r, a) == IF r.deleted THEN r ELSE Edited(r, a)

EditWrite(a) ==
  LET e == admin[a].target IN
  /\ e # None
  /\ endpoint' = [endpoint EXCEPT ![e] = UpdateWebhookEndpoint(@, a)]
  /\ admin' = [admin EXCEPT ![a] = Calm]
  /\ UNCHANGED <<delivery, publisher, sender, hist, faults>>

DeleteEndpoint(e) ==
  /\ Visible(e)
  /\ endpoint' = [endpoint EXCEPT ![e].deleted = TRUE, ![e].active = FALSE]
  /\ UNCHANGED <<delivery, publisher, sender, admin, hist, faults>>

(* usecase.WebhookDeliveryLogService.                                       *)
RetryDelivery(d) ==
  /\ DB!CanRetry(delivery[d])
  /\ retries[d] < MaxRetries
  /\ delivery' = [delivery EXCEPT ![d] = DB!RetryWebhookDelivery(delivery[d])]
  /\ posts' = [posts EXCEPT ![d] = 0]
  /\ retries' = [retries EXCEPT ![d] = @ + 1]
  /\ UNCHANGED <<endpoint, publisher, sender, admin, accepted, faults>>
-----------------------------------------------------------------------------
(* usecase.WebhookEventService.PublishTaskEvent: list the endpoints, then   *)
(* insert one delivery after the other, going on after an error.            *)

PublishList(v) ==
  /\ publisher[v].pc = "idle"
  /\ LET S == {e \in Endpoint : Visible(e) /\ endpoint[e].active /\ endpoint[e].wants}
     IN  publisher' = [publisher EXCEPT ![v] =
                         [pc |-> IF S = {} THEN "done" ELSE "insert",
                          todo |-> S, lost |-> {}, listed |-> S]]
  /\ UNCHANGED <<delivery, endpoint, sender, admin, hist, faults>>

(* Mutant: the first failed insert ends the loop.                           *)
PublishNextStop(v, e, failed) ==
  [publisher[v] EXCEPT !.todo = IF failed THEN {} ELSE @ \ {e},
                       !.lost = IF failed THEN @ \cup {e} ELSE @,
                       !.pc = IF failed \/ publisher[v].todo = {e} THEN "done" ELSE @]

PublishNext(v, e, failed) ==
  [publisher[v] EXCEPT !.todo = @ \ {e},
                       !.lost = IF failed THEN @ \cup {e} ELSE @,
                       !.pc = IF publisher[v].todo = {e} THEN "done" ELSE @]

PublishInsert(v, e) ==
  /\ publisher[v].pc = "insert"
  /\ e \in publisher[v].todo
  /\ \/ /\ delivery' = [delivery EXCEPT ![<<v, e>>] = DB!CreateWebhookDelivery]
        /\ publisher' = [publisher EXCEPT ![v] = PublishNext(v, e, FALSE)]
        /\ UNCHANGED faults
     \/ /\ Fault("insert")
        /\ publisher' = [publisher EXCEPT ![v] = PublishNext(v, e, TRUE)]
        /\ UNCHANGED delivery
  /\ UNCHANGED <<endpoint, sender, admin, hist>>
-----------------------------------------------------------------------------
(* usecase.WebhookDeliveryWorker.                                           *)

(* ProcessDue claims a batch; rows locked by another worker's claim are     *)
(* skipped, so it may be any of the rows that are due.                      *)
Claimed(S) == [d \in Delivery |-> IF d \in S
                 THEN DB!ClaimDueWebhookDelivery(delivery[d]) ELSE delivery[d]]

Returned(S) == [d \in Delivery |-> IF d \in S THEN delivery[d].attempts + 1 ELSE 0]

ClaimDue(s) ==
  /\ sender[s].pc = "idle"
  /\ ~sender[s].cancelled
  /\ \E S \in SUBSET {d \in Delivery : DB!CanClaim(delivery[d])} :
       /\ S # {} /\ Cardinality(S) <= BatchSize
       /\ delivery' = Claimed(S)
       /\ \/ /\ sender' = [sender EXCEPT ![s] = [sender[s] EXCEPT
                   !.pc = "read", !.todo = S, !.copy = Returned(S)]]
             /\ UNCHANGED faults
          \/ Fault("claim") /\ UNCHANGED sender
  /\ UNCHANGED <<endpoint, publisher, admin, hist>>

(* process: read the endpoint of the next delivery of the batch.            *)
ReadEndpoint(s, d) ==
  /\ sender[s].pc = "read"
  /\ d \in sender[s].todo
  /\ \/ /\ ~sender[s].cancelled
        /\ sender' = [sender EXCEPT ![s] =
             [sender[s] EXCEPT !.todo = @ \ {d}, !.cur = d,
                       !.pc = IF Visible(d[2]) /\ endpoint[d[2]].active
                              THEN "send" ELSE "failure"]]
        /\ UNCHANGED faults
     \/ /\ (sender[s].cancelled /\ UNCHANGED faults) \/ Fault("read")
        /\ sender' = [sender EXCEPT ![s] =
             [sender[s] EXCEPT !.todo = @ \ {d}, !.cur = d, !.pc = "failure"]]
  /\ UNCHANGED <<delivery, endpoint, publisher, admin, hist>>

(* The HTTP request: a 2xx answer, or anything else.  A request that was    *)
(* cancelled or timed out may have been accepted all the same.              *)
Send(s) ==
  LET d == sender[s].cur IN
  /\ sender[s].pc = "send"
  /\ \E received \in BOOLEAN, ok \in BOOLEAN :
       /\ ok => received /\ ~sender[s].cancelled
       /\ sender' = [sender EXCEPT ![s].pc = IF ok THEN "delivered" ELSE "failure"]
       /\ accepted' = IF received THEN accepted \cup {d} ELSE accepted
  /\ posts' = [posts EXCEPT ![d] = @ + 1]
  /\ UNCHANGED <<delivery, endpoint, publisher, admin, retries, faults>>

(* Mutant: the last attempt is rescheduled too.                             *)
ExhaustedLate(attempts) == attempts > MaxAttempts

Exhausted(attempts) == attempts >= MaxAttempts

(* Mutant: a failure is recorded as a delivery.                             *)
OutcomeSwapped(s) == IF sender[s].pc = "failure" THEN "delivered" ELSE "retrying"

(* The status recordFailure or the end of process writes.                   *)
Outcome(s) == CASE sender[s].pc = "delivered" -> "delivered"
                [] Exhausted(sender[s].copy[sender[s].cur]) -> "failed"
                [] OTHER -> "retrying"

(* Mutant: the batch is abandoned at the first failure.                     *)
FinishedEarly(s) ==
  IF sender[s].todo = {} \/ sender[s].pc = "failure" THEN Resting
  ELSE [sender[s] EXCEPT !.pc = "read", !.cur = None]

(* process returns; the loop goes on with the rest of the batch, and a      *)
(* cancelled worker exits once it is through (to be started again).         *)
Finished(s) ==
  IF sender[s].todo = {} THEN Resting
  ELSE [sender[s] EXCEPT !.pc = "read", !.cur = None]

Record(s) ==
  LET d == sender[s].cur IN
  /\ sender[s].pc \in {"delivered", "failure"}
  /\ \/ /\ ~sender[s].cancelled
        /\ delivery' = [delivery EXCEPT ![d] =
             DB!UpdateWebhookDelivery(Outcome(s), sender[s].copy[d])]
        /\ UNCHANGED faults
     \/ /\ (sender[s].cancelled /\ UNCHANGED faults) \/ Fault("write")
        /\ UNCHANGED delivery
  /\ sender' = [sender EXCEPT ![s] = Finished(s)]
  /\ UNCHANGED <<endpoint, publisher, admin, hist>>

(* SIGTERM in the middle of a batch: runCtx is cancelled.                   *)
Shutdown(s) ==
  /\ sender[s].pc # "idle"
  /\ ~sender[s].cancelled
  /\ Fault("shutdown")
  /\ sender' = [sender EXCEPT ![s].cancelled = TRUE]
  /\ UNCHANGED <<delivery, endpoint, publisher, admin, hist>>

Crash(s) ==
  /\ sender[s].pc # "idle"
  /\ Fault("crash")
  /\ sender' = [sender EXCEPT ![s] = Resting]
  /\ UNCHANGED <<delivery, endpoint, publisher, admin, hist>>

(* Time: next_attempt_at passes.                                            *)
Elapse(d) ==
  /\ delivery[d].status = "retrying"
  /\ ~delivery[d].due
  /\ delivery' = [delivery EXCEPT ![d].due = TRUE]
  /\ UNCHANGED <<endpoint, publisher, sender, admin, hist, faults>>
-----------------------------------------------------------------------------
Next ==
  \/ \E e \in Endpoint : CreateEndpoint(e) \/ DeleteEndpoint(e)
  \/ \E a \in Admin : EditWrite(a) \/ \E e \in Endpoint : EditRead(a, e)
  \/ \E d \in Delivery : RetryDelivery(d) \/ Elapse(d)
  \/ \E v \in Event : PublishList(v) \/ \E e \in Endpoint : PublishInsert(v, e)
  \/ \E s \in Sender : \/ ClaimDue(s) \/ Send(s) \/ Record(s)
                       \/ Shutdown(s) \/ Crash(s)
                       \/ \E d \in Delivery : ReadEndpoint(s, d)

Spec == Init /\ [][Next]_vars

(* The workers poll, HTTP requests time out, and time passes.               *)
Fairness ==
  /\ \A s \in Sender : /\ WF_vars(ClaimDue(s))
                       /\ WF_vars(\E d \in Delivery : ReadEndpoint(s, d))
                       /\ WF_vars(Send(s)) /\ WF_vars(Record(s))
  /\ \A d \in Delivery : WF_vars(Elapse(d))

FairSpec == Spec /\ Fairness
-----------------------------------------------------------------------------
Holds(s, d) == d \in sender[s].todo \/ d = sender[s].cur

(* UpdateWebhookDelivery (webhook_repository.go:389) overwrites the row     *)
(* whatever it holds.  That is sound because a delivery in a worker's hands *)
(* is in no other's, and neither a claim nor a manual retry can have        *)
(* touched its row since.                                                   *)
SoleSender ==
  \A s \in Sender, d \in Delivery : Holds(s, d) =>
    /\ delivery[d].status = "delivering"
    /\ delivery[d].attempts = sender[s].copy[d]
    /\ \A z \in Sender : Holds(z, d) => z = s

(* Between two manual retries the receiver sees at most max_attempts        *)
(* requests of a delivery, whatever fails; failed means all were used, and  *)
(* a delivery that waits has attempts left (webhook_delivery_worker.go:137).*)
AttemptBudget ==
  \A d \in Delivery :
    /\ posts[d] <= delivery[d].attempts /\ delivery[d].attempts <= MaxAttempts
    /\ delivery[d].status = "failed" => delivery[d].attempts = MaxAttempts
    /\ delivery[d].status \in {"pending", "retrying"} => delivery[d].attempts < MaxAttempts

(* A delivery is recorded as delivered (webhook_delivery_worker.go:107)     *)
(* only after a receiver accepted it, also when requests time out.          *)
DeliveredIsTrue == \A d \in Delivery : delivery[d].status = "delivered" => d \in accepted

(* No late outcome, claim or manual retry takes a recorded delivery back.   *)
DeliveredIsFinal ==
  [][\A d \in Delivery : delivery[d].status = "delivered" =>
        delivery'[d] = delivery[d]]_vars

(* A delivery in progress that no worker has in hand.                       *)
Orphan(d) == delivery[d].status = "delivering" /\ \A s \in Sender : ~Holds(s, d)

(* ClaimDueWebhookDeliveries (webhook_repository.go:351) passes over a row  *)
(* that is being delivered, and so does a manual retry.  A delivery is      *)
(* orphaned only by a claim whose reply was lost, by an outcome that was    *)
(* not written, or by the end of the worker that had it; and it stays so.   *)
OrphanedByFault ==
  [][\A d \in Delivery :
       /\ Orphan(d) => Orphan(d)'
       /\ ~Orphan(d) /\ Orphan(d)' =>
            \/ \E s \in Sender : Holds(s, d) /\ sender[s].cancelled
            \/ \E k \in {"claim", "write", "crash"} : Fault(k)]_vars

(* A soft-deleted endpoint stays deleted and inactive, whatever edits were  *)
(* under way when it was deleted (webhook_repository.go:111).               *)
DeletedIsFinal ==
  [][\A e \in Endpoint : endpoint[e].deleted =>
        endpoint'[e].deleted /\ ~endpoint'[e].active]_vars

(* PublishTaskEvent (webhook_events.go:41): when it returns, every endpoint *)
(* it listed has a delivery, but for the inserts that themselves failed.    *)
FanOutComplete ==
  \A v \in Event : publisher[v].pc = "done" =>
    \A e \in publisher[v].listed \ publisher[v].lost :
      delivery[<<v, e>>].status # "absent"

(* A worker that records a failed request (webhook_delivery_worker.go:142)  *)
(* schedules the next one after backoff, and an engine that hands a task    *)
(* back (handleFailure of engine/engine.go) does so after the delay of its  *)
(* policy: a positive multiple of the initial delay, cut at the cap, for    *)
(* any attempt and also where doubling once more would overflow.            *)
BackoffExact == \A s \in Sender : sender[s].pc = "failure" => DelaysExact

(* Every delivery is settled in the end: delivered, or failed with its      *)
(* attempts used up.                                                        *)
EventuallySettled ==
  \A d \in Delivery :
    delivery[d].status = "pending" ~> delivery[d].status \in {"delivered", "failed"}

(* docs/eventforge.md: "EventForge delivery is at least once".  A delivery  *)
(* reaches its receiver unless its attempts are used up or its endpoint is  *)
(* paused or deleted.                                                       *)
AtLeastOnce ==
  \A d \in Delivery :
    delivery[d].status = "pending" ~>
      \/ d \in accepted \/ delivery[d].status = "failed"
      \/ ~Visible(d[2]) \/ ~endpoint[d[2]].active
=============================================================================
