--------------------------- MODULE EventForgeProofs ---------------------------
(***************************************************************************)
(* Proofs about EventForge, for any sets of events, endpoints, workers and *)
(* API requests, any number of attempts, faults, retries and edits; and    *)
(* about the delays of RetryPolicies, for any width of a duration.         *)
(***************************************************************************)
EXTENDS EventForge, WellFoundedInduction, TLAPS

(* A worker works on one delivery of its batch at a time, and on none      *)
(* between two of them.                                                    *)
Shape ==
  \A s \in Sender :
    /\ sender[s].cur = None <=> sender[s].pc \in {"idle", "read"}
    /\ sender[s].pc = "idle" => sender[s].todo = {}
    /\ sender[s].cur \notin sender[s].todo

(* What the two statements write that set all columns of a delivery.       *)
LEMMA RowWritten ==
  /\ DB!CreateWebhookDelivery.status # "absent"
  /\ \A status, attempts :
       /\ DB!UpdateWebhookDelivery(status, attempts).status = status
       /\ DB!UpdateWebhookDelivery(status, attempts).attempts = attempts
BY DEF DB!CreateWebhookDelivery, DB!UpdateWebhookDelivery

(* Every variable keeps its type; attempt counts stay within max_attempts. *)
LEMMA TypeInit == Init => TypeOK
  BY EventForgeAssumption
     DEF Init, TypeOK, DB!Row, DB!Status, DB!Absent, NoEndpoint, EndpointRow, Publisher,
         Resting, SenderState, Calm, AdminState

(* The endpoint statements keep the types: a row is edited to a row.       *)
LEMMA EditTypes ==
  ASSUME NEW r \in EndpointRow, NEW a \in Admin, admin[a] \in AdminState
  PROVE  UpdateWebhookEndpoint(r, a) \in EndpointRow
<1> DEFINE own == admin[a].row
           u == Edited(r, a)
<1>1. own \in EndpointRow
  BY DEF AdminState
<1>2. u = [own EXCEPT !.deleted = u.deleted, !.active = u.active, !.wants = u.wants,
                      !.secret = u.secret, !.secrets = u.secrets, !.edits = u.edits]
  BY <1>1 DEF Edited, EndpointRow
<1>3. u.deleted \in BOOLEAN /\ u.active \in BOOLEAN /\ u.wants \in BOOLEAN
  BY <1>1, Zenon DEF Edited, EndpointRow
<1>4. u.secret \in Nat /\ u.secrets \in Nat /\ u.edits \in Nat
  BY <1>1 DEF Edited, EndpointRow
<1> HIDE DEF u
<1>5. u \in EndpointRow
  BY Zenon, <1>1, <1>2, <1>3, <1>4 DEF EndpointRow
<1> QED BY <1>5 DEF u, UpdateWebhookEndpoint

(* Creating, editing and deleting endpoints keeps every variable typed.    *)
LEMMA EndpointTypes ==
  ASSUME TypeOK,
         \/ \E e \in Endpoint : CreateEndpoint(e) \/ DeleteEndpoint(e)
         \/ \E a \in Admin : EditWrite(a) \/ \E e \in Endpoint : EditRead(a, e)
  PROVE  TypeOK'
<1>1. CASE \E e \in Endpoint : CreateEndpoint(e) \/ DeleteEndpoint(e)
  <2>1. PICK e \in Endpoint : CreateEndpoint(e) \/ DeleteEndpoint(e)
    BY <1>1
  <2>2. \A active \in BOOLEAN, wants \in BOOLEAN :
          [NoEndpoint EXCEPT !.exists = TRUE, !.active = active, !.wants = wants,
                             !.secret = 1, !.secrets = 1] \in EndpointRow
    BY ZenonT(30) DEF NoEndpoint, EndpointRow
  <2>3. \A r \in EndpointRow : [r EXCEPT !.deleted = TRUE, !.active = FALSE] \in EndpointRow
    BY Zenon DEF EndpointRow
  <2>4. endpoint' \in [Endpoint -> EndpointRow]
    <3>1. CASE CreateEndpoint(e)
      BY ZenonT(30), <3>1, <2>2 DEF CreateEndpoint, TypeOK
    <3>2. CASE DeleteEndpoint(e)
      <4>1. endpoint' = [endpoint EXCEPT ![e] = [@ EXCEPT !.deleted = TRUE, !.active = FALSE]]
        BY Zenon, <3>2 DEF DeleteEndpoint, TypeOK
      <4> QED BY Zenon, <4>1, <2>3 DEF TypeOK
    <3> QED BY <2>1, <3>1, <3>2
  <2> QED BY Zenon, <2>1, <2>4 DEF TypeOK, CreateEndpoint, DeleteEndpoint, hist
<1>2. ASSUME NEW a \in Admin, EditWrite(a)
      PROVE  TypeOK'
  <2>1. admin[a] \in AdminState /\ admin[a].target \in Endpoint
    BY <1>2, EventForgeAssumption DEF TypeOK, EditWrite, AdminState
  <2>2. UpdateWebhookEndpoint(endpoint[admin[a].target], a) \in EndpointRow
    BY <2>1, EditTypes DEF TypeOK
  <2>3. Calm \in AdminState
    BY DEF Calm, AdminState, NoEndpoint, EndpointRow
  <2> QED BY ZenonT(60), <1>2, <2>1, <2>2, <2>3 DEF TypeOK, EditWrite, hist
<1>3. ASSUME NEW a \in Admin, NEW e \in Endpoint, EditRead(a, e)
      PROVE  TypeOK'
  <2>1. \A f \in {"active", "event_types", "secret"} :
          [target |-> e, row |-> endpoint[e], field |-> f] \in AdminState
    BY DEF AdminState, TypeOK
  <2>2. admin' \in [Admin -> AdminState]
    BY <1>3, <2>1 DEF EditRead, TypeOK
  <2>3. [endpoint[e] EXCEPT !.edits = @ + 1] \in EndpointRow
    BY DEF EndpointRow, TypeOK
  <2>4. endpoint' \in [Endpoint -> EndpointRow]
    BY <1>3, <2>3 DEF EditRead, TypeOK
  <2> QED BY <1>3, <2>2, <2>4 DEF TypeOK, EditRead, hist
<1> QED BY <1>1, <1>2, <1>3

(* Each statement of the delivery store leaves a well-typed row.           *)
LEMMA RowTypes ==
  /\ DB!CreateWebhookDelivery \in DB!Row
  /\ \A r \in DB!Row : /\ DB!RetryWebhookDelivery(r) \in DB!Row
                       /\ DB!CanClaim(r) => /\ DB!ClaimDueWebhookDelivery(r) \in DB!Row
                                            /\ r.attempts + 1 \in 0..MaxAttempts
  /\ \A st \in DB!Status, n \in 0..MaxAttempts : DB!UpdateWebhookDelivery(st, n) \in DB!Row
  BY EventForgeAssumption
     DEF DB!Row, DB!Status, DB!CreateWebhookDelivery, DB!RetryWebhookDelivery, DB!CanClaim,
         DB!ClaimDueWebhookDelivery, DB!UpdateWebhookDelivery

(* The smallest attempt counts are within the limit.                       *)
LEMMA Budget ==
  ASSUME faults \in 0..MaxFaults,
         faults' = faults \/ (faults < MaxFaults /\ faults' = faults + 1)
  PROVE  faults' \in 0..MaxFaults
  BY EventForgeAssumption

(* Listing endpoints and inserting deliveries keeps every variable typed.  *)
LEMMA PublishTypes ==
  ASSUME TypeOK, NEW v \in Event,
         PublishList(v) \/ \E e \in Endpoint : PublishInsert(v, e)
  PROVE  TypeOK'
<1>1. CASE PublishList(v)
  BY <1>1 DEF TypeOK, PublishList, Publisher, hist
<1>2. ASSUME NEW e \in Endpoint, PublishInsert(v, e)
      PROVE  TypeOK'
  <2> DEFINE p == publisher[v]
  <2>0. p \in Publisher
    BY DEF TypeOK
  <2>1. \A f \in BOOLEAN : PublishNext(v, e, f) \in Publisher
    BY Zenon, <2>0 DEF PublishNext, Publisher
  <2>2. publisher' \in [Event -> Publisher]
    BY Zenon, <1>2, <2>1 DEF PublishInsert, TypeOK
  <2>3. delivery' \in [Delivery -> DB!Row]
    BY Zenon, <1>2, RowTypes DEF PublishInsert, TypeOK
  <2>4. faults' \in 0..MaxFaults
    BY Zenon, <1>2, Budget DEF PublishInsert, TypeOK, Fault
  <2> QED BY <1>2, <2>2, <2>3, <2>4 DEF PublishInsert, TypeOK, hist
<1> QED BY ZenonT(60), <1>1, <1>2

(* A manual retry and the passing of time keep every variable typed.       *)
LEMMA DeliveryTypes ==
  ASSUME TypeOK, NEW d \in Delivery, RetryDelivery(d) \/ Elapse(d)
  PROVE  TypeOK'
<1>1. CASE RetryDelivery(d)
  <2>1. posts' \in [Delivery -> Nat] /\ retries' \in [Delivery -> Nat]
    BY <1>1 DEF TypeOK, RetryDelivery
  <2>2. delivery' \in [Delivery -> DB!Row]
    BY <1>1, RowTypes DEF TypeOK, RetryDelivery
  <2> QED BY <1>1, <2>1, <2>2 DEF TypeOK, RetryDelivery, hist
<1>2. CASE Elapse(d)
  BY ZenonT(30), <1>2 DEF TypeOK, Elapse, DB!Row, hist
<1> QED BY <1>1, <1>2

(* A claim takes rows that were due and hands the worker their attempt     *)
(* counts, unless its reply is lost.                                       *)
LEMMA ClaimEffect ==
  ASSUME TypeOK, NEW s \in Sender, ClaimDue(s)
  PROVE  \E S \in SUBSET Delivery :
           /\ \A d \in S : DB!CanClaim(delivery[d])
           /\ delivery' = Claimed(S)
           /\ \/ sender' = sender
              \/ sender' = [sender EXCEPT ![s] = [sender[s] EXCEPT
                              !.pc = "read", !.todo = S, !.copy = Returned(S)]]
  BY Zenon DEF ClaimDue

(* A claim keeps every variable typed: only rows below max_attempts are    *)
(* claimed.                                                                *)
LEMMA ClaimTypes ==
  ASSUME TypeOK, NEW s \in Sender, ClaimDue(s)
  PROVE  TypeOK'
<1>1. PICK S \in SUBSET Delivery :
        /\ \A d \in S : DB!CanClaim(delivery[d])
        /\ delivery' = Claimed(S)
        /\ \/ sender' = sender
           \/ sender' = [sender EXCEPT ![s] = [sender[s] EXCEPT
                           !.pc = "read", !.todo = S, !.copy = Returned(S)]]
  BY Zenon, ClaimEffect
<1>2. delivery' \in [Delivery -> DB!Row]
  BY <1>1, RowTypes DEF TypeOK, Claimed
<1>3. Returned(S) \in [Delivery -> 0..MaxAttempts]
  <2>1. ASSUME NEW d \in Delivery
        PROVE  (IF d \in S THEN delivery[d].attempts + 1 ELSE 0) \in 0..MaxAttempts
    BY <1>1, RowTypes, EventForgeAssumption DEF TypeOK
  <2> QED BY <2>1 DEF Returned
<1>4. [sender[s] EXCEPT !.pc = "read", !.todo = S, !.copy = Returned(S)] \in SenderState
  <2>1. sender[s] \in SenderState
    BY Zenon DEF TypeOK
  <2> QED BY ZenonT(60), <1>3, <2>1 DEF SenderState
<1>5. sender' \in [Sender -> SenderState]
  BY <1>1, <1>4 DEF TypeOK
<1>6. faults' \in 0..MaxFaults
  BY Budget DEF TypeOK, Fault, ClaimDue
<1> QED BY <1>2, <1>5, <1>6 DEF TypeOK, ClaimDue, hist

(* A worker between two batches is a well-typed worker.                    *)
LEMMA RestingType == Resting \in SenderState
  BY EventForgeAssumption DEF Resting, SenderState

(* The other steps of a worker keep every variable typed.                  *)
LEMMA SenderTypes ==
  ASSUME TypeOK, Shape, NEW s \in Sender,
         \/ Send(s) \/ Record(s) \/ Shutdown(s) \/ Crash(s)
         \/ \E d \in Delivery : ReadEndpoint(s, d)
  PROVE  TypeOK'
<1>0. sender[s] \in SenderState
  BY DEF TypeOK
<1>1. CASE Send(s)
  <2>1. sender[s].cur \in Delivery \cup {None}
    BY <1>0 DEF SenderState
  <2>2. \A pc \in {"delivered", "failure"} : [sender[s] EXCEPT !.pc = pc] \in SenderState
    BY <1>0 DEF SenderState
  <2>3. sender' \in [Sender -> SenderState]
    BY <1>1, <2>2 DEF Send, TypeOK
  <2>4. posts' \in [Delivery -> Nat] /\ accepted' \subseteq Delivery
    <3>1. CASE sender[s].cur \in Delivery
      BY <1>1, <3>1 DEF Send, TypeOK
    <3>2. sender[s].cur # None
      BY ZenonT(60), <1>1 DEF Send, Shape
    <3> QED BY <2>1, <3>1, <3>2
  <2> QED BY <1>1, <2>3, <2>4 DEF Send, TypeOK, hist
<1>2. CASE Record(s)
  <2>1. sender[s].cur = None \/ sender[s].cur \in Delivery
    BY <1>0 DEF SenderState
  <2>2. Finished(s) \in SenderState
    BY Zenon, <1>0, RestingType DEF Finished, SenderState
  <2>3. delivery' \in [Delivery -> DB!Row]
    <3>1. CASE sender[s].cur \in Delivery
      <4>1. Outcome(s) \in DB!Status /\ sender[s].copy[sender[s].cur] \in 0..MaxAttempts
        BY ZenonT(60), <1>0, <3>1 DEF Outcome, DB!Status, SenderState
      <4>2. \A r \in DB!Row : [delivery EXCEPT ![sender[s].cur] = r] \in [Delivery -> DB!Row]
        BY ZenonT(60), <3>1 DEF TypeOK
      <4>3. DB!UpdateWebhookDelivery(Outcome(s), sender[s].copy[sender[s].cur]) \in DB!Row
        BY ZenonT(60), <4>1, RowTypes
      <4> QED BY ZenonT(60), <1>2, <4>2, <4>3 DEF Record, TypeOK
    <3>2. CASE sender[s].cur = None
      BY ZenonT(60), <1>2, <3>2, EventForgeAssumption DEF Record, TypeOK, Delivery
    <3> QED BY ZenonT(60), <2>1, <3>1, <3>2
  <2>4. faults' \in 0..MaxFaults
    BY <1>2, Budget DEF Record, TypeOK, Fault
  <2> QED BY <1>2, <2>2, <2>3, <2>4 DEF Record, TypeOK, hist
<1>3. CASE Shutdown(s) \/ Crash(s)
  <2>1. [sender[s] EXCEPT !.cancelled = TRUE] \in SenderState
    BY Zenon, <1>0 DEF SenderState
  <2>2. sender' \in [Sender -> SenderState]
    BY ZenonT(30), <1>3, <2>1, RestingType DEF Shutdown, Crash, TypeOK
  <2>3. faults' \in 0..MaxFaults
    BY <1>3, Budget DEF Shutdown, Crash, TypeOK, Fault
  <2> QED BY <1>3, <2>2, <2>3 DEF Shutdown, Crash, TypeOK, hist
<1>4. ASSUME NEW d \in Delivery, ReadEndpoint(s, d)
      PROVE  TypeOK'
  <2>1. \A pc \in {"send", "failure"} :
          [sender[s] EXCEPT !.todo = @ \ {d}, !.cur = d, !.pc = pc] \in SenderState
    BY Zenon, <1>0 DEF SenderState
  <2>2. sender' \in [Sender -> SenderState]
    BY ZenonT(30), <1>4, <2>1 DEF ReadEndpoint, TypeOK
  <2>3. faults' \in 0..MaxFaults
    BY ZenonT(30), <1>4, Budget DEF ReadEndpoint, TypeOK, Fault
  <2> QED BY Zenon, <1>4, <2>2, <2>3 DEF ReadEndpoint, TypeOK, hist
<1> QED BY <1>1, <1>2, <1>3, <1>4

(* A worker has a current delivery exactly while it processes one.         *)
LEMMA ShapeStep ==
  ASSUME TypeOK, Shape, Next
  PROVE  Shape'
<1>0. None \notin Delivery
  BY EventForgeAssumption DEF Delivery
<1>1. CASE UNCHANGED sender
  BY <1>1 DEF Shape
<1>2. ASSUME NEW s \in Sender, ClaimDue(s)
      PROVE  Shape'
  <2>1. PICK S \in SUBSET Delivery :
          \/ sender' = sender
          \/ sender' = [sender EXCEPT ![s] = [sender[s] EXCEPT
                          !.pc = "read", !.todo = S, !.copy = Returned(S)]]
    BY Zenon, <1>2, ClaimEffect
  <2>2. sender[s].cur = None
    BY <1>2 DEF ClaimDue, Shape
  <2>3. CASE sender' = [sender EXCEPT ![s] = [sender[s] EXCEPT
                          !.pc = "read", !.todo = S, !.copy = Returned(S)]]
    <3>1. /\ sender'[s].cur = None /\ sender'[s].pc = "read" /\ sender'[s].todo \subseteq Delivery
          /\ \A z \in Sender \ {s} : sender'[z] = sender[z]
      BY <2>2, <2>3 DEF TypeOK, SenderState
    <3> QED BY <1>0, <3>1 DEF Shape
  <2> QED BY <1>1, <2>1, <2>3
<1>3. ASSUME NEW s \in Sender, Send(s) \/ Record(s) \/ Shutdown(s) \/ Crash(s)
      PROVE  Shape'
  <2>1. CASE Send(s)
    BY <2>1 DEF Shape, TypeOK, SenderState, Send
  <2>2. CASE Record(s)
    BY <1>0, <2>2 DEF Shape, TypeOK, SenderState, Record, Finished, Resting
  <2>3. CASE Shutdown(s)
    BY <2>3 DEF Shape, TypeOK, SenderState, Shutdown
  <2>4. CASE Crash(s)
    BY <2>4 DEF Shape, TypeOK, SenderState, Crash, Resting
  <2> QED BY <1>3, <2>1, <2>2, <2>3, <2>4
<1>4. ASSUME NEW s \in Sender, NEW d \in Delivery, ReadEndpoint(s, d)
      PROVE  Shape'
  <2>1. PICK pc \in {"send", "failure"} :
          sender' = [sender EXCEPT ![s] =
                       [sender[s] EXCEPT !.todo = @ \ {d}, !.cur = d, !.pc = pc]]
    BY Zenon, <1>4 DEF ReadEndpoint
  <2> QED BY <1>0, <2>1 DEF Shape, TypeOK, SenderState
<1> QED BY Zenon, <1>1, <1>2, <1>3, <1>4
        DEF Next, CreateEndpoint, DeleteEndpoint, EditWrite, EditRead, RetryDelivery, Elapse,
            PublishList, PublishInsert

(* Every reachable state is well typed: in particular no interleaving of   *)
(* claims, failures and retries pushes attempt_count past max_attempts.    *)
THEOREM TypeCorrect == Spec => [](TypeOK /\ Shape)
<1>1. Init => Shape
  BY DEF Init, Shape, Resting
<1>2. TypeOK /\ Shape /\ [Next]_vars => TypeOK' /\ Shape'
  <2> SUFFICES ASSUME TypeOK, Shape, [Next]_vars PROVE TypeOK' /\ Shape'
    OBVIOUS
  <2>1. CASE UNCHANGED vars
    BY <2>1 DEF TypeOK, Shape, vars, hist
  <2>2. CASE Next
    BY <2>2, ShapeStep, EndpointTypes, DeliveryTypes, PublishTypes, ClaimTypes, SenderTypes
       DEF Next
  <2> QED BY <2>1, <2>2
<1> QED BY TypeInit, <1>1, <1>2, PTL DEF Spec
-----------------------------------------------------------------------------
(* A delivery in a worker's hands that it has not sent yet has used fewer  *)
(* requests than the attempt the claim counted.                            *)
Unsent ==
  \A s \in Sender, d \in Delivery :
    d \in sender[s].todo \/ (d = sender[s].cur /\ sender[s].pc = "send") =>
      posts[d] < sender[s].copy[d]

(* A worker about to record a delivery as delivered saw it accepted.       *)
Answered == \A s \in Sender : sender[s].pc = "delivered" => sender[s].cur \in accepted

(* PublishTaskEvent inserts each delivery once: the row is not there yet.  *)
Fresh ==
  \A v \in Event, e \in Endpoint :
    publisher[v].pc = "idle" \/ e \in publisher[v].todo =>
      delivery[<<v, e>>] = DB!Absent

(* The inductive invariant.                                                *)
IInv == /\ TypeOK /\ Shape
        /\ SoleSender /\ Unsent /\ Answered
        /\ Fresh /\ AttemptBudget /\ DeliveredIsTrue

(* The inductive invariant holds initially.                                *)
LEMMA IInvInit == Init => IInv
<1> SUFFICES ASSUME Init PROVE IInv
  OBVIOUS
<1>0. None \notin Delivery
  BY ZenonT(60), EventForgeAssumption DEF Delivery
<1>1. TypeOK /\ Shape
  BY TypeInit DEF Init, Shape, Resting
<1>2. SoleSender /\ Unsent /\ Answered
  BY <1>0 DEF Init, SoleSender, Unsent, Answered, Holds, Resting
<1>3. Fresh
  BY DEF Init, Fresh, DB!Absent, Delivery
<1>4. AttemptBudget /\ DeliveredIsTrue
  BY EventForgeAssumption DEF Init, AttemptBudget, DeliveredIsTrue, DB!Absent
<1> QED BY <1>1, <1>2, <1>3, <1>4 DEF IInv

(* The steps that touch neither deliveries nor workers.                    *)
LEMMA EndpointInv ==
  ASSUME IInv, UNCHANGED <<delivery, publisher, sender, hist>>, TypeOK', Shape'
  PROVE  IInv'
  BY DEF IInv, SoleSender, Unsent, Answered, Fresh, AttemptBudget, DeliveredIsTrue, Holds, hist

(* No worker gets hold of a delivery, and the rows in workers' hands stay. *)
LEMMA HoldNoMore ==
  ASSUME IInv,
         \A z \in Sender, x \in Delivery : Holds(z, x)' =>
           /\ Holds(z, x)
           /\ sender'[z].copy[x] = sender[z].copy[x]
           /\ delivery'[x] = delivery[x]
  PROVE  SoleSender'
  BY DEF IInv, SoleSender

(* Only the row of d changes, to one that keeps its part of the invariant. *)
LEMMA OneRow ==
  ASSUME IInv, NEW d \in Delivery, accepted \subseteq accepted',
         \A x \in Delivery \ {d} : delivery'[x] = delivery[x] /\ posts'[x] = posts[x],
         posts'[d] <= delivery'[d].attempts, delivery'[d].attempts <= MaxAttempts,
         delivery'[d].status = "failed" => delivery'[d].attempts = MaxAttempts,
         delivery'[d].status \in {"pending", "retrying"} => delivery'[d].attempts < MaxAttempts,
         delivery'[d].status = "delivered" => d \in accepted'
  PROVE  AttemptBudget' /\ DeliveredIsTrue'
<1>1. ASSUME NEW x \in Delivery, x # d
      PROVE  /\ posts'[x] <= delivery'[x].attempts /\ delivery'[x].attempts <= MaxAttempts
             /\ delivery'[x].status = "failed" => delivery'[x].attempts = MaxAttempts
             /\ delivery'[x].status \in {"pending", "retrying"} =>
                  delivery'[x].attempts < MaxAttempts
             /\ delivery'[x].status = "delivered" => x \in accepted'
  BY <1>1 DEF IInv, AttemptBudget, DeliveredIsTrue
<1> QED BY ZenonT(60), <1>1 DEF AttemptBudget, DeliveredIsTrue

(* A new delivery is in nobody's hands and has made no request.            *)
LEMMA PublishInv ==
  ASSUME IInv, NEW v \in Event, TypeOK', Shape',
         PublishList(v) \/ \E e \in Endpoint : PublishInsert(v, e)
  PROVE  IInv'
<1>1. CASE PublishList(v)
  <2>1. Fresh'
    BY ZenonT(60), <1>1 DEF IInv, TypeOK, PublishList, Fresh
  <2>2. UNCHANGED <<delivery, sender, posts, accepted>>
    BY <1>1 DEF PublishList, hist
  <2>3. SoleSender' /\ Unsent'
    BY ZenonT(60), <2>2 DEF IInv, SoleSender, Unsent, Holds
  <2>4. Answered'
    BY ZenonT(60), <2>2 DEF IInv, Answered
  <2>5. AttemptBudget' /\ DeliveredIsTrue'
    BY ZenonT(60), <2>2 DEF IInv, AttemptBudget, DeliveredIsTrue
  <2> QED BY Zenon, <2>1, <2>3, <2>4, <2>5 DEF IInv
<1>2. ASSUME NEW e \in Endpoint, PublishInsert(v, e)
      PROVE  IInv'
  <2> DEFINE d == <<v, e>>
  <2>0. d \in Delivery /\ delivery[d] = DB!Absent
    BY <1>2 DEF PublishInsert, IInv, Fresh, Delivery
  <2>1. /\ delivery' = [delivery EXCEPT ![d] = DB!CreateWebhookDelivery] \/ delivery' = delivery
        /\ UNCHANGED <<sender, posts, accepted>>
    BY Zenon, <1>2 DEF PublishInsert, hist
  <2>2. publisher'[v].pc # "idle" /\ publisher'[v].todo = publisher[v].todo \ {e}
    <3>1. PICK f \in BOOLEAN : publisher' = [publisher EXCEPT ![v] = PublishNext(v, e, f)]
      BY Zenon, <1>2 DEF PublishInsert
    <3>2. publisher[v] \in Publisher /\ publisher[v].pc = "insert"
      BY <1>2 DEF PublishInsert, IInv, TypeOK
    <3>3. publisher'[v] = PublishNext(v, e, f)
      BY <3>1 DEF IInv, TypeOK
    <3> QED BY <3>2, <3>3 DEF PublishNext, Publisher
  <2>3. \A w \in Event \ {v} : publisher'[w] = publisher[w]
    BY Zenon, <1>2 DEF PublishInsert, IInv, TypeOK
  <2>4. Fresh'
    BY <2>1, <2>2, <2>3 DEF IInv, Fresh, TypeOK, Delivery
  <2>5. \A s \in Sender : ~Holds(s, d)
    BY <2>0 DEF IInv, SoleSender, DB!Absent
  <2>6. \A x \in Delivery \ {d} : delivery'[x] = delivery[x]
    BY ZenonT(60), <2>1 DEF IInv, TypeOK
  <2>7. SoleSender' /\ Unsent' /\ Answered'
    BY ZenonT(60), <2>1, <2>5, <2>6, HoldNoMore DEF IInv, Unsent, Answered, Holds
  <2>8. delivery'[d] \in {DB!CreateWebhookDelivery, DB!Absent} /\ posts'[d] <= 0
    BY <2>0, <2>1 DEF IInv, TypeOK, AttemptBudget, DB!Absent
  <2>9. AttemptBudget' /\ DeliveredIsTrue'
    BY <2>0, <2>1, <2>6, <2>8, OneRow, EventForgeAssumption DEF DB!CreateWebhookDelivery, DB!Absent
  <2> QED BY ZenonT(60), <2>4, <2>7, <2>9 DEF IInv
<1> QED BY ZenonT(60), <1>1, <1>2

(* A manual retry or the passing of time touches a row in nobody's hands.  *)
LEMMA DeliveryInv ==
  ASSUME IInv, TypeOK', Shape', NEW d \in Delivery, RetryDelivery(d) \/ Elapse(d)
  PROVE  IInv'
<1>1. /\ delivery[d].status \in {"failed", "retrying"}
      /\ \A x \in Delivery \ {d} : delivery'[x] = delivery[x] /\ posts'[x] = posts[x]
      /\ UNCHANGED <<sender, publisher, accepted>>
  BY ZenonT(60) DEF RetryDelivery, Elapse, DB!CanRetry, IInv, TypeOK, hist
<1>2. \A s \in Sender : ~Holds(s, d)
  BY ZenonT(60), <1>1 DEF IInv, SoleSender
<1>3. SoleSender' /\ Unsent' /\ Answered'
  BY ZenonT(60), <1>1, <1>2, HoldNoMore DEF IInv, Unsent, Answered, Holds
<1>4. Fresh'
  BY <1>1 DEF IInv, Fresh, DB!Absent, Delivery
<1>5. CASE RetryDelivery(d)
  <2>1. delivery'[d] = DB!RetryWebhookDelivery(delivery[d]) /\ posts'[d] = 0
    BY ZenonT(60), <1>5 DEF RetryDelivery, IInv, TypeOK
  <2>2. AttemptBudget' /\ DeliveredIsTrue'
    BY <1>1, <2>1, OneRow, EventForgeAssumption DEF DB!RetryWebhookDelivery
  <2> QED BY <1>3, <1>4, <2>2 DEF IInv
<1>6. CASE Elapse(d)
  <2>1. /\ delivery'[d].status = delivery[d].status
        /\ delivery'[d].attempts = delivery[d].attempts
        /\ posts'[d] = posts[d]
    BY <1>6 DEF Elapse, IInv, TypeOK, DB!Row, hist
  <2>2. /\ posts[d] <= delivery[d].attempts /\ delivery[d].attempts <= MaxAttempts
        /\ delivery[d].status = "failed" => delivery[d].attempts = MaxAttempts
        /\ delivery[d].status \in {"pending", "retrying"} => delivery[d].attempts < MaxAttempts
    BY ZenonT(60) DEF IInv, AttemptBudget
  <2>3. AttemptBudget' /\ DeliveredIsTrue'
    BY <1>1, <2>1, <2>2, OneRow
  <2> QED BY <1>3, <1>4, <2>3 DEF IInv
<1> QED BY <1>5, <1>6

(* The rows a claim takes were in nobody's hands, so the claimant is the   *)
(* only worker that holds them.                                            *)
LEMMA ClaimInv ==
  ASSUME IInv, TypeOK', Shape', NEW s \in Sender, ClaimDue(s)
  PROVE  IInv'
<1>1. PICK S \in SUBSET Delivery :
        /\ \A d \in S : DB!CanClaim(delivery[d])
        /\ delivery' = Claimed(S)
        /\ \/ sender' = sender
           \/ sender' = [sender EXCEPT ![s] = [sender[s] EXCEPT
                           !.pc = "read", !.todo = S, !.copy = Returned(S)]]
  BY Zenon, ClaimEffect DEF IInv
<1>2. \A d \in S, z \in Sender : ~Holds(z, d)
  BY <1>1 DEF IInv, SoleSender, DB!CanClaim
<1>3. \A d \in S : /\ delivery[d].status # "absent" /\ delivery[d].attempts < MaxAttempts
                   /\ delivery'[d].status = "delivering"
                   /\ delivery'[d].attempts = delivery[d].attempts + 1
  BY <1>1 DEF DB!CanClaim, Claimed, DB!ClaimDueWebhookDelivery
<1>4. \A d \in Delivery \ S : delivery'[d] = delivery[d]
  BY <1>1 DEF Claimed
<1>5. UNCHANGED <<posts, accepted, publisher>>
  BY DEF ClaimDue, hist
<1>6. Fresh'
  BY <1>3, <1>4, <1>5 DEF IInv, Fresh, DB!Absent, Delivery
<1>7. AttemptBudget' /\ DeliveredIsTrue'
  <2>1. ASSUME NEW d \in S
        PROVE  /\ posts'[d] <= delivery'[d].attempts /\ delivery'[d].attempts <= MaxAttempts
               /\ delivery'[d].status = "delivering"
    <3>1. posts[d] \in Nat /\ delivery[d].attempts \in Nat /\ MaxAttempts \in Nat
      BY EventForgeAssumption DEF IInv, TypeOK, DB!Row
    <3>2. posts[d] <= delivery[d].attempts
      BY DEF IInv, AttemptBudget
    <3> QED BY <1>3, <1>5, <3>1, <3>2
  <2> QED BY ZenonT(60), <2>1, <1>4, <1>5 DEF IInv, AttemptBudget, DeliveredIsTrue
<1>8. CASE sender' = sender
  <2>1. SoleSender' /\ Unsent' /\ Answered'
    BY ZenonT(60), <1>2, <1>4, <1>5, <1>8, HoldNoMore DEF IInv, Unsent, Answered, Holds
  <2> QED BY ZenonT(60), <2>1, <1>6, <1>7 DEF IInv
<1>9. CASE sender' = [sender EXCEPT ![s] = [sender[s] EXCEPT
                        !.pc = "read", !.todo = S, !.copy = Returned(S)]]
  <2>1. sender[s].cur = None /\ None \notin Delivery
    BY EventForgeAssumption DEF ClaimDue, IInv, Shape, Delivery
  <2>2. /\ sender'[s].cur = None /\ sender'[s].pc = "read" /\ sender'[s].todo = S
        /\ sender'[s].copy = Returned(S)
        /\ \A z \in Sender \ {s} : sender'[z] = sender[z]
    BY <1>9, <2>1 DEF IInv, TypeOK, SenderState
  <2>3. \A d \in Delivery : Holds(s, d)' <=> d \in S
    BY <2>1, <2>2 DEF Holds
  <2>4. \A z \in Sender \ {s}, d \in Delivery : Holds(z, d)' <=> Holds(z, d)
    BY <2>2 DEF Holds
  <2>5. \A d \in S : sender'[s].copy[d] = delivery[d].attempts + 1
    BY <2>2 DEF Returned
  <2>6. SoleSender'
    <3>1. ASSUME NEW z \in Sender, NEW d \in Delivery, Holds(z, d)'
          PROVE  /\ delivery'[d].status = "delivering"
                 /\ delivery'[d].attempts = sender'[z].copy[d]
                 /\ \A y \in Sender : Holds(y, d)' => y = z
      <4>1. CASE z = s
        BY ZenonT(60), <3>1, <4>1, <1>2, <1>3, <2>3, <2>4, <2>5
      <4>2. CASE z # s
        <5>1. Holds(z, d) /\ d \notin S
          BY ZenonT(60), <3>1, <4>2, <1>2, <2>4
        <5> QED BY <4>2, <5>1, <1>4, <2>2, <2>3, <2>4 DEF IInv, SoleSender
      <4> QED BY <4>1, <4>2
    <3> QED BY ZenonT(60), <3>1 DEF SoleSender
  <2>7. Unsent'
    <3>1. ASSUME NEW d \in S
          PROVE  posts'[d] < sender'[s].copy[d]
      <4>1. posts[d] \in Nat /\ delivery[d].attempts \in Nat
        BY DEF IInv, TypeOK, DB!Row
      <4>2. posts[d] <= delivery[d].attempts
        BY DEF IInv, AttemptBudget
      <4> QED BY <1>5, <2>5, <4>1, <4>2
    <3> QED BY ZenonT(60), <3>1, <1>5, <2>1, <2>2 DEF IInv, Unsent
  <2>8. Answered'
    BY <1>5, <2>2 DEF IInv, Answered
  <2> QED BY ZenonT(60), <1>6, <1>7, <2>6, <2>7, <2>8 DEF IInv
<1> QED BY <1>1, <1>8, <1>9

(* A worker goes on with the next delivery, is cancelled or dies.          *)
LEMMA StopInv ==
  ASSUME IInv, TypeOK', Shape', NEW s \in Sender,
         \/ Shutdown(s) \/ Crash(s)
         \/ \E d \in Delivery : ReadEndpoint(s, d)
  PROVE  IInv'
<1>0. None \notin Delivery
  BY EventForgeAssumption DEF Delivery
<1>1. UNCHANGED <<delivery, publisher, posts, accepted>>
  BY ZenonT(30) DEF Shutdown, Crash, ReadEndpoint, hist
<1>2. \A z \in Sender \ {s} : sender'[z] = sender[z]
  BY ZenonT(30) DEF Shutdown, Crash, ReadEndpoint, IInv, TypeOK
<1>3. \/ /\ sender'[s].cur = None /\ sender'[s].todo = {} /\ sender'[s].pc = "idle"
      \/ /\ sender'[s].copy = sender[s].copy /\ sender'[s].cur = sender[s].cur
         /\ sender'[s].todo = sender[s].todo /\ sender'[s].pc = sender[s].pc
      \/ \E d \in sender[s].todo :
           /\ sender'[s].copy = sender[s].copy /\ sender'[s].cur = d
           /\ sender'[s].todo = sender[s].todo \ {d} /\ sender'[s].pc \in {"send", "failure"}
  <2>1. CASE Shutdown(s)
    BY <2>1 DEF Shutdown, IInv, TypeOK, SenderState
  <2>2. CASE Crash(s)
    BY Zenon, <2>2 DEF Crash, Resting, IInv, TypeOK
  <2>3. CASE \E d \in Delivery : ReadEndpoint(s, d)
    <3>1. PICK d \in sender[s].todo, pc \in {"send", "failure"} :
            sender' = [sender EXCEPT ![s] =
                         [sender[s] EXCEPT !.todo = @ \ {d}, !.cur = d, !.pc = pc]]
      BY ZenonT(30), <2>3 DEF ReadEndpoint
    <3> QED BY <3>1 DEF IInv, TypeOK, SenderState
  <2> QED BY ZenonT(60), <2>1, <2>2, <2>3
<1>4. \A d \in Delivery : Holds(s, d)' => Holds(s, d) /\ sender'[s].copy[d] = sender[s].copy[d]
  BY ZenonT(60), <1>0, <1>3 DEF Holds
<1>5. SoleSender'
  <2>1. \A z \in Sender, d \in Delivery : Holds(z, d)' =>
          Holds(z, d) /\ sender'[z].copy[d] = sender[z].copy[d]
    BY ZenonT(60), <1>2, <1>4 DEF Holds
  <2> QED BY ZenonT(60), <1>1, <2>1, HoldNoMore
<1>6. Unsent'
  BY <1>0, <1>1, <1>2, <1>3 DEF IInv, Unsent
<1>7. Answered'
  BY ZenonT(60), <1>1, <1>2, <1>3 DEF IInv, Answered
<1>8. Fresh' /\ AttemptBudget' /\ DeliveredIsTrue'
  BY <1>1 DEF IInv, Fresh, AttemptBudget, DeliveredIsTrue
<1> QED BY ZenonT(60), <1>5, <1>6, <1>7, <1>8 DEF IInv

(* A request is made for a delivery whose attempt has not been used yet.   *)
LEMMA SendInv ==
  ASSUME IInv, TypeOK', Shape', NEW s \in Sender, Send(s)
  PROVE  IInv'
<1> DEFINE d == sender[s].cur
<1>1. d \in Delivery /\ d \notin sender[s].todo
  BY DEF Send, IInv, Shape, TypeOK, SenderState
<1>2. /\ UNCHANGED <<delivery, publisher>> /\ accepted \subseteq accepted'
      /\ posts' = [posts EXCEPT ![d] = @ + 1]
  BY DEF Send
<1>3. \A z \in Sender \ {s} : sender'[z] = sender[z]
  BY DEF Send, IInv, TypeOK
<1>4. /\ sender'[s].copy = sender[s].copy /\ sender'[s].cur = d
      /\ sender'[s].todo = sender[s].todo
      /\ sender'[s].pc \in {"delivered", "failure"}
      /\ sender'[s].pc = "delivered" => d \in accepted'
  BY DEF Send, IInv, TypeOK, SenderState
<1> HIDE DEF d
<1>5. SoleSender'
  <2>1. \A z \in Sender, x \in Delivery : Holds(z, x)' =>
          Holds(z, x) /\ sender'[z].copy[x] = sender[z].copy[x]
    BY ZenonT(60), <1>3, <1>4 DEF Holds, d
  <2> QED BY ZenonT(60), <1>2, <2>1, HoldNoMore
<1>6. \A z \in Sender \ {s} : ~Holds(z, d)
  BY <1>1 DEF IInv, SoleSender, Holds, d
<1>7. \A x \in Delivery \ {d} : posts'[x] = posts[x]
  BY ZenonT(60), <1>2 DEF IInv, TypeOK
<1>8. Unsent'
  BY <1>1, <1>3, <1>4, <1>6, <1>7 DEF IInv, Unsent, Holds
<1>9. Answered'
  BY ZenonT(60), <1>2, <1>3, <1>4 DEF IInv, Answered
<1>10. posts'[d] <= delivery'[d].attempts
  <2>1. posts[d] < sender[s].copy[d] /\ delivery[d].attempts = sender[s].copy[d]
    <3>1. Holds(s, d) /\ sender[s].pc = "send"
      BY ZenonT(60) DEF Holds, Send, d
    <3>2. d \in Delivery /\ d = sender[s].cur
      BY ZenonT(60), <1>1 DEF d
    <3> QED BY ZenonT(60), <3>1, <3>2 DEF IInv, Unsent, SoleSender
  <2>2. posts[d] \in Nat /\ delivery[d].attempts \in Nat /\ posts'[d] = posts[d] + 1
    <3>1. posts \in [Delivery -> Nat] /\ delivery \in [Delivery -> DB!Row]
      BY ZenonT(60) DEF IInv, TypeOK
    <3>2. delivery[d].attempts \in Nat
      <4>1. delivery[d] \in DB!Row
        BY Zenon, <1>1, <3>1
      <4> QED BY <4>1, EventForgeAssumption DEF DB!Row
    <3> QED BY ZenonT(60), <1>1, <1>2, <3>1, <3>2
  <2> QED BY <1>2, <2>1, <2>2
<1>11. AttemptBudget' /\ DeliveredIsTrue'
  <2>1. /\ delivery[d].attempts <= MaxAttempts /\ delivery[d].status = "delivering"
    BY <1>1 DEF IInv, AttemptBudget, SoleSender, Holds, d
  <2> QED BY ZenonT(60), <1>1, <1>2, <1>7, <1>10, <2>1, OneRow
<1>12. Fresh'
  BY <1>2 DEF IInv, Fresh
<1> QED BY ZenonT(60), <1>5, <1>8, <1>9, <1>11, <1>12 DEF IInv

(* The unconditional UPDATE overwrites a row nobody else has touched.      *)
LEMMA RecordInv ==
  ASSUME IInv, TypeOK', Shape', NEW s \in Sender, Record(s)
  PROVE  IInv'
<1> DEFINE d == sender[s].cur
           n == sender[s].copy[d]
<1>0. None \notin Delivery
  BY EventForgeAssumption DEF Delivery
<1>1. d \in Delivery /\ d \notin sender[s].todo
  BY ZenonT(60) DEF Record, IInv, Shape, TypeOK, SenderState
<1>2. UNCHANGED <<publisher, posts, accepted>>
  BY ZenonT(60) DEF Record, hist
<1>3. \A z \in Sender \ {s} : sender'[z] = sender[z]
  BY DEF Record, IInv, TypeOK
<1>4. \/ sender'[s].cur = None /\ sender'[s].todo = {} /\ sender'[s].pc = "idle"
      \/ /\ sender'[s].cur = None /\ sender'[s].todo = sender[s].todo
         /\ sender'[s].pc = "read" /\ sender'[s].copy = sender[s].copy
  BY DEF Record, Finished, Resting, IInv, TypeOK, SenderState
<1>5. \A x \in Delivery \ {d} : delivery'[x] = delivery[x]
  BY ZenonT(60) DEF Record, IInv, TypeOK
<1>6. delivery[d].status = "delivering" /\ delivery[d].attempts = n
  BY ZenonT(60), <1>1 DEF IInv, SoleSender, Holds
<1>7. \/ delivery'[d] = delivery[d]
      \/ delivery'[d] = DB!UpdateWebhookDelivery(Outcome(s), n)
  BY <1>1 DEF Record, IInv, TypeOK
<1>8. /\ Outcome(s) \in {"delivered", "failed", "retrying"}
      /\ Outcome(s) = "delivered" => d \in accepted
      /\ Outcome(s) = "failed" => n >= MaxAttempts
      /\ Outcome(s) = "retrying" => ~(n >= MaxAttempts)
  BY ZenonT(60) DEF Outcome, Exhausted, Record, IInv, Answered
<1>9. /\ n \in Nat /\ MaxAttempts \in Nat /\ n <= MaxAttempts
      /\ posts[d] \in Nat /\ posts[d] <= n
  <2>1. delivery[d] \in DB!Row /\ posts[d] \in Nat
    BY ZenonT(60), <1>1 DEF IInv, TypeOK
  <2>2. delivery[d].attempts \in Nat /\ MaxAttempts \in Nat
    BY <2>1, EventForgeAssumption DEF DB!Row
  <2>3. posts[d] <= delivery[d].attempts /\ delivery[d].attempts <= MaxAttempts
    BY ZenonT(60), <1>1 DEF IInv, AttemptBudget
  <2> QED BY ZenonT(60), <1>6, <2>1, <2>2, <2>3
<1>10. \A z \in Sender \ {s} : ~Holds(z, d)
  BY <1>1 DEF IInv, SoleSender, Holds
<1> HIDE DEF d, n
<1>11. SoleSender'
  <2>1. \A x \in Delivery : Holds(s, x)' =>
          Holds(s, x) /\ sender'[s].copy[x] = sender[s].copy[x] /\ x # d
    BY <1>0, <1>1, <1>4 DEF Holds
  <2>2. \A z \in Sender \ {s}, x \in Delivery : Holds(z, x)' => Holds(z, x) /\ x # d
    BY ZenonT(60), <1>3, <1>10 DEF Holds
  <2>3. \A z \in Sender, x \in Delivery : Holds(z, x)' =>
          /\ Holds(z, x) /\ sender'[z].copy[x] = sender[z].copy[x]
          /\ delivery'[x] = delivery[x]
    BY ZenonT(60), <2>1, <2>2, <1>3, <1>5
  <2> QED BY ZenonT(60), <2>3, HoldNoMore
<1>12. Unsent' /\ Answered'
  BY ZenonT(60), <1>0, <1>2, <1>3, <1>4 DEF IInv, Unsent, Answered
<1>13. AttemptBudget' /\ DeliveredIsTrue'
  <2>1. CASE delivery'[d] = delivery[d]
    BY ZenonT(60), <1>1, <1>2, <1>5, <1>6, <1>9, <2>1, OneRow
  <2>2. CASE delivery'[d] = DB!UpdateWebhookDelivery(Outcome(s), n)
    <3>1. delivery'[d].status = Outcome(s) /\ delivery'[d].attempts = n
      <4>1. /\ DB!UpdateWebhookDelivery(Outcome(s), n).status = Outcome(s)
            /\ DB!UpdateWebhookDelivery(Outcome(s), n).attempts = n
        BY ZenonT(60), RowWritten
      <4> QED BY ZenonT(60), <2>2, <4>1
    <3> QED BY <1>1, <1>2, <1>5, <1>8, <1>9, <3>1, OneRow
  <2> QED BY ZenonT(60), <1>7, <2>1, <2>2
<1>14. Fresh'
  BY <1>2, <1>5, <1>6 DEF IInv, Fresh, DB!Absent, Delivery
<1> QED BY <1>11, <1>12, <1>13, <1>14 DEF IInv

(* The inductive invariant holds in every reachable state.                 *)
THEOREM IInvHolds == Spec => []IInv
<1>1. IInv /\ [Next]_vars /\ TypeOK' /\ Shape' => IInv'
  <2> SUFFICES ASSUME IInv, [Next]_vars, TypeOK', Shape' PROVE IInv'
    OBVIOUS
  <2>1. CASE UNCHANGED vars
    BY <2>1, EndpointInv DEF vars
  <2>2. CASE \/ \E e \in Endpoint : CreateEndpoint(e) \/ DeleteEndpoint(e)
             \/ \E a \in Admin : EditWrite(a) \/ \E e \in Endpoint : EditRead(a, e)
    BY Zenon, <2>2, EndpointInv DEF CreateEndpoint, DeleteEndpoint, EditWrite, EditRead
  <2> QED BY <2>1, <2>2, DeliveryInv, PublishInv, ClaimInv, SendInv, RecordInv, StopInv DEF Next
<1> QED BY IInvInit, <1>1, TypeCorrect, PTL DEF Spec

(* The unconditional UpdateWebhookDelivery is sound, for any number of     *)
(* workers: a delivery in a worker's hands is in no other's and its row is *)
(* as the claim left it.                                                   *)
THEOREM SoleSenderHolds == Spec => []SoleSender
<1>1. IInv => SoleSender
  BY DEF IInv
<1> QED BY IInvHolds, <1>1, PTL

(* Between two manual retries no receiver sees more requests than          *)
(* max_attempts, and failed means all the attempts were used.              *)
THEOREM AttemptBudgetHolds == Spec => []AttemptBudget
<1>1. IInv => AttemptBudget
  BY DEF IInv
<1> QED BY IInvHolds, <1>1, PTL

(* A delivery recorded as delivered was accepted by its receiver.          *)
THEOREM DeliveredIsTrueHolds == Spec => []DeliveredIsTrue
<1>1. IInv => DeliveredIsTrue
  BY DEF IInv
<1> QED BY IInvHolds, <1>1, PTL

(* Once delivered a row never changes again.                               *)
THEOREM DeliveredIsFinalHolds == Spec => DeliveredIsFinal
<1> DEFINE Final == \A d \in Delivery :
                      delivery[d].status = "delivered" => delivery'[d] = delivery[d]
<1>1. ASSUME IInv, Next, NEW d \in Delivery, delivery[d].status = "delivered"
      PROVE  delivery'[d] = delivery[d]
  <2>0. delivery \in [Delivery -> DB!Row] /\ Fresh /\ SoleSender
    BY <1>1 DEF IInv, TypeOK
  <2>1. CASE UNCHANGED delivery
    BY <2>1
  <2>2. ASSUME NEW x \in Delivery, RetryDelivery(x) \/ Elapse(x)
        PROVE  delivery'[d] = delivery[d]
    <3>1. x # d
      BY <1>1, <2>2 DEF RetryDelivery, Elapse, DB!CanRetry
    <3>2. \E r : delivery' = [delivery EXCEPT ![x] = r]
      BY <2>2 DEF RetryDelivery, Elapse
    <3> QED BY ZenonT(60), <2>0, <3>1, <3>2
  <2>3. ASSUME NEW v \in Event, NEW e \in Endpoint, PublishInsert(v, e)
        PROVE  delivery'[d] = delivery[d]
    <3>1. delivery[<<v, e>>] = DB!Absent
      BY ZenonT(60), <2>0, <2>3 DEF PublishInsert, Fresh
    <3>2. d # <<v, e>>
      BY <1>1, <3>1 DEF DB!Absent
    <3>3. delivery' = delivery \/ \E r : delivery' = [delivery EXCEPT ![<<v, e>>] = r]
      BY ZenonT(30), <2>3 DEF PublishInsert
    <3> QED BY ZenonT(60), <2>0, <3>2, <3>3
  <2>4. ASSUME NEW s \in Sender, ClaimDue(s)
        PROVE  delivery'[d] = delivery[d]
    BY ZenonT(60), <1>1, <2>4 DEF ClaimDue, Claimed, DB!CanClaim
  <2>5. ASSUME NEW s \in Sender, Record(s)
        PROVE  delivery'[d] = delivery[d]
    <3>1. sender[s].cur # d
      BY ZenonT(60), <1>1, <2>0 DEF SoleSender, Holds
    <3> QED BY ZenonT(60), <2>0, <2>5, <3>1 DEF Record
  <2> QED BY ZenonT(60), <1>1, <2>1, <2>2, <2>3, <2>4, <2>5
          DEF Next, CreateEndpoint, DeleteEndpoint, EditWrite, EditRead, PublishList,
              Send, Shutdown, Crash, ReadEndpoint
<1>2. IInv /\ [Next]_vars => [Final]_vars
  BY <1>1
<1> QED BY IInvHolds, <1>2, PTL DEF Spec, DeliveredIsFinal

(* No edit that was under way revives a soft-deleted endpoint.             *)
THEOREM DeletedIsFinalHolds == Spec => DeletedIsFinal
<1> DEFINE Dead(r) == r.deleted /\ r.exists /\ ~r.active
           Final == \A e \in Endpoint : endpoint[e].deleted =>
                      endpoint'[e].deleted /\ ~endpoint'[e].active
           Grave == \A e \in Endpoint : endpoint[e].deleted => Dead(endpoint[e])
<1>1. Init => Grave
  BY SMTT(30) DEF Init, NoEndpoint
<1>2. ASSUME TypeOK, Grave, Next, NEW e \in Endpoint
      PROVE  /\ endpoint[e].deleted => Dead(endpoint[e])'
             /\ endpoint'[e].deleted => Dead(endpoint[e])'
  <2>1. CASE UNCHANGED endpoint
    BY <1>2, <2>1
  <2>2. ASSUME NEW x \in Endpoint, CreateEndpoint(x)
        PROVE  /\ endpoint[e].deleted => Dead(endpoint[e])'
               /\ endpoint'[e].deleted => Dead(endpoint[e])'
    BY <1>2, <2>2 DEF CreateEndpoint, NoEndpoint, TypeOK
  <2>3. ASSUME NEW x \in Endpoint, DeleteEndpoint(x)
        PROVE  /\ endpoint[e].deleted => Dead(endpoint[e])'
               /\ endpoint'[e].deleted => Dead(endpoint[e])'
    BY <1>2, <2>3 DEF DeleteEndpoint, Visible, TypeOK, EndpointRow
  <2>4. ASSUME NEW a \in Admin, NEW x \in Endpoint, EditRead(a, x)
        PROVE  /\ endpoint[e].deleted => Dead(endpoint[e])'
               /\ endpoint'[e].deleted => Dead(endpoint[e])'
    BY ZenonT(60), <1>2, <2>4 DEF EditRead, TypeOK, EndpointRow
  <2>5. ASSUME NEW a \in Admin, EditWrite(a)
        PROVE  /\ endpoint[e].deleted => Dead(endpoint[e])'
               /\ endpoint'[e].deleted => Dead(endpoint[e])'
    <3>1. endpoint'[e] = endpoint[e] \/ endpoint'[e] = UpdateWebhookEndpoint(endpoint[e], a)
      BY <1>2, <2>5 DEF EditWrite, TypeOK
    <3>2. /\ endpoint[e].deleted => UpdateWebhookEndpoint(endpoint[e], a) = endpoint[e]
          /\ ~endpoint[e].deleted => ~UpdateWebhookEndpoint(endpoint[e], a).deleted
      BY <1>2 DEF UpdateWebhookEndpoint, Edited, TypeOK, AdminState, EndpointRow
    <3> QED BY ZenonT(60), <1>2, <3>1, <3>2
  <2> QED BY ZenonT(60), <1>2, <2>1, <2>2, <2>3, <2>4, <2>5
          DEF Next, RetryDelivery, Elapse, PublishList, PublishInsert, ClaimDue, Send, Record,
              Shutdown, Crash, ReadEndpoint
<1>3. TypeOK /\ Grave /\ [Next]_vars => Grave' /\ [Final]_vars
  BY <1>2 DEF vars
<1> QED BY <1>1, <1>3, TypeCorrect, PTL DEF Spec, DeletedIsFinal

(* No step takes the row of a delivery out of the table again.             *)
LEMMA RowsStay ==
  ASSUME IInv, Next, NEW d \in Delivery, delivery[d].status # "absent"
  PROVE  delivery'[d].status # "absent"
<1>0. delivery \in [Delivery -> DB!Row] /\ delivery[d] \in DB!Row
  BY DEF IInv, TypeOK
<1>1. CASE UNCHANGED delivery
  BY ZenonT(60), <1>1
<1>2. ASSUME NEW x \in Delivery, RetryDelivery(x)
      PROVE  delivery'[d].status # "absent"
  <2>1. delivery'[d] = delivery[d] \/ delivery'[d] = DB!RetryWebhookDelivery(delivery[d])
    BY <1>0, <1>2 DEF RetryDelivery
  <2> QED BY <2>1 DEF DB!RetryWebhookDelivery
<1>3. ASSUME NEW x \in Delivery, Elapse(x)
      PROVE  delivery'[d].status # "absent"
  BY <1>0, <1>3 DEF Elapse, DB!Row
<1>4. ASSUME NEW v \in Event, NEW e \in Endpoint, PublishInsert(v, e)
      PROVE  delivery'[d].status # "absent"
  <2>1. \/ delivery' = delivery
        \/ delivery' = [delivery EXCEPT ![<<v, e>>] = DB!CreateWebhookDelivery]
    BY Zenon, <1>4 DEF PublishInsert
  <2>2. delivery'[d] = delivery[d] \/ delivery'[d] = DB!CreateWebhookDelivery
    BY ZenonT(60), <1>0, <2>1
  <2> QED BY ZenonT(60), <2>2, RowWritten
<1>5. ASSUME NEW s \in Sender, ClaimDue(s)
      PROVE  delivery'[d].status # "absent"
  <2>1. delivery'[d] = delivery[d] \/ delivery'[d] = DB!ClaimDueWebhookDelivery(delivery[d])
    BY ZenonT(60), <1>5 DEF ClaimDue, Claimed
  <2> QED BY <2>1 DEF DB!ClaimDueWebhookDelivery
<1>6. ASSUME NEW s \in Sender, Record(s)
      PROVE  delivery'[d].status # "absent"
  <2>1. \/ delivery'[d] = delivery[d]
        \/ delivery'[d] = DB!UpdateWebhookDelivery(Outcome(s), sender[s].copy[sender[s].cur])
    BY <1>0, <1>6 DEF Record
  <2>2. Outcome(s) # "absent"
    BY ZenonT(60) DEF Outcome
  <2> QED BY <2>1, <2>2 DEF DB!UpdateWebhookDelivery
<1>7. CASE \E v \in Event : PublishList(v)
  BY <1>1, <1>7 DEF PublishList
<1>8. CASE \/ \E e \in Endpoint : CreateEndpoint(e) \/ DeleteEndpoint(e)
           \/ \E a \in Admin : EditWrite(a) \/ \E e \in Endpoint : EditRead(a, e)
  BY Zenon, <1>1, <1>8 DEF CreateEndpoint, DeleteEndpoint, EditWrite, EditRead
<1>9. CASE \E s \in Sender : \/ Send(s) \/ Shutdown(s) \/ Crash(s)
                            \/ \E x \in Delivery : ReadEndpoint(s, x)
  BY Zenon, <1>1, <1>9 DEF Send, Shutdown, Crash, ReadEndpoint
<1> QED BY Zenon, <1>2, <1>3, <1>4, <1>5, <1>6, <1>7, <1>8, <1>9 DEF Next

(* What a publication has worked off has its row, and it ends with nothing *)
(* left to work off.                                                       *)
WorkedOff(v) ==
  LET p == publisher[v] IN
  /\ p.pc = "done" => p.todo = {}
  /\ \A e \in p.listed \ (p.todo \cup p.lost) : delivery[<<v, e>>].status # "absent"

(* An insert takes one endpoint off the list, and either its row is there  *)
(* or it is among the lost.                                                *)
LEMMA InsertWorksOff ==
  ASSUME IInv, NEW v \in Event, NEW e \in Endpoint, PublishInsert(v, e), WorkedOff(v), Next
  PROVE  WorkedOff(v)'
<1>0. /\ publisher[v] \in Publisher /\ publisher \in [Event -> Publisher]
      /\ delivery \in [Delivery -> DB!Row] /\ <<v, e>> \in Delivery
  BY DEF IInv, TypeOK, Delivery
<1>1. PICK failed \in BOOLEAN :
        /\ publisher' = [publisher EXCEPT ![v] = PublishNext(v, e, failed)]
        /\ ~failed => delivery' = [delivery EXCEPT ![<<v, e>>] = DB!CreateWebhookDelivery]
  BY Zenon DEF PublishInsert
<1>2. publisher'[v] = PublishNext(v, e, failed)
  BY Zenon, <1>0, <1>1
<1>3. /\ publisher'[v].listed = publisher[v].listed
      /\ publisher'[v].todo = publisher[v].todo \ {e}
      /\ publisher'[v].lost = IF failed THEN publisher[v].lost \cup {e} ELSE publisher[v].lost
      /\ publisher'[v].pc = IF publisher[v].todo = {e} THEN "done" ELSE "insert"
  BY ZenonT(60), <1>0, <1>2 DEF PublishNext, Publisher, PublishInsert
<1>4. publisher'[v].pc = "done" => publisher'[v].todo = {}
  BY <1>3
<1>5. ASSUME NEW x \in publisher'[v].listed, x \notin publisher'[v].todo, x \notin publisher'[v].lost
      PROVE  delivery'[<<v, x>>].status # "absent"
  <2>1. x \in Endpoint /\ <<v, x>> \in Delivery
    BY ZenonT(60), <1>0, <1>3, <1>5 DEF Publisher, Delivery
  <2>2. CASE x = e
    <3>1. ~failed
      BY <1>3, <1>5, <2>2
    <3>2. delivery'[<<v, x>>] = DB!CreateWebhookDelivery
      BY Zenon, <1>0, <1>1, <2>2, <3>1
    <3> QED BY ZenonT(60), <3>2, RowWritten
  <2>3. CASE x # e
    <3>1. x \in publisher[v].listed \ (publisher[v].todo \cup publisher[v].lost)
      BY <1>3, <1>5, <2>3
    <3>2. delivery[<<v, x>>].status # "absent"
      BY Zenon, <3>1 DEF WorkedOff
    <3> QED BY Zenon, <2>1, <3>2, RowsStay
  <2> QED BY ZenonT(60), <2>2, <2>3
<1> QED BY Zenon, <1>4, <1>5 DEF WorkedOff

(* When PublishTaskEvent returns, every endpoint it listed has its         *)
(* delivery, but for the inserts that failed themselves, for any number of *)
(* endpoints, and whatever workers, edits and retries do meanwhile.        *)
THEOREM FanOutCompleteHolds == Spec => []FanOutComplete
<1>1. Init => \A v \in Event : WorkedOff(v)
  BY DEF Init, WorkedOff
<1>2. ASSUME IInv, [Next]_vars, NEW v \in Event, WorkedOff(v)
      PROVE  WorkedOff(v)'
  <2>0. publisher \in [Event -> Publisher] /\ publisher[v] \in Publisher
    BY ZenonT(60), <1>2 DEF IInv, TypeOK
  <2>1. CASE UNCHANGED vars
    BY ZenonT(60), <1>2, <2>1 DEF vars, WorkedOff
  <2>2. CASE Next /\ publisher'[v] = publisher[v]
    <3>1. ASSUME NEW e \in publisher[v].listed, e \notin publisher[v].todo, e \notin publisher[v].lost
          PROVE  delivery'[<<v, e>>].status # "absent"
      <4>1. <<v, e>> \in Delivery
        BY <2>0, <3>1 DEF Publisher, Delivery
      <4>2. delivery[<<v, e>>].status # "absent"
        BY ZenonT(60), <1>2, <3>1 DEF WorkedOff
      <4> QED BY Zenon, <1>2, <2>2, <4>1, <4>2, RowsStay
    <3> QED BY <1>2, <2>2, <3>1 DEF WorkedOff
  <2>3. CASE PublishList(v)
    <3>1. PICK S \in SUBSET Endpoint :
            publisher' = [publisher EXCEPT ![v] = [pc |-> IF S = {} THEN "done" ELSE "insert",
                                                   todo |-> S, lost |-> {}, listed |-> S]]
      BY Zenon, <2>3 DEF PublishList
    <3>2. publisher'[v] = [pc |-> IF S = {} THEN "done" ELSE "insert",
                           todo |-> S, lost |-> {}, listed |-> S]
      BY Zenon, <2>0, <3>1
    <3> QED BY <3>2 DEF WorkedOff
  <2>4. ASSUME NEW e \in Endpoint, PublishInsert(v, e), Next
        PROVE  WorkedOff(v)'
    BY Zenon, <1>2, <2>4, InsertWorksOff
  <2>5. ASSUME NEW w \in Event, w # v, PublishList(w) \/ \E e \in Endpoint : PublishInsert(w, e)
        PROVE  publisher'[v] = publisher[v]
    <3>1. \E r : publisher' = [publisher EXCEPT ![w] = r]
      BY Zenon, <2>5 DEF PublishList, PublishInsert
    <3> QED BY <2>0, <2>5, <3>1
  <2>6. CASE Next
    <3>1. CASE UNCHANGED publisher
      BY <2>2, <2>6, <3>1
    <3>2. CASE \E w \in Event : PublishList(w) \/ \E e \in Endpoint : PublishInsert(w, e)
      BY Zenon, <2>2, <2>3, <2>4, <2>5, <2>6, <3>2
    <3>3. CASE \/ \E e \in Endpoint : CreateEndpoint(e) \/ DeleteEndpoint(e)
               \/ \E a \in Admin : EditWrite(a) \/ \E e \in Endpoint : EditRead(a, e)
               \/ \E d \in Delivery : RetryDelivery(d) \/ Elapse(d)
      BY Zenon, <3>1, <3>3 DEF CreateEndpoint, DeleteEndpoint, EditWrite, EditRead, RetryDelivery, Elapse
    <3>4. CASE \E s \in Sender : \/ ClaimDue(s) \/ Send(s) \/ Record(s)
                                \/ Shutdown(s) \/ Crash(s)
                                \/ \E d \in Delivery : ReadEndpoint(s, d)
      BY Zenon, <3>1, <3>4 DEF ClaimDue, Send, Record, Shutdown, Crash, ReadEndpoint
    <3> QED BY Zenon, <2>6, <3>2, <3>3, <3>4 DEF Next
  <2> QED BY <1>2, <2>1, <2>6
<1>3. (\A v \in Event : WorkedOff(v)) => FanOutComplete
  BY DEF WorkedOff, FanOutComplete
<1>4. IInv /\ [Next]_vars /\ (\A v \in Event : WorkedOff(v)) => (\A v \in Event : WorkedOff(v))'
  BY Zenon, <1>2
<1> QED BY <1>1, <1>3, <1>4, IInvHolds, PTL DEF Spec
-----------------------------------------------------------------------------
(* What may happen to an orphan, and what may make one.                    *)
Accountable(d) ==
  /\ Orphan(d) => Orphan(d)'
  /\ ~Orphan(d) /\ Orphan(d)' =>
       \/ \E s \in Sender : Holds(s, d) /\ sender[s].cancelled
       \/ \E k \in {"claim", "write", "crash"} : Fault(k)

(* What a worker holds after it finished with a delivery.                  *)
LEMMA CameBack ==
  ASSUME NEW r \in SenderState, NEW q, q = [r EXCEPT !.pc = "read", !.cur = None]
  PROVE  q.todo = r.todo /\ q.cur = None
  BY DEF SenderState

(* What it holds while only its other fields change.                       *)
LEMMA HeldOn ==
  ASSUME NEW r \in SenderState, NEW q, NEW pc, NEW b,
         q = [r EXCEPT !.pc = pc] \/ q = [r EXCEPT !.cancelled = b]
  PROVE  q.todo = r.todo /\ q.cur = r.cur
  BY DEF SenderState

(* A worker at rest holds nothing.                                         *)
LEMMA AtRest == Resting.todo = {} /\ Resting.cur = None
  BY Zenon DEF Resting

(* What the rows that a claim has not touched hold.                        *)
LEMMA RowsNotClaimed ==
  DB!Absent.status # "delivering" /\ DB!CreateWebhookDelivery.status # "delivering"
  BY Zenon DEF DB!Absent, DB!CreateWebhookDelivery

(* A step after which the same deliveries are in progress, in the same     *)
(* hands.                                                                  *)
LEMMA SameHands ==
  ASSUME NEW d, delivery'[d].status = "delivering" <=> delivery[d].status = "delivering",
         \A z \in Sender : Holds(z, d)' <=> Holds(z, d)
  PROVE  Accountable(d)
  BY Zenon DEF Accountable, Orphan

(* A step that leaves the workers alone and writes no row that is being    *)
(* delivered.                                                              *)
LEMMA RowsInProgressKept ==
  ASSUME IInv, NEW d \in Delivery, sender' = sender,
         \/ delivery' = delivery
         \/ \E x \in Delivery : \E r :
              /\ delivery' = [delivery EXCEPT ![x] = r]
              /\ delivery[x].status # "delivering" /\ r.status # "delivering"
  PROVE  Accountable(d)
<1>0. delivery \in [Delivery -> DB!Row]
  BY DEF IInv, TypeOK
<1>1. delivery'[d].status = "delivering" <=> delivery[d].status = "delivering"
  BY ZenonT(60), <1>0
<1>2. \A z \in Sender : Holds(z, d)' <=> Holds(z, d)
  BY Zenon DEF Holds
<1> QED BY Zenon, <1>1, <1>2, SameHands

(* The client, the publisher and time.                                     *)
LEMMA ClientOrphans ==
  ASSUME IInv, NEW d \in Delivery,
         \/ \E e \in Endpoint : CreateEndpoint(e) \/ DeleteEndpoint(e)
         \/ \E a \in Admin : EditWrite(a) \/ \E e \in Endpoint : EditRead(a, e)
         \/ \E x \in Delivery : RetryDelivery(x) \/ Elapse(x)
         \/ \E v \in Event : PublishList(v) \/ \E e \in Endpoint : PublishInsert(v, e)
  PROVE  Accountable(d)
<1>0. \A x \in Delivery : delivery[x] \in DB!Row
  BY DEF IInv, TypeOK
<1>1. ASSUME NEW x \in Delivery, RetryDelivery(x)
      PROVE  Accountable(d)
  <2>1. /\ delivery' = [delivery EXCEPT ![x] = DB!RetryWebhookDelivery(delivery[x])]
        /\ delivery[x].status \in {"failed", "retrying"} /\ sender' = sender
    BY ZenonT(60), <1>1 DEF RetryDelivery, DB!CanRetry
  <2>2. DB!RetryWebhookDelivery(delivery[x]).status # "delivering"
    BY DEF DB!RetryWebhookDelivery
  <2>3. delivery[x].status # "delivering"
    BY <2>1
  <2> QED BY Zenon, <2>1, <2>2, <2>3, RowsInProgressKept
<1>2. ASSUME NEW x \in Delivery, Elapse(x)
      PROVE  Accountable(d)
  <2>1. /\ delivery' = [delivery EXCEPT ![x] = [delivery[x] EXCEPT !.due = TRUE]]
        /\ delivery[x].status = "retrying" /\ sender' = sender
    BY <1>2 DEF Elapse
  <2>2. [delivery[x] EXCEPT !.due = TRUE].status # "delivering"
    BY <1>0, <2>1 DEF DB!Row
  <2>3. delivery[x].status # "delivering"
    BY <2>1
  <2> QED BY Zenon, <2>1, <2>2, <2>3, RowsInProgressKept
<1>3. ASSUME NEW v \in Event, NEW e \in Endpoint, PublishInsert(v, e)
      PROVE  Accountable(d)
  <2>1. /\ \/ delivery' = delivery
           \/ delivery' = [delivery EXCEPT ![<<v, e>>] = DB!CreateWebhookDelivery]
        /\ sender' = sender
    BY Zenon, <1>3 DEF PublishInsert
  <2>2. delivery[<<v, e>>].status # "delivering" /\ <<v, e>> \in Delivery
    <3>1. delivery[<<v, e>>] = DB!Absent
      BY Zenon, <1>3 DEF PublishInsert, IInv, Fresh
    <3> QED BY Zenon, <3>1, RowsNotClaimed DEF Delivery
  <2> QED BY Zenon, <2>1, <2>2, RowsNotClaimed, RowsInProgressKept
<1>4. ASSUME UNCHANGED <<delivery, sender>>
      PROVE  Accountable(d)
  BY Zenon, <1>4, RowsInProgressKept
<1>5. CASE \/ \E e \in Endpoint : CreateEndpoint(e) \/ DeleteEndpoint(e)
           \/ \E a \in Admin : EditWrite(a) \/ \E e \in Endpoint : EditRead(a, e)
           \/ \E v \in Event : PublishList(v)
  BY Zenon, <1>4, <1>5 DEF CreateEndpoint, DeleteEndpoint, EditWrite, EditRead, PublishList
<1> QED BY Zenon, <1>1, <1>2, <1>3, <1>5

(* A claim takes up rows that were waiting, and orphans them only if its   *)
(* reply is lost.                                                          *)
LEMMA ClaimOrphans ==
  ASSUME IInv, NEW d \in Delivery, NEW s \in Sender, ClaimDue(s)
  PROVE  Accountable(d)
<1>0. /\ sender \in [Sender -> SenderState] /\ sender[s] \in SenderState
      /\ None \notin Delivery /\ d # None
  BY EventForgeAssumption DEF IInv, TypeOK, Delivery
<1>1. PICK S \in SUBSET Delivery :
        /\ \A x \in S : DB!CanClaim(delivery[x])
        /\ delivery' = Claimed(S)
        /\ \/ sender' = [sender EXCEPT ![s] = [sender[s] EXCEPT
                           !.pc = "read", !.todo = S, !.copy = Returned(S)]]
           \/ Fault("claim") /\ sender' = sender
  BY ZenonT(60) DEF ClaimDue
<1>2. d \in S => delivery[d].status # "delivering"
  BY <1>1 DEF DB!CanClaim
<1>3. d \notin S => delivery'[d] = delivery[d]
  BY Zenon, <1>1 DEF Claimed
<1>4. sender[s].todo = {} /\ sender[s].cur = None
  BY DEF ClaimDue, IInv, Shape
<1>5. CASE sender' = [sender EXCEPT ![s] = [sender[s] EXCEPT
                        !.pc = "read", !.todo = S, !.copy = Returned(S)]]
  <2>1. /\ sender'[s].todo = S /\ sender'[s].cur = None
        /\ \A z \in Sender \ {s} : sender'[z] = sender[z]
    <3>1. PICK q : /\ q = [sender[s] EXCEPT !.pc = "read", !.todo = S, !.copy = Returned(S)]
                   /\ sender' = [sender EXCEPT ![s] = q]
      BY Zenon, <1>5
    <3>2. q.todo = S /\ q.cur = sender[s].cur
      <4>1. PICK r \in SenderState : r = sender[s]
        BY Zenon, <1>0
      <4>2. q = [r EXCEPT !.pc = "read", !.todo = S, !.copy = Returned(S)]
        BY Zenon, <3>1, <4>1
      <4>3. q.todo = S /\ q.cur = r.cur
        BY <4>2 DEF SenderState
      <4> QED BY Zenon, <4>1, <4>3
    <3> QED BY Zenon, <1>0, <1>4, <3>1, <3>2
  <2>2. CASE d \in S
    <3>1. Holds(s, d)'
      BY Zenon, <2>1, <2>2 DEF Holds
    <3> QED BY Zenon, <1>2, <2>2, <3>1 DEF Accountable, Orphan
  <2>3. CASE d \notin S
    <3>1. ~Holds(s, d) /\ ~Holds(s, d)'
      BY Zenon, <1>0, <1>4, <2>1, <2>3 DEF Holds
    <3>2. \A z \in Sender \ {s} : Holds(z, d)' <=> Holds(z, d)
      BY Zenon, <2>1 DEF Holds
    <3> QED BY Zenon, <1>3, <2>3, <3>1, <3>2, SameHands
  <2> QED BY <2>2, <2>3
<1>6. CASE Fault("claim") /\ sender' = sender
  <2>1. \A z \in Sender : Holds(z, d)' <=> Holds(z, d)
    BY Zenon, <1>6 DEF Holds
  <2>2. Orphan(d) => Orphan(d)'
    BY Zenon, <1>2, <1>3, <2>1 DEF Orphan
  <2> QED BY Zenon, <1>6, <2>2 DEF Accountable
<1> QED BY Zenon, <1>1, <1>5, <1>6

(* A worker that goes on with its batch, records an outcome or ends: the   *)
(* delivery it lets go of is settled or waits, unless the outcome is not   *)
(* written or the worker dies.                                             *)
LEMMA WorkerOrphans ==
  ASSUME IInv, NEW d \in Delivery, NEW s \in Sender,
         \/ Send(s) \/ Record(s) \/ Shutdown(s) \/ Crash(s)
         \/ \E x \in Delivery : ReadEndpoint(s, x)
  PROVE  Accountable(d)
<1>0. /\ sender \in [Sender -> SenderState] /\ sender[s] \in SenderState
      /\ None \notin Delivery /\ d # None /\ delivery \in [Delivery -> DB!Row]
  BY EventForgeAssumption DEF IInv, TypeOK, Delivery
<1>1. ASSUME UNCHANGED delivery, \A z \in Sender \ {s} : sender'[z] = sender[z],
             Holds(s, d)' <=> Holds(s, d)
      PROVE  Accountable(d)
  <2>1. \A z \in Sender : Holds(z, d)' <=> Holds(z, d)
    BY Zenon, <1>1 DEF Holds
  <2> QED BY Zenon, <1>1, <2>1, SameHands
<1>2. ASSUME NEW r, sender' = [sender EXCEPT ![s] = r], UNCHANGED delivery,
             r.todo = sender[s].todo, r.cur = sender[s].cur
      PROVE  Accountable(d)
  <2>1. sender'[s] = r /\ \A z \in Sender \ {s} : sender'[z] = sender[z]
    BY Zenon, <1>0, <1>2
  <2> QED BY Zenon, <1>1, <1>2, <2>1 DEF Holds
<1>3. ASSUME NEW x \in Delivery, ReadEndpoint(s, x)
      PROVE  Accountable(d)
  <2>1. PICK pc : sender' = [sender EXCEPT ![s] =
                    [sender[s] EXCEPT !.todo = @ \ {x}, !.cur = x, !.pc = pc]]
    BY Zenon, <1>3 DEF ReadEndpoint
  <2>2. /\ sender'[s].todo = sender[s].todo \ {x} /\ sender'[s].cur = x
        /\ \A z \in Sender \ {s} : sender'[z] = sender[z]
    <3>1. PICK q : /\ q = [sender[s] EXCEPT !.todo = @ \ {x}, !.cur = x, !.pc = pc]
                   /\ sender' = [sender EXCEPT ![s] = q]
      BY Zenon, <2>1
    <3>2. q.todo = sender[s].todo \ {x} /\ q.cur = x
      BY <1>0, <3>1 DEF SenderState
    <3> QED BY Zenon, <1>0, <3>1, <3>2
  <2>3. sender[s].pc = "read" /\ x \in sender[s].todo /\ UNCHANGED delivery
    BY Zenon, <1>3 DEF ReadEndpoint
  <2>4. sender[s].cur = None
    BY Zenon, <2>3 DEF IInv, Shape
  <2>5. Holds(s, d)' <=> Holds(s, d)
    BY ZenonT(60), <1>0, <2>2, <2>3, <2>4 DEF Holds
  <2> QED BY Zenon, <1>1, <2>2, <2>3, <2>5
<1>4. CASE Crash(s)
  <2>1. Fault("crash") /\ UNCHANGED delivery
    BY Zenon, <1>4 DEF Crash
  <2>2. /\ sender'[s].todo = {} /\ sender'[s].cur = None
        /\ \A z \in Sender \ {s} : sender'[z] = sender[z]
    BY Zenon, <1>0, <1>4, AtRest DEF Crash
  <2>3. \A z \in Sender : Holds(z, d)' => Holds(z, d)
    BY Zenon, <1>0, <2>2 DEF Holds
  <2> QED BY Zenon, <2>1, <2>3 DEF Accountable, Orphan
<1>5. CASE Record(s)
  <2> DEFINE c == sender[s].cur
  <2>1. /\ sender'[s].cur = None /\ sender'[s].todo = sender[s].todo
        /\ \A z \in Sender \ {s} : sender'[z] = sender[z]
    <3>1. Finished(s).todo = sender[s].todo /\ Finished(s).cur = None
      BY Zenon, <1>0, AtRest, CameBack DEF Finished
    <3> QED BY Zenon, <1>0, <1>5, <3>1 DEF Record
  <2>2. CASE d # c
    <3>1. \A z \in Sender : Holds(z, d)' <=> Holds(z, d)
      BY ZenonT(60), <1>0, <2>1, <2>2 DEF Holds
    <3>2. delivery'[d] = delivery[d]
      BY ZenonT(60), <1>0, <1>5, <2>2 DEF Record
    <3> QED BY Zenon, <3>1, <3>2, SameHands
  <2>3. CASE d = c
    <3>1. Holds(s, d)
      BY Zenon, <2>3 DEF Holds
    <3>2. \/ delivery'[d] = DB!UpdateWebhookDelivery(Outcome(s), sender[s].copy[d])
          \/ sender[s].cancelled \/ Fault("write")
      BY ZenonT(60), <1>0, <1>5, <2>3 DEF Record
    <3>3. Outcome(s) # "delivering"
      BY ZenonT(60) DEF Outcome
    <3>4. DB!UpdateWebhookDelivery(Outcome(s), sender[s].copy[d]).status = Outcome(s)
      BY DEF DB!UpdateWebhookDelivery
    <3> QED BY Zenon, <3>1, <3>2, <3>3, <3>4 DEF Accountable, Orphan
  <2> QED BY <2>2, <2>3
<1>6. CASE Send(s)
  <2>1. PICK pc : sender' = [sender EXCEPT ![s] = [sender[s] EXCEPT !.pc = pc]]
    BY ZenonT(60), <1>6 DEF Send
  <2>2. PICK q : q = [sender[s] EXCEPT !.pc = pc] /\ sender' = [sender EXCEPT ![s] = q]
    BY Zenon, <2>1
  <2>3. q.todo = sender[s].todo /\ q.cur = sender[s].cur
    BY Zenon, <1>0, <2>2, HeldOn
  <2> QED BY Zenon, <1>2, <1>6, <2>2, <2>3 DEF Send
<1>7. CASE Shutdown(s)
  <2>1. PICK q : /\ q = [sender[s] EXCEPT !.cancelled = TRUE]
                 /\ sender' = [sender EXCEPT ![s] = q]
    BY Zenon, <1>7 DEF Shutdown
  <2>2. q.todo = sender[s].todo /\ q.cur = sender[s].cur
    BY Zenon, <1>0, <2>1, HeldOn
  <2> QED BY Zenon, <1>2, <1>7, <2>1, <2>2 DEF Shutdown
<1> QED BY Zenon, <1>3, <1>4, <1>5, <1>6, <1>7

(* Every step.                                                             *)
LEMMA OrphanStep ==
  ASSUME IInv, [Next]_vars, NEW d \in Delivery
  PROVE  Accountable(d)
<1>1. CASE UNCHANGED vars
  <2>1. delivery' = delivery /\ sender' = sender
    BY <1>1 DEF vars
  <2> QED BY Zenon, <2>1, RowsInProgressKept
<1>2. CASE Next
  BY Zenon, <1>2, ClientOrphans, ClaimOrphans, WorkerOrphans DEF Next
<1> QED BY <1>1, <1>2

(* A delivery is orphaned only by a lost reply, an outcome that was not    *)
(* written or the end of its worker, and an orphan is never taken up       *)
(* again: this is exactly what stands between EventForge and at-least-once *)
(* delivery.                                                               *)
THEOREM OrphanedByFaultHolds == Spec => OrphanedByFault
<1>1. IInv /\ [Next]_vars => \A d \in Delivery : Accountable(d)
  BY Zenon, OrphanStep
<1>2. IInv /\ [Next]_vars =>
        [\A d \in Delivery :
           /\ Orphan(d) => Orphan(d)'
           /\ ~Orphan(d) /\ Orphan(d)' =>
                \/ \E s \in Sender : Holds(s, d) /\ sender[s].cancelled
                \/ \E k \in {"claim", "write", "crash"} : Fault(k)]_vars
  BY Zenon, <1>1 DEF Accountable
<1> QED BY IInvHolds, <1>2, PTL DEF Spec, OrphanedByFault

(* As long as no reply is lost, no write fails and no worker is stopped or *)
(* dies, every delivery in progress is in the hands of a worker: the       *)
(* safety half of EventuallySettled.                                       *)
THEOREM NoOrphans ==
  Faults \cap {"claim", "write", "crash", "shutdown"} = {} =>
    (Spec => [](\A d \in Delivery : ~Orphan(d)))
<1> SUFFICES ASSUME Faults \cap {"claim", "write", "crash", "shutdown"} = {}
             PROVE  Spec => [](\A d \in Delivery : ~Orphan(d))
  OBVIOUS
<1> DEFINE Calmly == \A s \in Sender : ~sender[s].cancelled
           Attended == \A d \in Delivery : ~Orphan(d)
<1>0. \A k \in {"claim", "write", "crash", "shutdown"} : ~Fault(k)
  BY ZenonT(60) DEF Fault
<1>1. Init => Calmly /\ Attended
  BY DEF Init, Resting, Orphan, DB!Absent
<1>2. ASSUME IInv, [Next]_vars, Calmly
      PROVE  Calmly'
  <2>0. sender \in [Sender -> SenderState] /\ Resting.cancelled = FALSE
    BY <1>2 DEF IInv, TypeOK, Resting
  <2>1. CASE UNCHANGED sender
    BY Zenon, <1>2, <2>1
  <2>2. ASSUME NEW s \in Sender, NEW r, sender' = [sender EXCEPT ![s] = r], ~r.cancelled
        PROVE  Calmly'
    BY ZenonT(60), <1>2, <2>0, <2>2
  <2>3. ASSUME NEW s \in Sender, ClaimDue(s) PROVE Calmly'
    <3>1. PICK S : \/ sender' = sender
                   \/ sender' = [sender EXCEPT ![s] = [sender[s] EXCEPT
                                   !.pc = "read", !.todo = S, !.copy = Returned(S)]]
      BY Zenon, <2>3 DEF ClaimDue
    <3>2. ~[sender[s] EXCEPT !.pc = "read", !.todo = S, !.copy = Returned(S)].cancelled
      BY <1>2, <2>0 DEF SenderState
    <3> QED BY Zenon, <2>1, <2>2, <3>1, <3>2
  <2>4. ASSUME NEW s \in Sender, Send(s) \/ Record(s) PROVE Calmly'
    <3>0. sender[s] \in SenderState /\ ~sender[s].cancelled
      BY <1>2, <2>0
    <3>1. \A pc, cur : ~[sender[s] EXCEPT !.pc = pc].cancelled
                      /\ ~[sender[s] EXCEPT !.pc = pc, !.cur = cur].cancelled
      BY <3>0 DEF SenderState
    <3>2. CASE Send(s)
      <4>1. PICK pc : sender' = [sender EXCEPT ![s] = [sender[s] EXCEPT !.pc = pc]]
        BY ZenonT(60), <3>2 DEF Send
      <4> QED BY Zenon, <2>2, <3>1, <4>1
    <3>3. CASE Record(s)
      <4>1. sender' = [sender EXCEPT ![s] = Finished(s)]
        BY Zenon, <3>3 DEF Record
      <4>2. ~Finished(s).cancelled
        BY Zenon, <2>0, <3>1 DEF Finished
      <4> QED BY Zenon, <2>2, <4>1, <4>2
    <3> QED BY <2>4, <3>2, <3>3
  <2>5. ASSUME NEW s \in Sender, NEW x \in Delivery, ReadEndpoint(s, x) PROVE Calmly'
    <3>1. PICK pc : sender' = [sender EXCEPT ![s] =
                      [sender[s] EXCEPT !.todo = @ \ {x}, !.cur = x, !.pc = pc]]
      BY Zenon, <2>5 DEF ReadEndpoint
    <3>2. ~[sender[s] EXCEPT !.todo = @ \ {x}, !.cur = x, !.pc = pc].cancelled
      BY <1>2, <2>0 DEF SenderState
    <3> QED BY Zenon, <2>2, <3>1, <3>2
  <2>6. \A s \in Sender : ~Shutdown(s) /\ ~Crash(s)
    BY Zenon, <1>0 DEF Shutdown, Crash
  <2>7. CASE Next
    BY Zenon, <2>1, <2>3, <2>4, <2>5, <2>6, <2>7
       DEF Next, CreateEndpoint, DeleteEndpoint, EditWrite, EditRead, RetryDelivery, Elapse,
           PublishList, PublishInsert
  <2>8. CASE UNCHANGED vars
    BY Zenon, <2>1, <2>8 DEF vars
  <2> QED BY ZenonT(60), <1>2, <2>7, <2>8
<1>3. ASSUME IInv, [Next]_vars, Calmly, Attended
      PROVE  Attended'
  BY Zenon, <1>0, <1>3, OrphanStep DEF Accountable
<1>4. IInv /\ [Next]_vars /\ Calmly /\ Attended => Calmly' /\ Attended'
  BY <1>2, <1>3
<1> QED BY IInvHolds, <1>1, <1>4, PTL DEF Spec
-----------------------------------------------------------------------------
(* Every set of natural numbers has a smallest element.                    *)
LEMMA Smallest ==
  ASSUME NEW C, C \subseteq Nat, C # {}
  PROVE  \E x \in C : \A y \in C : x <= y
<1> DEFINE R == OpToRel(<, Nat)
<1>1. IsWellFoundedOn(R, Nat)
  BY NatLessThanWellFounded
<1>2. \A x, y \in Nat : x < y => <<x, y>> \in R
  BY DEF OpToRel
<1> HIDE DEF R
<1>3. PICK x \in C : \A y \in C : ~(<<y, x>> \in R)
  BY Zenon, <1>1, WFMin
<1>4. \A y \in C : ~(y < x)
  BY Zenon, <1>2, <1>3
<1> QED BY <1>4

(* A set of numbers that holds 0 and, with a number, the next one.         *)
LEMMA Counting ==
  ASSUME NEW S, 0 \in S, \A n \in Nat : n \in S => n + 1 \in S
  PROVE  Nat \subseteq S
<1> SUFFICES ASSUME Nat \ S # {} PROVE FALSE
  BY Zenon
<1>1. PICK x \in Nat \ S : \A y \in Nat \ S : x <= y
  <2>1. Nat \ S \subseteq Nat
    BY Zenon
  <2> QED BY Zenon, <2>1, Smallest
<1>2. x # 0
  BY Zenon
<1>3. x - 1 \in Nat /\ (x - 1) + 1 = x /\ ~(x <= x - 1)
  BY <1>2
<1>4. x - 1 \in S
  BY Zenon, <1>1, <1>3
<1> QED BY Zenon, <1>3, <1>4

(* f has the values of a loop of n rounds, g[i] being what round i does.    *)
Values(f, n, T, a, g) ==
  f \in [0..n -> T] /\ f[0] = a /\ \A i \in 1..n : f[i] = g[i][f[i - 1]]

(* Every loop has its values.                                              *)
LEMMA Rounds ==
  ASSUME NEW T, NEW a \in T, NEW g \in [Nat -> [T -> T]], NEW n \in Nat
  PROVE  \E f : Values(f, n, T, a, g)
<1> DEFINE S == {m \in Nat : \E f : Values(f, m, T, a, g)}
<1>1. 0 \in S
  <2> DEFINE f == [i \in 0..0 |-> a]
  <2>1. Values(f, 0, T, a, g)
    BY DEF Values
  <2> QED BY <2>1
<1>2. ASSUME NEW m \in Nat, m \in S PROVE m + 1 \in S
  <2>1. PICK f : Values(f, m, T, a, g)
    BY <1>2
  <2> DEFINE h == [i \in 0..(m + 1) |-> IF i = m + 1 THEN g[m + 1][f[m]] ELSE f[i]]
  <2>2. h \in [0..(m + 1) -> T]
    <3>1. g[m + 1][f[m]] \in T
      BY <2>1 DEF Values
    <3>2. ASSUME NEW i \in 0..(m + 1), i # m + 1 PROVE f[i] \in T
      BY <2>1, <3>2 DEF Values
    <3> QED BY <3>1, <3>2
  <2>3. h[0] = f[0] /\ h[m + 1] = g[m + 1][h[(m + 1) - 1]]
    OBVIOUS
  <2>4. ASSUME NEW i \in 1..m PROVE h[i] = g[i][h[i - 1]]
    <3>1. h[i] = f[i] /\ h[i - 1] = f[i - 1]
      OBVIOUS
    <3> QED BY Zenon, <2>1, <3>1 DEF Values
  <2>5. \A i \in 1..(m + 1) : i \in 1..m \/ i = m + 1
    OBVIOUS
  <2> HIDE DEF h
  <2>6. Values(h, m + 1, T, a, g)
    BY Zenon, <2>1, <2>2, <2>3, <2>4, <2>5 DEF Values
  <2> QED BY <2>6
<1> HIDE DEF S
<1>3. n \in S
  BY Zenon, <1>1, <1>2, Counting
<1> QED BY <1>3 DEF S
-----------------------------------------------------------------------------
(* PowerOfTwo(n) is the last of n + 1 numbers, from 1 on, that double.     *)
LEMMA Powers ==
  ASSUME NEW n \in Nat
  PROVE  \E p \in [0..n -> Nat] : /\ PowerOfTwo(n) = p[n] /\ p[0] = 1
                                  /\ \A i \in 1..n : p[i] = 2 * p[i - 1]
<1> DEFINE Is(p) == p = [i \in 0..n |-> IF i = 0 THEN 1 ELSE 2 * p[i - 1]]
           g == [i \in Nat |-> [x \in Nat |-> 2 * x]]
<1>1. PICK f : Values(f, n, Nat, 1, g)
  <2>1. g \in [Nat -> [Nat -> Nat]] /\ 1 \in Nat
    OBVIOUS
  <2> HIDE DEF g
  <2> QED BY ZenonT(60), <2>1, Rounds
<1>2. \A i \in 0..n : f[i] = IF i = 0 THEN 1 ELSE 2 * f[i - 1]
  <2>1. \A i \in Nat, x \in Nat : g[i][x] = 2 * x
    OBVIOUS
  <2> HIDE DEF g
  <2>2. ASSUME NEW i \in 1..n PROVE i \in Nat /\ f[i - 1] \in Nat
    BY <1>1 DEF Values
  <2>3. \A i \in 0..n : i = 0 \/ i \in 1..n
    OBVIOUS
  <2> QED BY Zenon, <1>1, <2>1, <2>2, <2>3 DEF Values
<1>3. Is(f)
  <2>1. f = [i \in 0..n |-> f[i]]
    BY <1>1 DEF Values
  <2> QED BY ZenonT(60), <1>2, <2>1
<1> DEFINE p == CHOOSE q : Is(q)
<1>4. PowerOfTwo(n) = p[n]
  BY DEF PowerOfTwo
<1>5. Is(p)
  BY Zenon, <1>3
<1> HIDE DEF p
<1>6. p[0] = 1 /\ \A i \in 1..n : p[i] = 2 * p[i - 1]
  BY <1>5
<1>7. \A i \in 0..n : p[i] \in Nat
  <2> DEFINE S == {m \in Nat : m <= n => p[m] \in Nat}
  <2>1. 0 \in S
    BY <1>6
  <2>2. ASSUME NEW m \in Nat, m \in S PROVE m + 1 \in S
    <3> SUFFICES ASSUME m + 1 <= n PROVE p[m + 1] \in Nat
      OBVIOUS
    <3>1. m + 1 \in 1..n /\ (m + 1) - 1 = m /\ p[m] \in Nat
      BY <2>2
    <3>2. p[m + 1] = 2 * p[m]
      BY <1>6, <3>1
    <3> QED BY <3>1, <3>2
  <2> HIDE DEF S
  <2>3. Nat \subseteq S
    BY Zenon, <2>1, <2>2, Counting
  <2> QED BY <2>3 DEF S
<1>8. p \in [0..n -> Nat]
  BY ZenonT(60), <1>5, <1>7
<1> QED BY ZenonT(60), <1>4, <1>6, <1>8

(* Doubling and cutting at the cap, or cutting what was doubled.           *)
LEMMA CutDouble ==
  ASSUME NEW a \in Nat, NEW p \in Nat, NEW max \in Nat
  PROVE  /\ a * p \in Nat /\ a * (2 * p) = 2 * (a * p)
         /\ Least(max, Least(max, a * p) * Multiplier) = Least(max, a * (2 * p))
<1> DEFINE x == a * p
<1>1. x \in Nat /\ a * (2 * p) = 2 * x
  OBVIOUS
<1> HIDE DEF x
<1>2. Least(max, Least(max, x) * Multiplier) = Least(max, 2 * x)
  BY <1>1 DEF Least, Multiplier
<1> QED BY <1>1, <1>2 DEF x

(* The delays of n rounds, doubled and cut at the cap round by round, end  *)
(* with a power of two cut at the cap.                                     *)
CutDelays(c, initial, max, n) ==
  /\ c = [i \in 0..n |-> c[i]] /\ \A i \in 0..n : c[i] \in 0..max
  /\ c[0] = initial /\ \A i \in 1..n : c[i] = Least(max, c[i - 1] * Multiplier)
  /\ c[n] = Least(max, initial * PowerOfTwo(n))

(* There are such delays.                                                  *)
LEMMA Delays ==
  ASSUME NEW max \in Nat, NEW initial \in 1..max, NEW n \in Nat
  PROVE  \E c : CutDelays(c, initial, max, n)
<1>1. PICK p \in [0..n -> Nat] : /\ PowerOfTwo(n) = p[n] /\ p[0] = 1
                                 /\ \A i \in 1..n : p[i] = 2 * p[i - 1]
  BY Zenon, Powers
<1> DEFINE c == [i \in 0..n |-> Least(max, initial * p[i])]
<1>2. \A i \in 0..n : p[i] \in Nat /\ initial * p[i] \in Nat /\ c[i] = Least(max, initial * p[i])
  OBVIOUS
<1>3. c = [i \in 0..n |-> c[i]]
  BY Zenon
<1> HIDE DEF c
<1>4. c[0] = initial
  <2>1. 0 \in 0..n /\ initial * 1 = initial /\ ~(max < initial)
    OBVIOUS
  <2>2. c[0] = Least(max, initial)
    BY Zenon, <1>1, <1>2, <2>1
  <2> QED BY <2>1, <2>2 DEF Least
<1>5. ASSUME NEW i \in 1..n PROVE c[i] = Least(max, c[i - 1] * Multiplier)
  <2>1. i - 1 \in 0..n /\ i \in 0..n /\ initial \in Nat
    OBVIOUS
  <2>2. p[i] = 2 * p[i - 1] /\ p[i - 1] \in Nat /\ c[i - 1] = Least(max, initial * p[i - 1])
    BY Zenon, <1>1, <1>2, <2>1
  <2>3. c[i] = Least(max, initial * (2 * p[i - 1]))
    BY Zenon, <1>2, <2>1, <2>2
  <2>4. Least(max, Least(max, initial * p[i - 1]) * Multiplier) = Least(max, initial * (2 * p[i - 1]))
    <3>1. PICK y \in Nat : y = p[i - 1]
      BY Zenon, <2>2
    <3>2. Least(max, Least(max, initial * y) * Multiplier) = Least(max, initial * (2 * y))
      BY <2>1, CutDouble
    <3> QED BY Zenon, <3>1, <3>2
  <2> QED BY Zenon, <2>2, <2>3, <2>4
<1>6. \A i \in 0..n : c[i] \in 0..max
  <2>1. \A x \in Nat : Least(max, x) \in 0..max
    BY DEF Least
  <2> QED BY Zenon, <1>2, <2>1
<1>7. c[n] = Least(max, initial * PowerOfTwo(n))
  <2>1. n \in 0..n
    OBVIOUS
  <2> QED BY Zenon, <1>1, <1>2, <2>1
<1> QED BY Zenon, <1>3, <1>4, <1>5, <1>6, <1>7 DEF CutDelays

(* The loop of RetryPolicy.NextBackoff.                                    *)
LEMMA ExponentialDelay ==
  ASSUME NEW max \in Nat, NEW initial \in 1..max, NEW n \in Nat
  PROVE  NextBackoff(initial, max, n) = Least(max, initial * PowerOfTwo(n))
<1>0. PICK c : CutDelays(c, initial, max, n)
  BY Zenon, Delays
<1>1. /\ c = [i \in 0..n |-> c[i]] /\ \A i \in 0..n : c[i] \in 0..max
      /\ c[0] = initial /\ \A i \in 1..n : c[i] = Least(max, c[i - 1] * Multiplier)
      /\ c[n] = Least(max, initial * PowerOfTwo(n))
  BY Zenon, <1>0 DEF CutDelays
<1> DEFINE Is(e) == e = [i \in 0..n |-> IF i = 0 THEN initial
                                               ELSE Least(max, e[i - 1] * Multiplier)]
           d == CHOOSE e : Is(e)
<1>2. \A i \in 0..n : i = 0 \/ i \in 1..n
  OBVIOUS
<1>3. Is(c)
  <2>1. \A i \in 0..n : c[i] = IF i = 0 THEN initial ELSE Least(max, c[i - 1] * Multiplier)
    BY Zenon, <1>1, <1>2
  <2> QED BY ZenonT(60), <1>1, <2>1
<1>4. NextBackoff(initial, max, n) = d[n]
  BY DEF NextBackoff
<1>5. Is(d)
  BY Zenon, <1>3
<1> HIDE DEF d
<1>6. d[0] = initial /\ \A i \in 1..n : d[i] = Least(max, d[i - 1] * Multiplier)
  <2>1. 0 \in 0..n /\ \A i \in 1..n : i \in 0..n /\ i # 0
    OBVIOUS
  <2>2. \A i \in 0..n : d[i] = IF i = 0 THEN initial ELSE Least(max, d[i - 1] * Multiplier)
    BY Zenon, <1>5
  <2> QED BY Zenon, <2>1, <2>2
<1>7. d[n] = c[n]
  <2> DEFINE S == {m \in Nat : m <= n => d[m] = c[m]}
  <2>1. 0 \in S
    BY <1>1, <1>6
  <2>2. ASSUME NEW m \in Nat, m \in S PROVE m + 1 \in S
    <3> SUFFICES ASSUME m + 1 <= n PROVE d[m + 1] = c[m + 1]
      OBVIOUS
    <3>1. m + 1 \in 1..n /\ (m + 1) - 1 = m /\ d[m] = c[m]
      BY <2>2
    <3> QED BY Zenon, <1>1, <1>6, <3>1
  <2> HIDE DEF S
  <2>3. n \in S
    BY Zenon, <2>1, <2>2, Counting
  <2> QED BY <2>3 DEF S
<1> QED BY Zenon, <1>1, <1>4, <1>7

(* A round of the loop of the webhook worker: below half the cap the       *)
(* product fits a duration.                                                *)
LEMMA DoubledExactly ==
  ASSUME NEW max \in Nat, max < Overflow, NEW b \in 0..max
  PROVE  Doubled(b, max) = Least(max, b * Multiplier)
<1>0. Overflow \in Nat \ {0}
  BY RetryAssumption
<1>1. CASE b > max \div 2
  BY <1>1 DEF Doubled, Least, Multiplier
<1>2. CASE ~(b > max \div 2)
  <2>1. 2 * b <= max /\ 2 * b + Overflow < 2 * Overflow
    BY <1>0, <1>2
  <2>2. (2 * b + Overflow) % (2 * Overflow) = 2 * b + Overflow
    BY <1>0, <2>1
  <2>3. Wrapped(2 * b) = 2 * b
    BY <1>0, <2>2 DEF Wrapped
  <2> QED BY <1>2, <2>1, <2>3 DEF Doubled, Least, Multiplier
<1> QED BY <1>1, <1>2

(* The loop of the webhook worker's backoff.                               *)
LEMMA WebhookDelay ==
  ASSUME NEW max \in Nat, max < Overflow, NEW initial \in 1..max, NEW n \in Nat
  PROVE  backoff(initial, max, n + 1) = Least(max, initial * PowerOfTwo(n))
<1>0. PICK c : CutDelays(c, initial, max, n)
  BY Zenon, Delays
<1>1. /\ c = [i \in 0..n |-> c[i]] /\ \A i \in 0..n : c[i] \in 0..max
      /\ c[0] = initial /\ \A i \in 1..n : c[i] = Least(max, c[i - 1] * Multiplier)
      /\ c[n] = Least(max, initial * PowerOfTwo(n))
  BY Zenon, <1>0 DEF CutDelays
<1> DEFINE Is(e) == e = [i \in 1..(n + 1) |-> IF i = 1 THEN initial ELSE Doubled(e[i - 1], max)]
           h == [i \in 1..(n + 1) |-> c[i - 1]]
           d == CHOOSE e : Is(e)
<1>2. \A i \in 1..n : c[i] = Doubled(c[i - 1], max)
  <2> SUFFICES ASSUME NEW i \in 1..n PROVE c[i] = Doubled(c[i - 1], max)
    BY Zenon
  <2>1. i - 1 \in 0..n
    OBVIOUS
  <2> QED BY Zenon, <1>1, <2>1, DoubledExactly
<1>3. ASSUME NEW i \in 1..(n + 1), i # 1
      PROVE  i - 1 \in 1..(n + 1) /\ i - 1 \in 1..n /\ 0 \in 0..n /\ 1 \in 1..(n + 1)
  BY <1>3
<1>4. \A i \in 1..(n + 1) : h[i] = c[i - 1]
  BY Zenon
<1>5. Is(h)
  <2>1. h = [i \in 1..(n + 1) |-> h[i]]
    BY Zenon
  <2> HIDE DEF h
  <2>2. ASSUME NEW i \in 1..(n + 1)
        PROVE  h[i] = IF i = 1 THEN initial ELSE Doubled(h[i - 1], max)
    <3>1. CASE i = 1
      <4>1. h[i] = c[0]
        BY <1>4, <3>1
      <4> QED BY Zenon, <1>1, <3>1, <4>1
    <3>2. CASE i # 1
      <4>1. h[i] = c[i - 1] /\ h[i - 1] = c[(i - 1) - 1] /\ c[i - 1] = Doubled(c[(i - 1) - 1], max)
        BY Zenon, <1>2, <1>3, <1>4, <3>2
      <4> QED BY Zenon, <3>2, <4>1
    <3> QED BY Zenon, <3>1, <3>2
  <2> QED BY ZenonT(60), <2>1, <2>2
<1>6. backoff(initial, max, n + 1) = Least(max, d[n + 1])
  BY DEF backoff
<1>7. Is(d)
  BY Zenon, <1>5
<1> HIDE DEF d, h
<1>8. d[1] = initial /\ \A i \in 1..(n + 1) : i # 1 => d[i] = Doubled(d[i - 1], max)
  <2>1. 1 \in 1..(n + 1)
    OBVIOUS
  <2>2. \A i \in 1..(n + 1) : d[i] = IF i = 1 THEN initial ELSE Doubled(d[i - 1], max)
    BY Zenon, <1>7
  <2> QED BY Zenon, <2>1, <2>2
<1>9. d[n + 1] = c[n]
  <2> DEFINE S == {m \in Nat : m <= n => d[m + 1] = c[m]}
  <2>1. 0 \in S
    BY <1>1, <1>8
  <2>2. ASSUME NEW m \in Nat, m \in S PROVE m + 1 \in S
    <3> SUFFICES ASSUME m + 1 <= n PROVE d[(m + 1) + 1] = c[m + 1]
      OBVIOUS
    <3>1. /\ m + 1 \in 1..n /\ (m + 1) - 1 = m /\ d[m + 1] = c[m]
          /\ (m + 1) + 1 \in 1..(n + 1) /\ (m + 1) + 1 # 1 /\ ((m + 1) + 1) - 1 = m + 1
      BY <2>2
    <3>2. d[(m + 1) + 1] = Doubled(c[m], max) /\ c[m + 1] = Doubled(c[m], max)
      BY Zenon, <1>2, <1>8, <3>1
    <3> QED BY Zenon, <3>2
  <2> HIDE DEF S
  <2>3. n \in S
    BY Zenon, <2>1, <2>2, Counting
  <2> QED BY <2>3 DEF S
<1>10. Least(max, c[n]) = c[n]
  <2>1. n \in 0..n
    OBVIOUS
  <2>2. c[n] \in 0..max
    BY Zenon, <1>1, <2>1
  <2> QED BY <2>2 DEF Least
<1> QED BY Zenon, <1>1, <1>6, <1>9, <1>10

(* Every delay is the closed form.                                         *)
LEMMA DelaysAreExact == DelaysExact
<1> SUFFICES ASSUME NEW max \in 1 .. Overflow - 1, NEW initial \in 1 .. max,
                    NEW k \in 1 .. MaxDelays
             PROVE  /\ nextBackoff("fixed", initial, max, k) = initial
                    /\ nextBackoff("linear", initial, max, k) = Least(max, initial * k)
                    /\ nextBackoff("exponential", initial, max, k) =
                         Least(max, initial * PowerOfTwo(k))
                    /\ backoff(initial, max, k) = Least(max, initial * PowerOfTwo(k - 1))
  BY Zenon DEF DelaysExact
<1>1. /\ max \in Nat /\ max < Overflow /\ k \in Nat /\ k - 1 \in Nat /\ (k - 1) + 1 = k
      /\ initial * k = k * initial
  BY RetryAssumption
<1>2. /\ nextBackoff("fixed", initial, max, k) = initial
      /\ nextBackoff("linear", initial, max, k) = Least(max, k * initial)
      /\ nextBackoff("exponential", initial, max, k) = NextBackoff(initial, max, k)
  BY DEF nextBackoff
<1>3. NextBackoff(initial, max, k) = Least(max, initial * PowerOfTwo(k))
  BY Zenon, <1>1, ExponentialDelay
<1>4. backoff(initial, max, (k - 1) + 1) = Least(max, initial * PowerOfTwo(k - 1))
  BY Zenon, <1>1, WebhookDelay
<1> QED BY Zenon, <1>1, <1>2, <1>3, <1>4

(* BackoffExact: whatever attempt a delivery or a task has reached, the     *)
(* delay before the next is the closed form.                                *)
THEOREM BackoffExactHolds == Spec => []BackoffExact
<1>1. BackoffExact
  BY Zenon, DelaysAreExact DEF BackoffExact
<1> QED BY <1>1, PTL
=============================================================================
