--------------------------- MODULE QueueFlowProofs ---------------------------
(***************************************************************************)
(* Machine-checked proofs about QueueFlow, for any number of tasks,        *)
(* workers, goroutine slots, requests and loops, any retry budget and any  *)
(* failures.                                                               *)
(***************************************************************************)
EXTENDS QueueFlow, TLAPS

(* The initial state has its types.                                         *)
LEMMA InitTypeOK == Init => TypeOK
  BY QueueFlowAssumption DEF Init, TypeOK, Idle, NoWork, ProcState, DispState, Hist,
     PC, Ops, DB!Row, DB!Absent, DB!Status, DB!Terminal, MQ!Queues, MQ!Empty,
     RebuildState, Rebuild

(* Every statement yields a row.                                            *)
LEMMA RowTypes ==
  ASSUME NEW r \in DB!Row
  PROVE  /\ \A b \in BOOLEAN : DB!NewTask(b) \in DB!Row
         /\ \A w \in Worker : DB!ClaimForProcessing(r, w) \in DB!Row
         /\ DB!Heartbeat(r) \in DB!Row
         /\ DB!Complete(r) \in DB!Row
         /\ DB!Fail(r) \in DB!Row
         /\ DB!MoveToDeadLetter(r) \in DB!Row
         /\ DB!ReclaimExpired(r) \in DB!Row
         /\ DB!Requeue(r) \in DB!Row
         /\ DB!Cancel(r) \in DB!Row
         /\ DB!SoftDelete(r) \in DB!Row
         /\ DB!MarkDispatched(r) \in DB!Row
  <1> USE DEF DB!Row, DB!Status, DB!Terminal
  <1>1. \A b \in BOOLEAN : DB!NewTask(b) \in DB!Row  BY Zenon DEF DB!NewTask, DB!Absent
  <1>2. \A w \in Worker : DB!ClaimForProcessing(r, w) \in DB!Row
    <2>1. r.attempts + 1 \in Nat  OBVIOUS
    <2> QED  BY Zenon, <2>1 DEF DB!ClaimForProcessing
  <1>3. DB!Heartbeat(r) \in DB!Row  BY Zenon DEF DB!Heartbeat
  <1>4. DB!Complete(r) \in DB!Row  BY Zenon DEF DB!Complete
  <1>5. DB!Fail(r) \in DB!Row  BY Zenon DEF DB!Fail
  <1>6. DB!MoveToDeadLetter(r) \in DB!Row  BY Zenon DEF DB!MoveToDeadLetter
  <1>7. DB!ReclaimExpired(r) \in DB!Row  BY Zenon DEF DB!ReclaimExpired
  <1>8. DB!Requeue(r) \in DB!Row  BY Zenon DEF DB!Requeue
  <1>9. DB!Cancel(r) \in DB!Row  BY Zenon DEF DB!Cancel
  <1>10. DB!SoftDelete(r) \in DB!Row  BY Zenon DEF DB!SoftDelete
  <1>11. DB!MarkDispatched(r) \in DB!Row  BY Zenon DEF DB!MarkDispatched
  <1> QED  BY <1>1, <1>2, <1>3, <1>4, <1>5, <1>6, <1>7, <1>8, <1>9, <1>10, <1>11

(* Every script and pipeline yields sets of tasks.                          *)
LEMMA QueueTypes ==
  ASSUME NEW b \in MQ!Queues, NEW t \in Task, NEW S \in SUBSET Task
  PROVE  /\ MQ!Enqueue(b, t) \in MQ!Queues
         /\ MQ!EnqueueDelayed(b, t) \in MQ!Queues
         /\ MQ!Dequeue(b, t) \in MQ!Queues
         /\ MQ!Ack(b, t) \in MQ!Queues
         /\ MQ!Nack(b, t) \in MQ!Queues
         /\ MQ!PromoteDueDelayed(b, S) \in MQ!Queues
         /\ MQ!MoveToDeadLetter(b, t) \in MQ!Queues
         /\ MQ!Remove(b, t) \in MQ!Queues
  <1> USE DEF MQ!Queues
  <1>1. MQ!Enqueue(b, t) \in MQ!Queues  BY Zenon DEF MQ!Enqueue
  <1>2. MQ!EnqueueDelayed(b, t) \in MQ!Queues  BY Zenon DEF MQ!EnqueueDelayed
  <1>3. MQ!Dequeue(b, t) \in MQ!Queues  BY Zenon DEF MQ!Dequeue
  <1>4. MQ!Ack(b, t) \in MQ!Queues  BY Zenon DEF MQ!Ack
  <1>5. MQ!Nack(b, t) \in MQ!Queues  BY Zenon DEF MQ!Nack
  <1>6. MQ!PromoteDueDelayed(b, S) \in MQ!Queues  BY Zenon DEF MQ!PromoteDueDelayed
  <1>7. MQ!MoveToDeadLetter(b, t) \in MQ!Queues  BY Zenon DEF MQ!MoveToDeadLetter
  <1>8. MQ!Remove(b, t) \in MQ!Queues  BY Zenon DEF MQ!Remove
  <1> QED  BY <1>1, <1>2, <1>3, <1>4, <1>5, <1>6, <1>7, <1>8

(* A goroutine that is not idle has a task.                                 *)
Assigned == \A p \in Proc : proc[p].pc # "idle" => proc[p].task \in Task

(* The failures stay within their bound.                                    *)
LEMMA FaultType == \A k : Fault(k) /\ faults \in 0..MaxFaults => faults' \in 0..MaxFaults
  BY QueueFlowAssumption DEF Fault

(* The Enqueue / MarkDispatched pair keeps the types.                       *)
LEMMA DispatchTypes ==
  ASSUME TypeOK, NEW a \in Agent, DispatchStep(a)
  PROVE  TypeOK'
  <1>1. ASSUME NEW t \in Task, DispatchEnqueue(a, t)  PROVE TypeOK'
    <2>1. Rest(a, t, t) \in DispState /\ Rest(a, t, None) \in DispState
      BY Zenon DEF Rest, TypeOK, DispState, NoWork, Ops
    <2> QED  BY ZenonT(60), <1>1, <2>1, QueueTypes, FaultType DEF DispatchEnqueue, TypeOK
  <1>2. CASE DispatchMark(a)
    <2> DEFINE t == disp[a].cur
    <2>0. t \in Task  BY <1>2 DEF DispatchMark, TypeOK, DispState
    <2>1. Rest(a, t, None) \in DispState
      BY Zenon DEF Rest, TypeOK, DispState, NoWork, Ops
    <2>2. DB!MarkDispatched(row[t]) \in DB!Row  BY <2>0, RowTypes DEF TypeOK
    <2>3. row' \in [Task -> DB!Row]  BY <1>2, <2>0, <2>2 DEF DispatchMark, TypeOK
    <2>4. disp' \in [Agent -> DispState]  BY <1>2, <2>1 DEF DispatchMark, TypeOK
    <2> QED  BY <1>2, <2>3, <2>4, FaultType DEF DispatchMark, TypeOK
  <1>3. CASE Abandon(a)
    <2>1. NoWork \in DispState  BY DEF DispState, NoWork, Ops
    <2> QED  BY <1>3, <2>1, FaultType DEF Abandon, TypeOK
  <1> QED  BY <1>1, <1>2, <1>3 DEF DispatchStep

(* API requests keep the types.                                             *)
LEMMA ClientTypes ==
  ASSUME TypeOK, NEW c \in Client, ClientStep(c)
  PROVE  TypeOK'
  <1>0. c \in Agent  BY DEF Agent
  <1>1. \A op \in Ops : \A S \in SUBSET Task :
          [op |-> op, todo |-> S, cur |-> None] \in DispState
    BY DEF DispState
  <1>2. NoWork \in DispState  BY DEF NoWork, DispState, Ops
  <1>3. ASSUME NEW t \in Task, CreateTask(c, t)  PROVE TypeOK'
    <2>1. row[t] \in DB!Row  BY DEF TypeOK
    <2>2. PICK b \in BOOLEAN :
            /\ row' = [row EXCEPT ![t] = DB!NewTask(b)]
            /\ disp' = [disp EXCEPT ![c] = [op |-> IF b THEN "schedule" ELSE "create",
                                            todo |-> {t}, cur |-> None]]
      BY Zenon, <1>3 DEF CreateTask
    <2>3. row' \in [Task -> DB!Row]  BY Zenon, <2>1, <2>2, RowTypes DEF TypeOK
    <2>4. (IF b THEN "schedule" ELSE "create") \in Ops  BY DEF Ops
    <2>5. disp' \in [Agent -> DispState]  BY <1>0, <1>1, <2>2, <2>4 DEF TypeOK
    <2> QED  BY <1>3, <2>3, <2>5 DEF CreateTask, TypeOK
  <1>4. ASSUME NEW t \in Task, RetryTask(c, t)  PROVE TypeOK'
    <2>1. row[t] \in DB!Row  BY DEF TypeOK
    <2>2. row' \in [Task -> DB!Row]  BY <1>4, <2>1, RowTypes DEF RetryTask, TypeOK
    <2>3. disp' \in [Agent -> DispState]  BY <1>0, <1>1, <1>4 DEF RetryTask, TypeOK, Ops
    <2>4. [hist[t] EXCEPT !.requeues = @ + 1] \in Hist
      <3>1. hist[t] \in Hist  BY DEF TypeOK
      <3>2. hist[t].requeues + 1 \in Nat  BY <3>1 DEF Hist
      <3> QED  BY <3>1, <3>2 DEF Hist
    <2>5. hist' \in [Task -> Hist]  BY <1>4, <2>4 DEF RetryTask, TypeOK
    <2>6. faults' \in 0..MaxFaults
      BY <1>4, FaultType DEF RetryTask, Reschedules, TypeOK
    <2> QED  BY <1>4, <2>2, <2>3, <2>5, <2>6 DEF RetryTask, TypeOK
  <1>5. ASSUME NEW t \in Task, CancelTask(c, t) \/ SoftDeleteTask(c, t)  PROVE TypeOK'
    <2>1. row[t] \in DB!Row  BY DEF TypeOK
    <2>2. row' \in [Task -> DB!Row]
      BY SMTT(30), <1>5, <2>1, RowTypes DEF CancelTask, SoftDeleteTask, TypeOK
    <2>3. disp' \in [Agent -> DispState]
      <3>1. disp' = [disp EXCEPT ![c] = [op |-> "remove", todo |-> {t}, cur |-> None]]
        BY ZenonT(60), <1>5 DEF CancelTask, SoftDeleteTask
      <3>2. [op |-> "remove", todo |-> {t}, cur |-> None] \in DispState  BY <1>1 DEF Ops
      <3> QED  BY <1>0, <3>1, <3>2 DEF TypeOK
    <2> QED  BY <1>5, <2>2, <2>3 DEF CancelTask, SoftDeleteTask, TypeOK
  <1>6. CASE RemoveMessage(c)
    <2>1. disp[c].todo \subseteq Task  BY <1>0 DEF TypeOK, DispState
    <2>2. redis' \in MQ!Queues  BY Zenon, <1>6, <2>1, QueueTypes DEF RemoveMessage, TypeOK
    <2>3. disp' \in [Agent -> DispState]  BY <1>0, <1>2, <1>6 DEF RemoveMessage, TypeOK
    <2>4. faults' \in 0..MaxFaults  BY <1>6, FaultType DEF RemoveMessage, TypeOK
    <2> QED  BY <1>6, <2>2, <2>3, <2>4 DEF RemoveMessage, TypeOK
  <1> QED  BY <1>3, <1>4, <1>5, <1>6 DEF ClientStep

(* The loops keep the types.                                                *)
LEMMA LoopTypes ==
  ASSUME TypeOK, NEW l \in Loop, LoopStep(l)
  PROVE  TypeOK'
  <1>0. l \in Agent  BY DEF Agent
  <1>1. \A S \in SUBSET Task :
          [op |-> "dispatch", todo |-> S, cur |-> None] \in DispState
    BY DEF DispState, Ops
  <1>2. CASE ReclaimScan(l)
    <2>1. PICK S \in SUBSET Task :
            /\ row' = [t \in Task |-> IF t \in S THEN DB!ReclaimExpired(row[t])
                                                 ELSE row[t]]
            /\ disp' = [disp EXCEPT ![l] = [op |-> "dispatch", todo |-> S, cur |-> None]]
            /\ Reschedules(S)
      BY Zenon, <1>2 DEF ReclaimScan
    <2>2. row' \in [Task -> DB!Row]  BY <2>1, RowTypes DEF TypeOK
    <2>3. disp' \in [Agent -> DispState]  BY <1>0, <1>1, <2>1 DEF TypeOK
    <2>4. faults' \in 0..MaxFaults  BY <2>1, FaultType DEF Reschedules, TypeOK
    <2> QED  BY <1>2, <2>2, <2>3, <2>4 DEF ReclaimScan, TypeOK
  <1>3. CASE ReconcileScan(l)
    <2>1. disp' \in [Agent -> DispState]
      BY <1>0, <1>1, <1>3 DEF ReconcileScan, TypeOK
    <2> QED  BY <1>3, <2>1 DEF ReconcileScan, TypeOK
  <1> QED  BY <1>2, <1>3 DEF LoopStep

(* Goroutines keep the types, and have a task while they work.              *)
LEMMA ProcTypes ==
  ASSUME TypeOK, Assigned, NEW p \in Proc, ProcStep(p)
  PROVE  TypeOK' /\ Assigned'
  <1> DEFINE t == proc[p].task
             w == PoolOf[p]
  <1>0. w \in Worker  BY QueueFlowAssumption
  <1>1. proc[p] \in ProcState /\ Idle \in ProcState
    BY DEF TypeOK, Idle, ProcState, PC
  <1>2. \A q \in Proc : proc[q] \in ProcState  BY DEF TypeOK
  <1>3. proc[p].pc # "idle" => t \in Task  BY DEF Assigned
  <1>4. \A u \in Task : row[u] \in DB!Row  BY DEF TypeOK
  <1>5. ASSUME Leave(p), proc[p].pc # "idle"
        PROVE  /\ proc' \in [Proc -> ProcState] /\ Assigned'
               /\ inFlight' \in [Worker -> [Task -> Proc \cup {None}]]
    <2>1. proc' \in [Proc -> ProcState]  BY ZenonT(60), <1>1, <1>5 DEF Leave, TypeOK
    <2>2. Assigned'  BY <1>5 DEF Leave, Assigned, Idle, TypeOK
    <2>3. inFlight' \in [Worker -> [Task -> Proc \cup {None}]]
      BY <1>0, <1>3, <1>5 DEF Leave, TypeOK
    <2> QED  BY <2>1, <2>2, <2>3
  <1>6. ASSUME NEW pc \in PC, Settle(p, pc), proc[p].pc # "idle"
        PROVE  proc' \in [Proc -> ProcState] /\ Assigned'
    <2>1. [proc[p] EXCEPT !.pc = pc, !.attempts = 0, !.current = FALSE] \in ProcState
      BY Zenon, <1>1 DEF ProcState
    <2>2. proc' \in [Proc -> ProcState]  BY <1>6, <2>1 DEF Settle, TypeOK
    <2>3. Assigned'  BY <1>3, <1>6 DEF Settle, Assigned, TypeOK, ProcState
    <2> QED  BY <2>2, <2>3
  <1>7. ASSUME NEW k, Fails(p, k)  PROVE faults' \in 0..MaxFaults
    BY <1>7, FaultType DEF Fails, TypeOK
  <1>8. ASSUME NEW u \in Task, Dequeue(p, u)  PROVE TypeOK' /\ Assigned'
    <2>1. [Idle EXCEPT !.pc = "claim", !.task = u] \in ProcState
      BY Zenon DEF Idle, ProcState, PC
    <2>2. proc' \in [Proc -> ProcState]  BY <1>8, <2>1 DEF Dequeue, TypeOK
    <2>3. Assigned'  BY <1>8 DEF Dequeue, Assigned, Idle, TypeOK
    <2>4. inFlight' \in [Worker -> [Task -> Proc \cup {None}]]
      BY <1>0, <1>8 DEF Dequeue, TypeOK
    <2>5. redis' \in MQ!Queues  BY Zenon, <1>8, QueueTypes DEF Dequeue, TypeOK
    <2> QED  BY <1>8, <2>2, <2>3, <2>4, <2>5 DEF Dequeue, TypeOK
  <1>9. CASE Claim(p)
    <2>0. t \in Task /\ row[t].attempts + 1 \in Nat
      BY <1>3, <1>4, <1>9 DEF Claim, DB!Row
    <2>1. [proc[p] EXCEPT !.pc = "run", !.heartbeat = TRUE,
                          !.attempts = row[t].attempts + 1,
                          !.current = TRUE] \in ProcState
      BY Zenon, <1>1, <2>0 DEF ProcState, PC
    <2>2. \A q \in Proc : [proc[q] EXCEPT !.current = @ /\ proc[q].task # t] \in ProcState
      BY ZenonT(60), <1>2 DEF ProcState
    <2>3. proc' \in [Proc -> ProcState]  BY <1>9, <2>1, <2>2 DEF Claim
    <2>4. Assigned'  BY <1>2, <1>9, <2>0 DEF Claim, Assigned, ProcState
    <2>5. row' \in [Task -> DB!Row]  BY Zenon, <1>0, <1>4, <1>9, <2>0, RowTypes DEF Claim, TypeOK
    <2> QED  BY <1>9, <2>3, <2>4, <2>5 DEF Claim, Succeeds, TypeOK
  <1>10. CASE ClaimFails(p)
    <2>1. [proc[p] EXCEPT !.pc = "release"] \in ProcState  BY <1>1 DEF ProcState, PC
    <2>2. proc' \in [Proc -> ProcState]  BY <1>10, <2>1 DEF ClaimFails, TypeOK
    <2>3. Assigned'  BY <1>2, <1>3, <1>10 DEF ClaimFails, Assigned, TypeOK, ProcState
    <2>4. faults' \in 0..MaxFaults  BY <1>7, <1>10, FaultType DEF ClaimFails, TypeOK
    <2> QED  BY <1>10, <2>2, <2>3, <2>4 DEF ClaimFails, TypeOK
  <1>11. CASE AckMessage(p)
    <2>1. redis' \in MQ!Queues  BY Zenon, <1>3, <1>11, QueueTypes DEF AckMessage, TypeOK
    <2>2. faults' \in 0..MaxFaults  BY <1>7, <1>11 DEF AckMessage, Succeeds, TypeOK
    <2> QED  BY <1>5, <1>11, <2>1, <2>2 DEF AckMessage, TypeOK
  <1>12. CASE ExecuteSucceeds(p)
    <2>1. row' \in [Task -> DB!Row]
      BY ZenonT(60), <1>3, <1>4, <1>12, RowTypes DEF ExecuteSucceeds, TypeOK
    <2>2. proc' \in [Proc -> ProcState] /\ Assigned'
      BY <1>6, <1>12 DEF ExecuteSucceeds, PC
    <2> QED  BY <1>12, <2>1, <2>2 DEF ExecuteSucceeds, Succeeds, TypeOK
  <1>13. CASE ExecuteFails(p)
    <2>1. row' \in [Task -> DB!Row]
      BY SMTT(30), <1>3, <1>4, <1>13, RowTypes DEF ExecuteFails, TypeOK
    <2>2. proc' \in [Proc -> ProcState] /\ Assigned'
      BY <1>6, <1>13 DEF ExecuteFails, PC
    <2>3. faults' \in 0..MaxFaults
      BY <1>13, FaultType DEF ExecuteFails, Reschedules, TypeOK
    <2> QED  BY <1>13, <2>1, <2>2, <2>3 DEF ExecuteFails, TypeOK
  <1>14. CASE OutcomeLost(p)
    <2>1. faults' \in 0..MaxFaults  BY <1>7, <1>14 DEF OutcomeLost, TypeOK
    <2> QED  BY <1>5, <1>14, <2>1 DEF OutcomeLost, TypeOK
  <1>15. CASE NackMessage(p)
    <2>1. redis' \in MQ!Queues  BY Zenon, <1>3, <1>15, QueueTypes DEF NackMessage, TypeOK
    <2>2. faults' \in 0..MaxFaults  BY <1>7, <1>15 DEF NackMessage, Succeeds, TypeOK
    <2>3. [proc[p] EXCEPT !.pc = "mark"] \in ProcState  BY <1>1 DEF ProcState, PC
    <2>4. /\ proc' \in [Proc -> ProcState] /\ Assigned'
          /\ inFlight' \in [Worker -> [Task -> Proc \cup {None}]]
      <3>1. CASE Leave(p)  BY <1>5, <1>15, <3>1 DEF NackMessage
      <3>2. CASE proc' = [proc EXCEPT ![p].pc = "mark"] /\ UNCHANGED inFlight
        <4>1. proc' \in [Proc -> ProcState]  BY <2>3, <3>2 DEF TypeOK
        <4>2. Assigned'  BY ZenonT(60), <1>2, <1>3, <1>15, <3>2 DEF NackMessage, Assigned, TypeOK, ProcState
        <4> QED  BY <3>2, <4>1, <4>2 DEF TypeOK
      <3> QED  BY <1>15, <3>1, <3>2 DEF NackMessage
    <2> QED  BY <1>15, <2>1, <2>2, <2>4 DEF NackMessage, TypeOK
  <1>16. CASE MarkRetry(p)
    <2>1. row' \in [Task -> DB!Row]
      BY <1>3, <1>4, <1>16, RowTypes DEF MarkRetry, TypeOK
    <2>2. faults' \in 0..MaxFaults  BY <1>7, <1>16 DEF MarkRetry, Succeeds, TypeOK
    <2> QED  BY ZenonT(60), <1>5, <1>16, <2>1, <2>2 DEF MarkRetry, TypeOK
  <1>17. CASE BuryMessage(p)
    <2>1. redis' \in MQ!Queues  BY Zenon, <1>3, <1>17, QueueTypes DEF BuryMessage, TypeOK
    <2>2. faults' \in 0..MaxFaults  BY <1>7, <1>17 DEF BuryMessage, Succeeds, TypeOK
    <2> QED  BY <1>5, <1>17, <2>1, <2>2 DEF BuryMessage, TypeOK
  <1>18. CASE HeartbeatRenews(p)
    <2>0. t \in Task  BY <1>3, <1>18 DEF HeartbeatRenews, Beating, Claimed
    <2>1. row' \in [Task -> DB!Row]
      BY <1>4, <1>18, <2>0, RowTypes DEF HeartbeatRenews, TypeOK
    <2> QED  BY <1>18, <2>1 DEF HeartbeatRenews, Assigned, TypeOK
  <1>19. CASE HeartbeatLost(p)
    <2> DEFINE victim == inFlight[PoolOf[p]][t]
    <2>1. \A q \in Proc : [proc[q] EXCEPT !.heartbeat = @ /\ q # p,
                                          !.cancelled = @ \/ q = victim] \in ProcState
      BY ZenonT(30), <1>2 DEF ProcState
    <2>2. proc' \in [Proc -> ProcState]  BY Zenon, <1>19, <2>1 DEF HeartbeatLost
    <2>3. Assigned'  BY ZenonT(30), <1>2, <1>19 DEF HeartbeatLost, Assigned, ProcState
    <2>4. faults' \in 0..MaxFaults  BY Zenon, <1>19, FaultType DEF HeartbeatLost, TypeOK
    <2> QED  BY Zenon, <1>19, <2>2, <2>3, <2>4 DEF HeartbeatLost, TypeOK
  <1>20. CASE HeartbeatLingers(p)
    <2>0. t \in Task /\ lingering[w][t] + 1 \in Nat
      BY <1>0, <1>3, <1>20 DEF HeartbeatLingers, Claimed, TypeOK
    <2>1. [proc[p] EXCEPT !.heartbeat = FALSE] \in ProcState  BY ZenonT(60), <1>1 DEF ProcState
    <2>2. proc' \in [Proc -> ProcState]  BY ZenonT(60), <1>20, <2>1 DEF HeartbeatLingers, TypeOK
    <2>3. Assigned'  BY ZenonT(60), <1>2, <1>20 DEF HeartbeatLingers, Assigned, TypeOK, ProcState
    <2>4. faults' \in 0..MaxFaults  BY ZenonT(60), <1>20, FaultType DEF HeartbeatLingers, TypeOK
    <2>5. lingering' \in [Worker -> [Task -> Nat]]
      BY ZenonT(60), <1>0, <1>20, <2>0 DEF HeartbeatLingers, TypeOK
    <2> QED  BY ZenonT(60), <1>20, <2>2, <2>3, <2>4, <2>5 DEF HeartbeatLingers, TypeOK
  <1> QED  BY <1>8, <1>9, <1>10, <1>11, <1>12, <1>13, <1>14, <1>15, <1>16, <1>17,
              <1>18, <1>19, <1>20 DEF ProcStep

(* Drains, crashes and restarts keep the types.                             *)
LEMMA PoolTypes ==
  ASSUME TypeOK, Assigned, NEW w \in Worker, PoolStep(w)
  PROVE  TypeOK' /\ Assigned'
  <1>1. \A q \in Proc : proc[q] \in ProcState  BY DEF TypeOK
  <1>2. CASE Drain(w)
    BY <1>2, FaultType DEF Drain, TypeOK, Assigned
  <1>3. CASE ForceCancel(w)
    <2>1. \A q \in Proc : \A b \in BOOLEAN : [proc[q] EXCEPT !.cancelled = b] \in ProcState
      BY <1>1 DEF ProcState
    <2>2. proc' = [q \in Proc |-> [proc[q] EXCEPT !.cancelled =
                     proc[q].cancelled \/ (q \in Slots(w) /\ \E t \in Task : inFlight[w][t] = q)]]
      BY <1>3 DEF ForceCancel
    <2>3. \A q \in Proc : proc[q].cancelled \in BOOLEAN  BY <1>1 DEF ProcState
    <2>4. proc' \in [Proc -> ProcState]  BY Zenon, <2>1, <2>2, <2>3
    <2>5. Assigned'  BY <1>1, <2>2 DEF Assigned, ProcState
    <2>6. faults' \in 0..MaxFaults  BY <1>3, FaultType DEF ForceCancel, TypeOK
    <2> QED  BY <1>3, <2>4, <2>5, <2>6 DEF ForceCancel, TypeOK
  <1>4. CASE Restart(w)
    <2>1. lingering' \in [Worker -> [Task -> Nat]]  BY <1>4 DEF Restart, TypeOK
    <2> QED  BY <1>4, <2>1 DEF Restart, TypeOK, Assigned
  <1>5. CASE Crash(w)
    <2>1. Idle \in ProcState  BY ZenonT(60) DEF Idle, ProcState, PC
    <2>2. proc' \in [Proc -> ProcState]  BY ZenonT(60), <1>1, <1>5, <2>1 DEF Crash
    <2>3. Assigned'  BY <1>5 DEF Crash, Assigned, Idle
    <2>4. inFlight' \in [Worker -> [Task -> Proc \cup {None}]]  BY <1>5 DEF Crash, TypeOK
    <2>5. faults' \in 0..MaxFaults  BY <1>5, FaultType DEF Crash, TypeOK
    <2>6. lingering' \in [Worker -> [Task -> Nat]]  BY <1>5 DEF Crash, TypeOK
    <2> QED  BY <1>5, <2>2, <2>3, <2>4, <2>5, <2>6 DEF Crash, TypeOK
  <1> QED  BY <1>2, <1>3, <1>4, <1>5 DEF PoolStep

(* The loops that outlive their goroutine keep the types.                   *)
LEMMA LateTypes ==
  ASSUME TypeOK, Assigned, NEW w \in Worker, NEW t \in Task, LateHeartbeat(w, t)
  PROVE  TypeOK' /\ Assigned'
  <1>1. \A q \in Proc : proc[q] \in ProcState  BY DEF TypeOK
  <1>2. row[t] \in DB!Row  BY DEF TypeOK
  <1>3. row' \in [Task -> DB!Row]  BY ZenonT(60), <1>2, RowTypes DEF LateHeartbeat, TypeOK
  <1>4. \A q \in Proc : [proc[q] EXCEPT !.cancelled = @ \/ q = inFlight[w][t]] \in ProcState
    BY ZenonT(60), <1>1 DEF ProcState
  <1>5. proc' \in [Proc -> ProcState]  BY Zenon, <1>4 DEF LateHeartbeat
  <1>6. Assigned'  BY ZenonT(60), <1>1 DEF LateHeartbeat, Assigned, ProcState
  <1>7. lingering' \in [Worker -> [Task -> Nat]]
    <2>1. lingering[w][t] \in Nat /\ lingering[w][t] > 0  BY DEF LateHeartbeat, TypeOK
    <2>2. lingering[w][t] - 1 \in Nat  BY <2>1
    <2> QED  BY ZenonT(60), <2>2 DEF LateHeartbeat, TypeOK
  <1> QED  BY ZenonT(60), <1>3, <1>5, <1>6, <1>7 DEF LateHeartbeat, TypeOK

(* Time keeps the types.                                                    *)
LEMMA ElapseTypes ==
  ASSUME TypeOK, Assigned, NEW t \in Task, Elapse(t)
  PROVE  TypeOK' /\ Assigned'
  <1>2. [row[t] EXCEPT !.due = TRUE] \in DB!Row
    <2>1. row[t] \in DB!Row  BY DEF TypeOK
    <2> QED  BY Zenon, <2>1 DEF DB!Row
  <1>3. row' \in [Task -> DB!Row]  BY <1>2 DEF Elapse, TypeOK
  <1>4. faults' \in 0..MaxFaults  BY FaultType DEF Elapse, TypeOK
  <1>5. CASE row[t].status = "processing"
    <2>1. hist' = [hist EXCEPT ![t].lapsed = TRUE]  BY <1>5 DEF Elapse
    <2>2. [hist[t] EXCEPT !.lapsed = TRUE] \in Hist  BY Zenon DEF TypeOK, Hist
    <2>3. hist' \in [Task -> Hist]  BY <2>1, <2>2 DEF TypeOK
    <2> QED  BY <1>3, <1>4, <2>3 DEF Elapse, TypeOK, Assigned
  <1>6. CASE row[t].status # "processing"
    BY <1>3, <1>4, <1>6 DEF Elapse, TypeOK, Assigned
  <1> QED  BY <1>5, <1>6

(* The loss of Redis and the rebuild keep the types.                        *)
LEMMA RebuildTypes ==
  ASSUME TypeOK, FlushRedis \/ RebuildStep
  PROVE  TypeOK'
  <1>1. \A pc \in {"idle", "flushed", "stopping"} : Rebuild(pc) \in RebuildState
    BY DEF Rebuild, RebuildState
  <1>2. /\ rebuild.todo \subseteq Task /\ rebuild.later \subseteq Task
        /\ rebuild \in RebuildState
    BY DEF TypeOK, RebuildState
  <1>3. rebuild.pc \in {"refill", "mark"} => rebuild.cur \in Task
    BY DEF TypeOK, RebuildState
  <1>4. CASE FlushRedis
    <2>1. redis' \in MQ!Queues  BY <1>4 DEF FlushRedis, MQ!Empty, MQ!Queues
    <2> QED  BY Zenon, <1>1, <1>4, <2>1, FaultType DEF FlushRedis, TypeOK
  <1>5. CASE StopWorkers
    <2>1. mode' \in [Worker -> {"up", "draining", "forced"}]  BY <1>5 DEF StopWorkers, TypeOK
    <2> QED  BY Zenon, <1>1, <1>5, <2>1 DEF StopWorkers, TypeOK
  <1>6. CASE RebuildScan
    <2>1. \A S \in SUBSET Task : [pc |-> "clear", todo |-> S, cur |-> None,
                                  later |-> {t \in S : ~row[t].due}] \in RebuildState
      BY ZenonT(60) DEF RebuildState
    <2>2. rebuild' \in RebuildState  BY <1>1, <1>6, <2>1 DEF RebuildScan
    <2> QED  BY Zenon, <1>6, <2>2 DEF RebuildScan, TypeOK
  <1>7. ASSUME NEW t \in Task, RebuildRemove(t)  PROVE TypeOK'
    <2>1. redis' \in MQ!Queues  BY Zenon, <1>7, QueueTypes DEF RebuildRemove, TypeOK
    <2>2. rebuild' = [pc |-> "refill", todo |-> rebuild.todo \ {t},
                      later |-> rebuild.later, cur |-> t]
      BY ZenonT(60), <1>2, <1>7 DEF RebuildRemove, RebuildState
    <2>3. rebuild' \in RebuildState
      BY <1>2, <2>2, QueueFlowAssumption DEF RebuildState
    <2> QED  BY Zenon, <1>7, <2>1, <2>3 DEF RebuildRemove, TypeOK
  <1>8. CASE RebuildEnqueue
    <2>1. redis' \in MQ!Queues  BY Zenon, <1>3, <1>8, QueueTypes DEF RebuildEnqueue, TypeOK
    <2>2. rebuild' \in RebuildState  BY <1>2, <1>8 DEF RebuildEnqueue, RebuildState
    <2> QED  BY Zenon, <1>8, <2>1, <2>2 DEF RebuildEnqueue, TypeOK
  <1>9. CASE RebuildMark
    <2>1. rebuild.cur \in Task  BY <1>3, <1>9 DEF RebuildMark
    <2>2. DB!MarkDispatched(row[rebuild.cur]) \in DB!Row  BY <2>1, RowTypes DEF TypeOK
    <2>3. row' \in [Task -> DB!Row]  BY <1>9, <2>1, <2>2 DEF RebuildMark, TypeOK
    <2>4. [rebuild EXCEPT !.pc = "clear", !.cur = None] \in RebuildState
      BY ZenonT(60), <1>2 DEF RebuildState
    <2>5. rebuild' \in RebuildState  BY Zenon, <1>1, <1>9, <2>4 DEF RebuildMark
    <2> QED  BY Zenon, <1>9, <2>3, <2>5 DEF RebuildMark, TypeOK
  <1>10. CASE RebuildFails
    <2>1. faults' \in 0..MaxFaults  BY <1>10, FaultType DEF RebuildFails, TypeOK
    <2> QED  BY Zenon, <1>1, <1>10, <2>1 DEF RebuildFails, TypeOK
  <1> QED  BY <1>4, <1>5, <1>6, <1>7, <1>8, <1>9, <1>10 DEF RebuildStep

(* The rebuild touches no goroutine.                                        *)
LEMMA RebuildFrame ==
  FlushRedis \/ RebuildStep => UNCHANGED <<proc, hist>>
  BY Zenon DEF FlushRedis, RebuildStep, StopWorkers, RebuildScan, RebuildRemove,
     RebuildEnqueue, RebuildMark, RebuildFails

(* Every step of the system keeps the types.                                *)
LEMMA TypeStep == TypeOK /\ Assigned /\ [Next]_vars => TypeOK' /\ Assigned'
  <1> SUFFICES ASSUME TypeOK, Assigned, [Next]_vars  PROVE TypeOK' /\ Assigned'
    OBVIOUS
  <1>1. ASSUME UNCHANGED proc  PROVE Assigned'  BY <1>1 DEF Assigned
  <1>2. ASSUME NEW c \in Client, ClientStep(c)  PROVE TypeOK' /\ Assigned'
    BY ZenonT(30), <1>1, <1>2, ClientTypes
    DEF ClientStep, CreateTask, RetryTask, CancelTask, SoftDeleteTask, RemoveMessage
  <1>3. ASSUME NEW l \in Loop, LoopStep(l)  PROVE TypeOK' /\ Assigned'
    BY SMTT(30), <1>1, <1>3, LoopTypes DEF LoopStep, ReclaimScan, ReconcileScan
  <1>4. ASSUME NEW a \in Agent, DispatchStep(a)  PROVE TypeOK' /\ Assigned'
    BY ZenonT(60), <1>1, <1>4, DispatchTypes DEF DispatchStep, DispatchEnqueue, DispatchMark, Abandon
  <1>5. CASE PromoteDelayed
    <2>1. redis' \in MQ!Queues
      <3>1. PICK S \in SUBSET redis.delayed : S # {} /\ redis' = MQ!PromoteDueDelayed(redis, S)
        BY ZenonT(60), <1>5 DEF PromoteDelayed
      <3>2. redis \in MQ!Queues  BY ZenonT(60) DEF TypeOK
      <3>3. S \in SUBSET Task /\ \E t \in Task : t \in S  BY ZenonT(60), <3>1, <3>2 DEF MQ!Queues
      <3>4. MQ!PromoteDueDelayed(redis, S) \in MQ!Queues  BY ZenonT(60), <3>2, <3>3, QueueTypes
      <3> QED  BY ZenonT(60), <3>1, <3>4
    <2>2. faults' \in 0..MaxFaults  BY <1>5, FaultType DEF PromoteDelayed, TypeOK
    <2> QED  BY ZenonT(60), <1>1, <1>5, <2>1, <2>2 DEF PromoteDelayed, TypeOK
  <1>6. CASE UNCHANGED vars  BY <1>6 DEF vars, TypeOK, Assigned
  <1>7. CASE FlushRedis \/ RebuildStep  BY <1>1, <1>7, RebuildTypes, RebuildFrame
  <1> QED
    BY <1>2, <1>3, <1>4, <1>5, <1>6, <1>7, ProcTypes, PoolTypes, LateTypes, ElapseTypes DEF Next

(* In every state the tasks table, the Redis sets and the local state of    *)
(* every goroutine, request and loop have the values their types allow.     *)
THEOREM TypeCorrect == Spec => []TypeOK
  <1>1. Init => TypeOK /\ Assigned  BY InitTypeOK DEF Init, Assigned, Idle
  <1> QED  BY <1>1, TypeStep, PTL DEF Spec
-----------------------------------------------------------------------------
(* The strengthening that makes LeaseExclusion, RetryBudget and             *)
(* RowConsistent inductive.  While no lease on t has lapsed, a processing   *)
(* row is not claimable, so the goroutine that claimed it stays the only    *)
(* one executing and its copy of attempts stays exact.                      *)
Steady(t) ==
  /\ row[t].owner # None <=> row[t].status = "processing"
  /\ row[t].deleted => row[t].status \in DB!Terminal
  /\ row[t].status = "absent" => row[t].attempts = 0
  /\ ~hist[t].lapsed =>
       /\ row[t].attempts <= MaxAttempts
       /\ row[t].status = "pending" => row[t].attempts < MaxAttempts
       /\ row[t].status = "dead_letter" => row[t].attempts = MaxAttempts
       /\ row[t].status = "processing" => ~row[t].due
       /\ \A p \in Proc : Executing(p, t) =>
            row[t].status = "processing" /\ proc[p].attempts = row[t].attempts
       /\ \A p, q \in Proc : Executing(p, t) /\ Executing(q, t) => p = q

IInv == TypeOK /\ Assigned /\ \A t \in Task : Steady(t)

(* No goroutine starts executing t and none changes its copy of attempts.   *)
NoStart(t) == \A p \in Proc :
  Executing(p, t)' => Executing(p, t) /\ proc'[p].attempts = proc[p].attempts

(* A step that neither touches the row nor starts an execution.             *)
LEMMA Frame ==
  ASSUME NEW t \in Task, Steady(t), NoStart(t), row'[t] = row[t],
         hist'[t].lapsed = hist[t].lapsed
  PROVE  Steady(t)'
  BY ZenonT(30) DEF Steady, NoStart, Executing

(* The statements that end a claim or move a row nobody executes.           *)
LEMMA Released ==
  ASSUME NEW t \in Task, Steady(t), hist'[t].lapsed = hist[t].lapsed,
         row'[t].owner = None, row'[t].status \notin {"processing", "absent"},
         row'[t].deleted => row'[t].status \in DB!Terminal,
         ~hist[t].lapsed =>
           /\ row'[t].attempts <= MaxAttempts
           /\ row'[t].status = "pending" => row'[t].attempts < MaxAttempts
           /\ row'[t].status = "dead_letter" => row'[t].attempts = MaxAttempts
           /\ \A p \in Proc : ~Executing(p, t)'
  PROVE  Steady(t)'
  BY DEF Steady

(* The budget is a positive number.                                         *)
LEMMA Budget == MaxAttempts \in Nat /\ 0 < MaxAttempts /\ 0 <= MaxAttempts
  BY QueueFlowAssumption

(* Nobody executes a row that is not processing, unless a lease lapsed.     *)
LEMMA Vacant ==
  ASSUME NEW t \in Task, Steady(t), row[t].status # "processing", ~hist[t].lapsed
  PROVE  \A p \in Proc : ~Executing(p, t)
  BY ZenonT(30) DEF Steady

(* Requests.                                                                *)
LEMMA ClientSteady ==
  ASSUME IInv, NEW c \in Client, ClientStep(c), NEW t \in Task
  PROVE  Steady(t)'
  <1>0. Steady(t) /\ row \in [Task -> DB!Row] /\ row[t] \in DB!Row  BY DEF IInv, TypeOK
  <1>1. UNCHANGED proc
    BY ZenonT(30) DEF ClientStep, CreateTask, RetryTask, CancelTask, SoftDeleteTask, RemoveMessage
  <1>2. NoStart(t) /\ \A p \in Proc : Executing(p, t)' <=> Executing(p, t)
    BY ZenonT(60), <1>1 DEF NoStart, Executing
  <1>3. hist'[t].lapsed = hist[t].lapsed
    <2>1. hist \in [Task -> Hist] /\ hist[t] \in Hist  BY DEF IInv, TypeOK
    <2>2. ASSUME NEW u \in Task, RetryTask(c, u)  PROVE hist'[t].lapsed = hist[t].lapsed
      BY ZenonT(60), <2>1, <2>2 DEF RetryTask, Hist
    <2> QED
      BY <2>2 DEF ClientStep, CreateTask, CancelTask, SoftDeleteTask, RemoveMessage
  <1>4. CASE row'[t] = row[t]  BY ZenonT(60), <1>0, <1>2, <1>3, <1>4, Frame
  <1>5. CASE CreateTask(c, t)
    <2>1. PICK b \in BOOLEAN : row'[t] = DB!NewTask(b)  BY <1>0, <1>5 DEF CreateTask
    <2>2. /\ row'[t].status = "pending" /\ row'[t].attempts = 0
          /\ row'[t].owner = None /\ ~row'[t].deleted
      BY <2>1 DEF DB!NewTask, DB!Absent
    <2>3. row[t].status = "absent"  BY <1>5 DEF CreateTask
    <2>4. ~hist[t].lapsed => \A p \in Proc : ~Executing(p, t)'
      BY <1>0, <1>2, <2>3, Vacant
    <2>5. row'[t].attempts < MaxAttempts  BY Zenon, <2>2, Budget
    <2>6. row'[t].attempts <= MaxAttempts  BY ZenonT(60), <2>2, Budget
    <2> QED  BY ZenonT(60), <1>0, <1>3, <2>2, <2>4, <2>5, <2>6, Released
  <1>6. CASE RetryTask(c, t)
    <2>1. row'[t] = DB!Requeue(row[t]) /\ DB!CanRequeue(row[t])
      BY <1>0, <1>6 DEF RetryTask
    <2>2. /\ row'[t].status = "pending" /\ row'[t].attempts = 0
          /\ row'[t].owner = None /\ ~row'[t].deleted /\ row[t].status # "processing"
      BY ZenonT(30), <1>0, <2>1 DEF DB!Requeue, DB!CanRequeue, DB!Row
    <2>3. ~hist[t].lapsed => \A p \in Proc : ~Executing(p, t)'
      BY <1>0, <1>2, <2>2, Vacant
    <2>4. row'[t].attempts < MaxAttempts  BY Zenon, <2>2, Budget
    <2>5. row'[t].attempts <= MaxAttempts  BY ZenonT(60), <2>2, Budget
    <2> QED  BY <1>0, <1>3, <2>2, <2>3, <2>4, <2>5, Released
  <1>7. CASE CancelTask(c, t)
    <2>1. row'[t] = DB!Cancel(row[t]) /\ DB!CanCancel(row[t])
      BY <1>0, <1>7 DEF CancelTask
    <2>2. /\ row'[t].status = "cancelled" /\ row'[t].attempts = row[t].attempts
          /\ row'[t].owner = None /\ ~row'[t].deleted /\ row[t].status = "pending"
      BY ZenonT(30), <1>0, <2>1 DEF DB!Cancel, DB!CanCancel, DB!Row
    <2>3. ~hist[t].lapsed => \A p \in Proc : ~Executing(p, t)'
      BY ZenonT(30), <1>0, <1>2, <2>2, Vacant
    <2>4. ~hist[t].lapsed => row'[t].attempts <= MaxAttempts  BY ZenonT(30), <1>0, <2>2 DEF Steady
    <2> QED  BY ZenonT(60), <1>0, <1>3, <2>2, <2>3, <2>4, Released
  <1>8. CASE SoftDeleteTask(c, t)
    <2>1. row'[t] = DB!SoftDelete(row[t]) /\ DB!CanSoftDelete(row[t])
      BY <1>0, <1>8 DEF SoftDeleteTask
    <2>2. /\ row'[t].status = row[t].status /\ row'[t].attempts = row[t].attempts
          /\ row'[t].owner = row[t].owner /\ row[t].status \in DB!Terminal
      BY <1>0, <2>1 DEF DB!SoftDelete, DB!CanSoftDelete, DB!IsTerminal, DB!Row
    <2>3. row[t].status \notin {"processing", "absent"}  BY <2>2 DEF DB!Terminal
    <2>4. ~hist[t].lapsed => \A p \in Proc : ~Executing(p, t)'
      BY ZenonT(30), <1>0, <1>2, <2>3, Vacant
    <2>5. row'[t].owner = None  BY ZenonT(30), <1>0, <2>2, <2>3 DEF Steady
    <2>6. ~hist[t].lapsed =>
            /\ row'[t].attempts <= MaxAttempts
            /\ row'[t].status = "pending" => row'[t].attempts < MaxAttempts
            /\ row'[t].status = "dead_letter" => row'[t].attempts = MaxAttempts
      BY ZenonT(30), <1>0, <2>2 DEF Steady
    <2> QED  BY <1>0, <1>3, <2>2, <2>3, <2>4, <2>5, <2>6, Released
  <1> QED
    <2>1. ASSUME NEW u \in Task, u # t,
                 CreateTask(c, u) \/ RetryTask(c, u) \/ CancelTask(c, u) \/ SoftDeleteTask(c, u)
          PROVE  row'[t] = row[t]
      BY <1>0, <2>1 DEF CreateTask, RetryTask, CancelTask, SoftDeleteTask
    <2>2. RemoveMessage(c) => row'[t] = row[t]  BY DEF RemoveMessage
    <2> QED  BY ZenonT(60), <1>4, <1>5, <1>6, <1>7, <1>8, <2>1, <2>2 DEF ClientStep

(* Loops, and the dispatching that requests and loops share.                *)
LEMMA LoopSteady ==
  ASSUME IInv, NEW l \in Loop, LoopStep(l), NEW t \in Task
  PROVE  Steady(t)'
  <1>0. Steady(t) /\ row[t] \in DB!Row  BY DEF IInv, TypeOK
  <1>1. UNCHANGED <<proc, hist>>  BY ZenonT(60) DEF LoopStep, ReclaimScan, ReconcileScan
  <1>2. NoStart(t)  BY <1>1 DEF NoStart, Executing
  <1>3. CASE row'[t] = row[t]  BY ZenonT(30), <1>0, <1>1, <1>2, <1>3, Frame
  <1>4. CASE row'[t] = DB!ReclaimExpired(row[t]) /\ DB!CanReclaim(row[t])
    <2>1. /\ row'[t].status = "pending" /\ row'[t].owner = None
          /\ row'[t].deleted = row[t].deleted
          /\ row[t].status = "processing" /\ row[t].due
      BY ZenonT(30), <1>0, <1>4 DEF DB!ReclaimExpired, DB!CanReclaim, DB!Row
    <2>2. hist[t].lapsed /\ ~row[t].deleted  BY ZenonT(30), <1>0, <2>1 DEF Steady, DB!Terminal
    <2> QED  BY <1>0, <1>1, <2>1, <2>2, Released
  <1> QED  BY <1>3, <1>4 DEF LoopStep, ReclaimScan, ReconcileScan

(* MarkDispatched keeps the invariant.                                      *)
LEMMA MarkSteady ==
  ASSUME NEW t \in Task, row[t] \in DB!Row, Steady(t), NoStart(t),
         hist'[t].lapsed = hist[t].lapsed,
         row'[t] = DB!MarkDispatched(row[t])
  PROVE  Steady(t)'
  <1>1. /\ row'[t].status = row[t].status /\ row'[t].owner = row[t].owner
        /\ row'[t].deleted = row[t].deleted /\ row'[t].attempts = row[t].attempts
        /\ row'[t].due = row[t].due
    BY ZenonT(30) DEF DB!MarkDispatched, DB!Row
  <1> QED  BY ZenonT(60), <1>1 DEF Steady, NoStart, Executing

(* The Enqueue / MarkDispatched pair keeps the invariant.                   *)
LEMMA DispatchSteady ==
  ASSUME IInv, NEW a \in Agent, DispatchStep(a), NEW t \in Task
  PROVE  Steady(t)'
  <1>0. Steady(t) /\ row[t] \in DB!Row /\ row \in [Task -> DB!Row]  BY ZenonT(30) DEF IInv, TypeOK
  <1>1. UNCHANGED <<proc, hist>>
    BY ZenonT(60) DEF DispatchStep, DispatchEnqueue, DispatchMark, Abandon
  <1>2. NoStart(t)  BY ZenonT(30), <1>1 DEF NoStart, Executing
  <1>3. row'[t] = row[t] \/ row'[t] = DB!MarkDispatched(row[t])
    BY ZenonT(60), <1>0 DEF DispatchStep, DispatchEnqueue, DispatchMark, Abandon
  <1> QED  BY <1>0, <1>1, <1>2, <1>3, Frame, MarkSteady

(* Goroutines.                                                              *)
LEMMA ClaimSteady ==
  ASSUME IInv, NEW p \in Proc, Claim(p), NEW t \in Task
  PROVE  Steady(t)'
  <1>0. /\ Steady(t) /\ row[t] \in DB!Row /\ row \in [Task -> DB!Row]
        /\ \A q \in Proc : proc[q] \in ProcState
    BY DEF IInv, TypeOK
  <1>1. PoolOf[p] \in Worker /\ PoolOf[p] # None  BY QueueFlowAssumption
  <1>2. \A q \in Proc \ {p} : /\ proc'[q].pc = proc[q].pc
                             /\ proc'[q].task = proc[q].task
                             /\ proc'[q].attempts = proc[q].attempts
    BY <1>0 DEF Claim, ProcState
  <1>3. /\ proc'[p].task = proc[p].task /\ proc[p].pc = "claim"
        /\ proc'[p].attempts = row[proc[p].task].attempts + 1
    BY ZenonT(30), <1>0 DEF Claim, ProcState
  <1>4. hist' = hist  BY ZenonT(60) DEF Claim
  <1>5. CASE proc[p].task # t
    <2>1. row'[t] = row[t]  BY ZenonT(60), <1>0, <1>5 DEF Claim
    <2>2. NoStart(t)  BY SMTT(30), <1>2, <1>3, <1>5 DEF NoStart, Executing
    <2> QED  BY <1>0, <1>4, <2>1, <2>2, Frame
  <1>6. CASE proc[p].task = t
    <2>1. row'[t] = DB!ClaimForProcessing(row[t], PoolOf[p]) /\ DB!CanClaim(row[t])
      BY <1>0, <1>6 DEF Claim
    <2>2. /\ row'[t].status = "processing" /\ row'[t].owner = PoolOf[p]
          /\ row'[t].attempts = row[t].attempts + 1 /\ ~row'[t].due
          /\ ~row'[t].deleted
          /\ row[t].due /\ row[t].status \in {"pending", "processing"}
      BY <1>0, <2>1 DEF DB!ClaimForProcessing, DB!CanClaim, DB!Row
    <2>3. row[t].attempts \in Nat  BY ZenonT(30), <1>0 DEF DB!Row
    <2>4. ASSUME ~hist[t].lapsed
          PROVE  row[t].status = "pending" /\ \A q \in Proc : ~Executing(q, t)
      BY ZenonT(30), <1>0, <2>2, <2>4 DEF Steady
    <2>5. ASSUME ~hist[t].lapsed
          PROVE  /\ row'[t].attempts <= MaxAttempts
                 /\ \A q \in Proc : Executing(q, t)' => q = p
      <3>1. row[t].attempts < MaxAttempts
        BY Zenon, <1>0, <2>4, <2>5 DEF Steady
      <3>2. row[t].attempts + 1 <= MaxAttempts
        BY SMT, <2>3, <3>1, Budget
      <3>3. row'[t].attempts <= MaxAttempts
        BY Zenon, <2>2, <3>2
      <3>4. ASSUME NEW q \in Proc, Executing(q, t)', q # p  PROVE FALSE
        <4>1. Executing(q, t)
          BY Zenon, <1>2, <3>4 DEF Executing
        <4> QED  BY Zenon, <2>4, <2>5, <4>1
      <3> QED  BY Zenon, <3>3, <3>4
    <2> QED  BY ZenonT(60), <1>1, <1>3, <1>4, <1>6, <2>2, <2>5 DEF Steady, Executing
  <1> QED  BY <1>5, <1>6

(* The outcome of an execution keeps the invariant: the attempts that       *)
(* handleFailure decides on are those of the row.                           *)
LEMMA SettleSteady ==
  ASSUME IInv, NEW p \in Proc, ExecuteSucceeds(p) \/ ExecuteFails(p), NEW t \in Task
  PROVE  Steady(t)'
  <1>0. /\ Steady(t) /\ row[t] \in DB!Row /\ row \in [Task -> DB!Row]
        /\ \A q \in Proc : proc[q] \in ProcState
    BY ZenonT(30) DEF IInv, TypeOK
  <1>1. PICK pc \in {"ack", "bury", "nack"} : Settle(p, pc)
    BY DEF ExecuteSucceeds, ExecuteFails
  <1>2. /\ \A q \in Proc \ {p} : proc'[q] = proc[q]
        /\ proc'[p].pc # "run" /\ proc[p].pc = "run"
    BY ZenonT(30), <1>0, <1>1 DEF Settle, IInv, TypeOK, ProcState, ExecuteSucceeds, ExecuteFails
  <1>3. hist' = hist  BY DEF ExecuteSucceeds, ExecuteFails
  <1>4. CASE proc[p].task # t
    <2>1. row'[t] = row[t]  BY ZenonT(60), <1>0, <1>4 DEF ExecuteSucceeds, ExecuteFails
    <2>2. NoStart(t)  BY ZenonT(30), <1>2 DEF NoStart, Executing
    <2> QED  BY ZenonT(30), <1>0, <1>3, <2>1, <2>2, Frame
  <1>5. CASE proc[p].task = t
    <2>0. Executing(p, t)  BY ZenonT(30), <1>2, <1>5 DEF Executing
    <2>1. ~hist[t].lapsed => \A q \in Proc : ~Executing(q, t)'
      BY ZenonT(30), <1>0, <1>2, <2>0 DEF Steady, Executing
    <2>2. row[t].status = "processing" /\ ~row[t].deleted
      BY ZenonT(30), <1>0, <1>5 DEF ExecuteSucceeds, ExecuteFails, DB!CanFinish, Steady, DB!Terminal
    <2>3. /\ row'[t].owner = None /\ row'[t].attempts = row[t].attempts
          /\ row'[t].deleted = row[t].deleted
          /\ \/ row'[t].status = "completed"
             \/ row'[t].status = "dead_letter" /\ DB!IsExhausted(proc[p].attempts)
             \/ row'[t].status = "pending" /\ ~DB!IsExhausted(proc[p].attempts)
      <3>1. CASE row'[t] = DB!Complete(row[t])  BY <1>0, <3>1 DEF DB!Complete, DB!Row
      <3>2. CASE row'[t] = DB!MoveToDeadLetter(row[t]) /\ DB!IsExhausted(proc[p].attempts)
        BY <1>0, <3>2 DEF DB!MoveToDeadLetter, DB!Row
      <3>3. CASE row'[t] = DB!Fail(row[t]) /\ ~DB!IsExhausted(proc[p].attempts)
        BY SMTT(30), <1>0, <3>3 DEF DB!Fail, DB!Row
      <3> QED  BY Zenon, <1>0, <1>5, <3>1, <3>2, <3>3 DEF ExecuteSucceeds, ExecuteFails
    <2>4. ~hist[t].lapsed => proc[p].attempts = row[t].attempts /\ row[t].attempts <= MaxAttempts
      BY ZenonT(60), <1>0, <2>0 DEF Steady
    <2>5. row[t].attempts \in Nat  BY ZenonT(60), <1>0 DEF DB!Row
    <2>6. ~hist[t].lapsed =>
            /\ row'[t].attempts <= MaxAttempts
            /\ row'[t].status = "pending" => row'[t].attempts < MaxAttempts
            /\ row'[t].status = "dead_letter" => row'[t].attempts = MaxAttempts
      <3>1. DB!IsExhausted(proc[p].attempts) <=> proc[p].attempts >= MaxAttempts
        BY DEF DB!IsExhausted
      <3> QED  BY SMTT(30), <2>3, <2>4, <2>5, <3>1, Budget
    <2> QED  BY ZenonT(60), <1>0, <1>3, <2>1, <2>2, <2>3, <2>6, Released
  <1> QED  BY <1>4, <1>5

(* A heartbeat only moves the end of the lease.                             *)
LEMMA HeartbeatSteady ==
  ASSUME NEW t \in Task, row[t] \in DB!Row, Steady(t), NoStart(t),
         hist'[t].lapsed = hist[t].lapsed,
         row'[t] = DB!Heartbeat(row[t])
  PROVE  Steady(t)'
  <1>1. /\ row'[t].status = row[t].status /\ row'[t].owner = row[t].owner
        /\ row'[t].deleted = row[t].deleted /\ row'[t].attempts = row[t].attempts
        /\ ~row'[t].due
    BY ZenonT(30) DEF DB!Heartbeat, DB!Row
  <1> QED  BY ZenonT(30), <1>1 DEF Steady, NoStart, Executing

(* Every step of a goroutine keeps the invariant.                           *)
LEMMA ProcSteady ==
  ASSUME IInv, NEW p \in Proc, ProcStep(p), NEW t \in Task
  PROVE  Steady(t)'
  <1>0. /\ Steady(t) /\ row[t] \in DB!Row /\ row \in [Task -> DB!Row]
        /\ proc \in [Proc -> ProcState] /\ \A q \in Proc : proc[q] \in ProcState
    BY DEF IInv, TypeOK
  <1>1. ASSUME Leave(p)  PROVE NoStart(t)
    BY <1>0, <1>1 DEF Leave, Idle, NoStart, Executing
  <1>2. ASSUME NEW pc \in {"release", "mark"}, proc' = [proc EXCEPT ![p].pc = pc]
        PROVE  NoStart(t)
    BY <1>0, <1>2 DEF NoStart, Executing, ProcState
  <1>3. ASSUME NEW u \in Task, Dequeue(p, u)  PROVE Steady(t)'
    <2>1. NoStart(t)  BY <1>0, <1>3 DEF Dequeue, Idle, NoStart, Executing
    <2> QED  BY <1>0, <1>3, <2>1, Frame DEF Dequeue
  <1>4. CASE ClaimFails(p)  BY <1>0, <1>2, <1>4, Frame DEF ClaimFails
  <1>5. CASE AckMessage(p)  BY ZenonT(30), <1>0, <1>1, <1>5, Frame DEF AckMessage
  <1>6. CASE OutcomeLost(p)  BY <1>0, <1>1, <1>6, Frame DEF OutcomeLost
  <1>7. CASE NackMessage(p)  BY ZenonT(60), <1>0, <1>1, <1>2, <1>7, Frame DEF NackMessage
  <1>8. CASE MarkRetry(p)
    <2>1. row'[t] = row[t] \/ row'[t] = DB!MarkDispatched(row[t])
      BY ZenonT(60), <1>0, <1>8 DEF MarkRetry
    <2>2. NoStart(t) /\ hist' = hist  BY <1>1, <1>8 DEF MarkRetry
    <2> QED  BY <1>0, <2>1, <2>2, Frame, MarkSteady
  <1>9. CASE BuryMessage(p)  BY ZenonT(30), <1>0, <1>1, <1>9, Frame DEF BuryMessage
  <1>10. CASE HeartbeatRenews(p)
    <2>1. NoStart(t) /\ hist' = hist  BY <1>10 DEF HeartbeatRenews, NoStart, Executing
    <2>2. row'[t] = row[t] \/ row'[t] = DB!Heartbeat(row[t])
      BY <1>0, <1>10 DEF HeartbeatRenews
    <2> QED  BY ZenonT(60), <1>0, <2>1, <2>2, Frame, HeartbeatSteady
  <1>11. CASE HeartbeatLost(p)
    <2>1. \A q \in Proc : /\ proc'[q].pc = proc[q].pc /\ proc'[q].task = proc[q].task
                          /\ proc'[q].attempts = proc[q].attempts
      BY ZenonT(30), <1>0, <1>11 DEF HeartbeatLost, ProcState
    <2>2. NoStart(t)  BY <2>1 DEF NoStart, Executing
    <2> QED  BY ZenonT(30), <1>0, <1>11, <2>2, Frame DEF HeartbeatLost
  <1>12. CASE HeartbeatLingers(p)
    <2>1. \A q \in Proc : /\ proc'[q].pc = proc[q].pc /\ proc'[q].task = proc[q].task
                          /\ proc'[q].attempts = proc[q].attempts
      BY ZenonT(60), <1>0, <1>12 DEF HeartbeatLingers, ProcState
    <2>2. NoStart(t)  BY ZenonT(60), <2>1 DEF NoStart, Executing
    <2> QED  BY ZenonT(60), <1>0, <1>12, <2>2, Frame DEF HeartbeatLingers
  <1> QED  BY ZenonT(60), <1>3, <1>4, <1>5, <1>6, <1>7, <1>8, <1>9, <1>10, <1>11, <1>12,
              ClaimSteady, SettleSteady DEF ProcStep

(* Drains, crashes and restarts keep the invariant.                         *)
LEMMA PoolSteady ==
  ASSUME IInv, NEW w \in Worker, PoolStep(w), NEW t \in Task
  PROVE  Steady(t)'
  <1>0. Steady(t) /\ \A q \in Proc : proc[q] \in ProcState  BY DEF IInv, TypeOK
  <1>1. UNCHANGED <<row, hist>>  BY ZenonT(60) DEF PoolStep, Drain, ForceCancel, Restart, Crash
  <1>2. CASE ForceCancel(w)
    <2>1. \A q \in Proc : /\ proc'[q].pc = proc[q].pc /\ proc'[q].task = proc[q].task
                          /\ proc'[q].attempts = proc[q].attempts
      BY <1>0, <1>2 DEF ForceCancel, ProcState
    <2> QED  BY <1>0, <1>1, <2>1, Frame DEF NoStart, Executing
  <1>3. CASE Crash(w)
    <2>1. NoStart(t)  BY ZenonT(60), <1>3 DEF Crash, Idle, NoStart, Executing
    <2> QED  BY ZenonT(30), <1>0, <1>1, <2>1, Frame
  <1>4. CASE UNCHANGED proc  BY <1>0, <1>1, <1>4, Frame DEF NoStart, Executing
  <1> QED  BY <1>2, <1>3, <1>4 DEF PoolStep, Drain, Restart

(* A late heartbeat may renew the lease its pool holds by then.             *)
LEMMA LateSteady ==
  ASSUME IInv, NEW w \in Worker, NEW u \in Task, LateHeartbeat(w, u), NEW t \in Task
  PROVE  Steady(t)'
  <1>0. /\ Steady(t) /\ row[t] \in DB!Row /\ row \in [Task -> DB!Row]
        /\ \A q \in Proc : proc[q] \in ProcState
    BY ZenonT(60) DEF IInv, TypeOK
  <1>1. \A q \in Proc : /\ proc'[q].pc = proc[q].pc /\ proc'[q].task = proc[q].task
                        /\ proc'[q].attempts = proc[q].attempts
    BY ZenonT(60), <1>0 DEF LateHeartbeat, ProcState
  <1>2. NoStart(t) /\ hist' = hist  BY ZenonT(60), <1>1 DEF LateHeartbeat, NoStart, Executing
  <1>3. row'[t] = row[t] \/ row'[t] = DB!Heartbeat(row[t])  BY ZenonT(60), <1>0 DEF LateHeartbeat
  <1> QED  BY ZenonT(60), <1>0, <1>2, <1>3, Frame, HeartbeatSteady

(* Time keeps the invariant: a lease that expires counts as lapsed.         *)
LEMMA ElapseSteady ==
  ASSUME IInv, NEW u \in Task, Elapse(u), NEW t \in Task
  PROVE  Steady(t)'
  <1>0. /\ Steady(t) /\ row[t] \in DB!Row /\ row \in [Task -> DB!Row]
        /\ hist \in [Task -> Hist] /\ hist[t] \in Hist
        /\ \A q \in Proc : proc[q] \in ProcState
    BY DEF IInv, TypeOK
  <1>1. proc' = proc  BY DEF Elapse
  <1>2. NoStart(t)  BY ZenonT(60), <1>1 DEF NoStart, Executing
  <1>3. CASE u # t
    <2>1. row'[t] = row[t] /\ hist'[t] = hist[t]  BY <1>0, <1>3 DEF Elapse
    <2> QED  BY <1>0, <1>2, <2>1, Frame
  <1>4. CASE u = t
    <2>1. /\ row'[t].status = row[t].status /\ row'[t].owner = row[t].owner
          /\ row'[t].deleted = row[t].deleted /\ row'[t].attempts = row[t].attempts
      BY ZenonT(30), <1>0, <1>4 DEF Elapse, DB!Row
    <2>2. CASE row[t].status = "processing"
      <3>0. hist' = [hist EXCEPT ![t].lapsed = TRUE]  BY <1>4, <2>2 DEF Elapse
      <3>1. hist'[t] = [hist[t] EXCEPT !.lapsed = TRUE]  BY <1>0, <3>0
      <3>2. hist'[t].lapsed  BY SMTT(30), <1>0, <3>1 DEF Hist
      <3> QED  BY Zenon, <1>0, <2>1, <3>2 DEF Steady
    <2>3. CASE row[t].status # "processing"
      <3>1. hist' = hist  BY <1>4, <2>3 DEF Elapse
      <3> QED  BY ZenonT(60), <1>0, <1>2, <2>1, <2>3, <3>1 DEF Steady, NoStart, Executing
    <2> QED  BY <2>2, <2>3
  <1> QED  BY <1>3, <1>4

(* The loss of Redis and the rebuild keep the invariant.                    *)
LEMMA RebuildSteady ==
  ASSUME IInv, FlushRedis \/ RebuildStep, NEW t \in Task
  PROVE  Steady(t)'
  <1>0. /\ Steady(t) /\ row \in [Task -> DB!Row] /\ row[t] \in DB!Row
        /\ rebuild.pc = "mark" => rebuild.cur \in Task
    BY DEF IInv, TypeOK, RebuildState
  <1>1. proc' = proc /\ hist' = hist  BY RebuildFrame
  <1>2. NoStart(t)  BY ZenonT(60), <1>1 DEF NoStart, Executing
  <1>3. CASE row' = row  BY <1>0, <1>1, <1>2, <1>3, Frame
  <1>4. CASE RebuildMark
    <2>1. CASE rebuild.cur # t
      <3>1. row'[t] = row[t]  BY <1>0, <1>4, <2>1 DEF RebuildMark
      <3> QED  BY <1>0, <1>1, <1>2, <3>1, Frame
    <2>2. CASE rebuild.cur = t
      <3>1. row'[t] = DB!MarkDispatched(row[t]) /\ row[t].status = "pending"
        BY <1>0, <1>4, <2>2 DEF RebuildMark, DB!CanMarkDispatched
      <3>2. /\ row'[t].status = row[t].status /\ row'[t].attempts = row[t].attempts
            /\ row'[t].owner = row[t].owner /\ row'[t].deleted = row[t].deleted
            /\ row'[t].due = row[t].due
        BY <1>0, <3>1 DEF DB!MarkDispatched, DB!Row
      <3> QED  BY ZenonT(60), <1>0, <1>1, <1>2, <3>1, <3>2 DEF Steady, NoStart, Executing
    <2> QED  BY <2>1, <2>2
  <1> QED
    BY Zenon, <1>3, <1>4 DEF FlushRedis, RebuildStep, StopWorkers, RebuildScan, RebuildRemove,
       RebuildEnqueue, RebuildFails

(* Every step of the system keeps the invariant.                            *)
LEMMA SteadyStep == IInv /\ [Next]_vars => IInv'
  <1> SUFFICES ASSUME IInv, [Next]_vars, NEW t \in Task  PROVE Steady(t)'
    BY TypeStep DEF IInv
  <1>1. CASE PromoteDelayed \/ UNCHANGED vars
    <2>1. UNCHANGED <<row, proc, hist>>  BY <1>1 DEF PromoteDelayed, vars
    <2> QED  BY ZenonT(60), <2>1, Frame DEF IInv, NoStart, Executing
  <1> QED  BY <1>1, ClientSteady, LoopSteady, DispatchSteady, ProcSteady, PoolSteady,
              LateSteady, ElapseSteady, RebuildSteady DEF Next

(* The inductive invariant holds throughout.                                *)
LEMMA SteadyInvariant == Spec => []IInv
  <1>1. Init => TypeOK /\ Assigned  BY InitTypeOK DEF Init, Assigned, Idle
  <1>2. ASSUME Init, NEW t \in Task  PROVE Steady(t)
    <2>1. /\ row[t].status = "absent" /\ row[t].attempts = 0
          /\ row[t].owner = None /\ ~row[t].deleted
      BY ZenonT(60), <1>2 DEF Init, DB!Absent
    <2>2. \A p \in Proc : ~Executing(p, t)  BY <1>2 DEF Init, Executing, Idle
    <2>3. 0 <= MaxAttempts  BY Budget
    <2> QED  BY ZenonT(30), <2>1, <2>2, <2>3 DEF Steady
  <1>3. Init => IInv  BY <1>1, <1>2 DEF IInv
  <1> QED  BY <1>3, SteadyStep, PTL DEF Spec

(* Two goroutines execute one task at the same time only after a lease on   *)
(* it has lapsed, whatever crashes, drains, duplicates and retries happen.  *)
THEOREM LeaseExclusionHolds == Spec => []LeaseExclusion
  <1>1. IInv => LeaseExclusion  BY ZenonT(30) DEF IInv, Steady, LeaseExclusion
  <1> QED  BY <1>1, SteadyInvariant, PTL

(* The retry budget of a task whose leases never lapsed is kept exactly:    *)
(* never exceeded, never spent while the task waits, spent in dead_letter.  *)
THEOREM RetryBudgetHolds == Spec => []RetryBudget
  <1>1. IInv => RetryBudget  BY ZenonT(30) DEF IInv, Steady, RetryBudget
  <1> QED  BY <1>1, SteadyInvariant, PTL

(* No statement leaves a lock on a row that is not processing, or a deleted *)
(* row that is not terminal.                                                *)
THEOREM RowConsistentHolds == Spec => []RowConsistent
  <1>1. IInv => RowConsistent  BY DEF IInv, Steady, RowConsistent
  <1> QED  BY <1>1, SteadyInvariant, PTL
-----------------------------------------------------------------------------
(* The one row a step changes, and how; Changed(t, r, can) says that the    *)
(* step writes r to t and that the guard can held.                          *)
Changed(t, r, can) == row' = [row EXCEPT ![t] = r] /\ can

Written(t) ==
  \/ row[t].status = "absent" /\ \E b \in BOOLEAN : Changed(t, DB!NewTask(b), TRUE)
  \/ /\ Changed(t, DB!Requeue(row[t]), DB!CanRequeue(row[t]))
     /\ hist' = [hist EXCEPT ![t].requeues = @ + 1]
  \/ Changed(t, DB!Cancel(row[t]), DB!CanCancel(row[t]))
  \/ Changed(t, DB!SoftDelete(row[t]), DB!CanSoftDelete(row[t]))
  \/ Changed(t, DB!MarkDispatched(row[t]), DB!CanMarkDispatched(row[t]))
  \/ \E w \in Worker : Changed(t, DB!ClaimForProcessing(row[t], w), DB!CanClaim(row[t]))
  \/ Changed(t, DB!Complete(row[t]), DB!CanFinish(row[t]))
  \/ Changed(t, DB!MoveToDeadLetter(row[t]), DB!CanFinish(row[t]))
  \/ Changed(t, DB!Fail(row[t]), DB!CanFinish(row[t]))
  \/ Changed(t, DB!Heartbeat(row[t]), row[t].status = "processing")
  \/ Changed(t, [row[t] EXCEPT !.due = TRUE], row[t].status \in {"pending", "processing"})

Reclaimed(S) ==
  /\ S \subseteq Task
  /\ \A t \in S : DB!CanReclaim(row[t])
  /\ row' = [t \in Task |-> IF t \in S THEN DB!ReclaimExpired(row[t]) ELSE row[t]]

(* Every change of a row is one of the statements, under its WHERE clause.  *)
LEMMA Writes ==
  ASSUME IInv, [Next]_vars
  PROVE  UNCHANGED row \/ (\E t \in Task : Written(t)) \/ (\E S : Reclaimed(S))
  <1>0. /\ row \in [Task -> DB!Row]
        /\ \A p \in Proc : proc[p].pc # "idle" => proc[p].task \in Task
        /\ \A p \in Proc : PoolOf[p] \in Worker
        /\ \A a \in Agent : disp[a].cur # None => disp[a].cur \in Task
        /\ rebuild.pc = "mark" => rebuild.cur \in Task
    BY QueueFlowAssumption DEF IInv, TypeOK, Assigned, DispState, RebuildState
  <1>1. ASSUME NEW c \in Client, ClientStep(c)
        PROVE  UNCHANGED row \/ \E t \in Task : Written(t)
    BY ZenonT(30), <1>1 DEF ClientStep, CreateTask, RetryTask, CancelTask, SoftDeleteTask,
                RemoveMessage, Written, Changed
  <1>2. ASSUME NEW l \in Loop, LoopStep(l)  PROVE UNCHANGED row \/ \E S : Reclaimed(S)
    BY <1>2 DEF LoopStep, ReclaimScan, ReconcileScan, Reclaimed
  <1>3. ASSUME NEW t \in Task,
               row' = [row EXCEPT ![t] = IF DB!CanMarkDispatched(@)
                                         THEN DB!MarkDispatched(@) ELSE @]
        PROVE  UNCHANGED row \/ Written(t)
    <2>1. CASE DB!CanMarkDispatched(row[t])  BY ZenonT(60), <1>0, <1>3, <2>1 DEF Written, Changed
    <2>2. CASE ~DB!CanMarkDispatched(row[t])  BY <1>0, <1>3, <2>2
    <2> QED  BY <2>1, <2>2
  <1>4. ASSUME NEW a \in Agent, DispatchStep(a)
        PROVE  UNCHANGED row \/ \E t \in Task : Written(t)
    BY ZenonT(30), <1>0, <1>3, <1>4 DEF DispatchStep, DispatchEnqueue, DispatchMark, Abandon
  <1>5. ASSUME NEW p \in Proc, ProcStep(p)
        PROVE  UNCHANGED row \/ \E t \in Task : Written(t)
    <2>1. CASE Claim(p)  BY ZenonT(30), <1>0, <2>1 DEF Claim, Written, Changed
    <2>2. CASE ExecuteSucceeds(p)  BY ZenonT(30), <1>0, <2>2 DEF ExecuteSucceeds, Written, Changed
    <2>3. CASE ExecuteFails(p)  BY ZenonT(30), <1>0, <2>3 DEF ExecuteFails, Written, Changed
    <2>4. CASE MarkRetry(p)  BY ZenonT(30), <1>0, <1>3, <2>4 DEF MarkRetry
    <2>5. CASE HeartbeatRenews(p)
      BY Zenon, <1>0, <2>5 DEF HeartbeatRenews, Beating, Claimed, DB!CanHeartbeat, Written, Changed
    <2> QED
      BY ZenonT(30), <1>5, <2>1, <2>2, <2>3, <2>4, <2>5 DEF ProcStep, Dequeue, ClaimFails, AckMessage,
         OutcomeLost, NackMessage, BuryMessage, HeartbeatLost, HeartbeatLingers
  <1>6. ASSUME NEW w \in Worker, PoolStep(w)  PROVE UNCHANGED row
    BY <1>6 DEF PoolStep, Drain, ForceCancel, Restart, Crash
  <1>7. ASSUME NEW t \in Task, Elapse(t)  PROVE Written(t)
    BY ZenonT(30), <1>0, <1>7 DEF Elapse, Written, Changed
  <1>8. PromoteDelayed \/ UNCHANGED vars => UNCHANGED row  BY Zenon DEF PromoteDelayed, vars
  <1>9. ASSUME FlushRedis \/ RebuildStep
        PROVE  UNCHANGED row \/ \E t \in Task : Written(t)
    <2>1. CASE RebuildMark  BY ZenonT(30), <1>0, <2>1 DEF RebuildMark, Written, Changed
    <2> QED
      BY Zenon, <1>9, <2>1 DEF FlushRedis, RebuildStep, StopWorkers, RebuildScan, RebuildRemove,
         RebuildEnqueue, RebuildFails
  <1>10. ASSUME NEW w \in Worker, NEW t \in Task, LateHeartbeat(w, t)
         PROVE  UNCHANGED row \/ Written(t)
    BY ZenonT(30), <1>10 DEF LateHeartbeat, DB!CanHeartbeat, Written, Changed
  <1> QED  BY ZenonT(30), <1>1, <1>2, <1>4, <1>5, <1>6, <1>7, <1>8, <1>9, <1>10 DEF Next

(* No late write of a goroutine, loop or request changes a completed or     *)
(* deleted task, and only a manual retry revives a dead or cancelled one.   *)
THEOREM FinalityHolds == Spec => Finality
  <1> DEFINE Kept(t) ==
        \/ row'[t].status = row[t].status /\ (row[t].deleted => row'[t].deleted)
        \/ /\ row[t].status # "completed" /\ ~row[t].deleted
           /\ hist'[t].requeues = hist[t].requeues + 1
  <1>1. ASSUME IInv, [Next]_vars, NEW t \in Task, row[t].status \in DB!Terminal
        PROVE  Kept(t)
    <2>0. /\ row \in [Task -> DB!Row] /\ row[t] \in DB!Row
          /\ hist \in [Task -> Hist] /\ hist[t] \in Hist
      BY <1>1 DEF IInv, TypeOK
    <2>1. row[t].status \notin {"absent", "pending", "processing"}
      BY <1>1 DEF DB!Terminal
    <2>2. CASE row'[t] = row[t]  BY <2>2
    <2>3. ASSUME NEW S, Reclaimed(S)  PROVE row'[t] = row[t]
      BY <2>1, <2>3 DEF Reclaimed, DB!CanReclaim
    <2>4. ASSUME NEW u \in Task, u # t, Written(u)  PROVE row'[t] = row[t]
      BY <2>0, <2>4 DEF Written, Changed
    <2>5. CASE Written(t)
      <3>1. CASE /\ Changed(t, DB!Requeue(row[t]), DB!CanRequeue(row[t]))
                 /\ hist' = [hist EXCEPT ![t].requeues = @ + 1]
        BY <2>0, <3>1 DEF Changed, DB!CanRequeue, Hist
      <3>2. CASE Changed(t, DB!SoftDelete(row[t]), DB!CanSoftDelete(row[t]))
        BY ZenonT(30), <2>0, <3>2 DEF Changed, DB!SoftDelete, DB!Row
      <3> QED
        BY <2>1, <2>5, <3>1, <3>2 DEF Written, Changed, DB!CanCancel,
           DB!CanMarkDispatched, DB!CanClaim, DB!CanFinish
    <2> QED  BY ZenonT(30), <1>1, <2>2, <2>3, <2>4, <2>5, Writes
  <1>2. IInv /\ [Next]_vars =>
          [\A t \in Task : row[t].status \in DB!Terminal => Kept(t)]_vars
    BY <1>1
  <1> QED  BY <1>2, SteadyInvariant, PTL DEF Spec, Finality

(* The variables of TaskLifecycle under the refinement mapping, and what a  *)
(* step that writes r to t does to them.                                    *)
BarStatus == [t \in Task |-> row[t].status]

BarAttempts == [t \in Task |-> row[t].attempts]

BarDeleted == [t \in Task |-> row[t].deleted]

(* What the abstract specification sees of a change of one row.             *)
LEMMA BarredUpdate ==
  ASSUME row \in [Task -> DB!Row], NEW t \in Task, NEW r, row' = [row EXCEPT ![t] = r]
  PROVE  /\ BarStatus' = [BarStatus EXCEPT ![t] = r.status]
         /\ BarAttempts' = [BarAttempts EXCEPT ![t] = r.attempts]
         /\ BarDeleted' = [BarDeleted EXCEPT ![t] = r.deleted]
         /\ r.status = row[t].status => BarStatus' = BarStatus
         /\ r.attempts = row[t].attempts => BarAttempts' = BarAttempts
         /\ r.deleted = row[t].deleted => BarDeleted' = BarDeleted
  BY ZenonT(30) DEF BarStatus, BarAttempts, BarDeleted

(* Every step is a step of TaskLifecycle, or invisible to it.               *)
LEMMA LifeStep ==
  ASSUME IInv, [Next]_vars
  PROVE  Life!Next \/ UNCHANGED <<BarStatus, BarAttempts, BarDeleted>>
  <1>0. row \in [Task -> DB!Row] /\ \A t \in Task : row[t] \in DB!Row /\ Steady(t)
    BY DEF IInv, TypeOK
  <1>1. CASE UNCHANGED row  BY ZenonT(60), <1>1 DEF BarStatus, BarAttempts, BarDeleted
  <1>2. ASSUME NEW S, Reclaimed(S)  PROVE Life!RepeatAll(S)
    <2>1. \A t \in S : row[t].status = "processing" /\ ~row[t].deleted
      BY ZenonT(30), <1>0, <1>2 DEF Reclaimed, DB!CanReclaim, Steady, DB!Terminal
    <2>2. \A t \in Task : /\ row'[t].status = (IF t \in S THEN "pending" ELSE row[t].status)
                          /\ row'[t].attempts = row[t].attempts
                          /\ row'[t].deleted = row[t].deleted
      BY Zenon, <1>0, <1>2 DEF Reclaimed, DB!ReclaimExpired, DB!Row
    <2> QED  BY <1>2, <2>1, <2>2 DEF Reclaimed, Life!RepeatAll
  <1>3. ASSUME NEW t \in Task, Written(t)
        PROVE  Life!Next \/ UNCHANGED <<BarStatus, BarAttempts, BarDeleted>>
    <2>0. /\ row[t] \in DB!Row
          /\ row[t].status \in {"pending", "processing"} => ~row[t].deleted
          /\ row[t].status = "absent" => ~row[t].deleted /\ row[t].attempts = 0
      BY <1>0 DEF Steady, DB!Terminal
    <2>3. /\ BarStatus[t] = row[t].status /\ BarAttempts[t] = row[t].attempts
          /\ BarDeleted[t] = row[t].deleted
      BY ZenonT(30) DEF BarStatus, BarAttempts, BarDeleted
    <2>4. ASSUME NEW b \in BOOLEAN, row[t].status = "absent", Changed(t, DB!NewTask(b), TRUE)
          PROVE  Life!Create(t)
      <3> DEFINE r == DB!NewTask(b)
      <3>1. r.status = "pending" /\ r.attempts = row[t].attempts /\ r.deleted = row[t].deleted
        BY Zenon, <2>0, <2>4 DEF DB!NewTask, DB!Absent, DB!Row
      <3> HIDE DEF r
      <3>2. row' = [row EXCEPT ![t] = r]  BY <2>4 DEF Changed, r
      <3>3. /\ BarStatus' = [BarStatus EXCEPT ![t] = r.status]
            /\ BarAttempts' = BarAttempts /\ BarDeleted' = BarDeleted
        BY ZenonT(60), <1>0, <2>0, <2>4, <3>1, <3>2, BarredUpdate
      <3> QED  BY <2>0, <2>4, <3>1, <3>3
               DEF Life!Create, Life!Move, BarStatus, BarAttempts, BarDeleted
    <2>5. ASSUME Changed(t, DB!Cancel(row[t]), DB!CanCancel(row[t]))
          PROVE  Life!Withdraw(t)
      <3> DEFINE r == DB!Cancel(row[t])
      <3>1. /\ r.status = "cancelled" /\ r.attempts = row[t].attempts /\ r.deleted = row[t].deleted
            /\ row[t].status = "pending"
        BY <2>0, <2>5 DEF Changed, DB!Cancel, DB!CanCancel, DB!Row
      <3> HIDE DEF r
      <3>2. row' = [row EXCEPT ![t] = r]  BY ZenonT(30), <2>5 DEF Changed, r
      <3>3. /\ BarStatus' = [BarStatus EXCEPT ![t] = r.status]
            /\ BarAttempts' = BarAttempts /\ BarDeleted' = BarDeleted
        BY ZenonT(60), <1>0, <2>0, <3>1, <3>2, BarredUpdate
      <3> QED  BY ZenonT(60), <2>0, <2>3, <3>1, <3>3
               DEF Life!Withdraw, Life!Move, BarStatus, BarAttempts, BarDeleted
    <2>6. ASSUME Changed(t, DB!Complete(row[t]), DB!CanFinish(row[t]))
          PROVE  Life!Finish(t)
      <3> DEFINE r == DB!Complete(row[t])
      <3>1. /\ r.status = "completed" /\ r.attempts = row[t].attempts /\ r.deleted = row[t].deleted
            /\ row[t].status = "processing"
        BY <2>0, <2>6 DEF Changed, DB!Complete, DB!CanFinish, DB!Row
      <3> HIDE DEF r
      <3>2. row' = [row EXCEPT ![t] = r]  BY <2>6 DEF Changed, r
      <3>3. /\ BarStatus' = [BarStatus EXCEPT ![t] = r.status]
            /\ BarAttempts' = BarAttempts /\ BarDeleted' = BarDeleted
        BY ZenonT(60), <1>0, <2>0, <3>1, <3>2, BarredUpdate
      <3> QED  BY ZenonT(60), <2>0, <2>3, <3>1, <3>3
               DEF Life!Finish, Life!Move, BarStatus, BarAttempts, BarDeleted
    <2>7. ASSUME Changed(t, DB!MoveToDeadLetter(row[t]), DB!CanFinish(row[t]))
          PROVE  Life!Finish(t)
      <3> DEFINE r == DB!MoveToDeadLetter(row[t])
      <3>1. /\ r.status = "dead_letter" /\ r.attempts = row[t].attempts /\ r.deleted = row[t].deleted
            /\ row[t].status = "processing"
        BY <2>0, <2>7 DEF Changed, DB!MoveToDeadLetter, DB!CanFinish, DB!Row
      <3> HIDE DEF r
      <3>2. row' = [row EXCEPT ![t] = r]  BY <2>7 DEF Changed, r
      <3>3. /\ BarStatus' = [BarStatus EXCEPT ![t] = r.status]
            /\ BarAttempts' = BarAttempts /\ BarDeleted' = BarDeleted
        BY ZenonT(60), <1>0, <2>0, <3>1, <3>2, BarredUpdate
      <3> QED  BY ZenonT(60), <2>0, <2>3, <3>1, <3>3
               DEF Life!Finish, Life!Move, BarStatus, BarAttempts, BarDeleted
    <2>8. ASSUME Changed(t, DB!Fail(row[t]), DB!CanFinish(row[t]))
          PROVE  Life!Repeat(t)
      <3> DEFINE r == DB!Fail(row[t])
      <3>1. /\ r.status = "pending" /\ r.attempts = row[t].attempts /\ r.deleted = row[t].deleted
            /\ row[t].status = "processing"
        BY <2>0, <2>8 DEF Changed, DB!Fail, DB!CanFinish, DB!Row
      <3> HIDE DEF r
      <3>2. row' = [row EXCEPT ![t] = r]  BY <2>8 DEF Changed, r
      <3>3. /\ BarStatus' = [BarStatus EXCEPT ![t] = r.status]
            /\ BarAttempts' = BarAttempts /\ BarDeleted' = BarDeleted
        BY ZenonT(60), <1>0, <2>0, <3>1, <3>2, BarredUpdate
      <3> QED  BY <2>0, <2>3, <3>1, <3>3
               DEF Life!Repeat, Life!Move, BarStatus, BarAttempts, BarDeleted
    <2>9. ASSUME Changed(t, DB!Requeue(row[t]), DB!CanRequeue(row[t]))
          PROVE  Life!Requeue(t)
      <3> DEFINE r == DB!Requeue(row[t])
      <3>1. /\ r.status = "pending" /\ r.attempts = 0 /\ r.deleted = row[t].deleted
            /\ row[t].status \in {"failed", "dead_letter", "cancelled"} /\ ~row[t].deleted
        BY <2>0, <2>9 DEF Changed, DB!Requeue, DB!CanRequeue, DB!Row
      <3> HIDE DEF r
      <3>2. row' = [row EXCEPT ![t] = r]  BY <2>9 DEF Changed, r
      <3>3. /\ BarStatus' = [BarStatus EXCEPT ![t] = r.status]
            /\ BarAttempts' = [BarAttempts EXCEPT ![t] = 0] /\ BarDeleted' = BarDeleted
        BY ZenonT(60), <1>0, <2>0, <3>1, <3>2, BarredUpdate
      <3> QED  BY ZenonT(60), <2>0, <2>3, <3>1, <3>3
               DEF Life!Requeue, Life!Final, Life!Move, BarStatus, BarAttempts, BarDeleted
    <2>10. ASSUME NEW w \in Worker,
                 Changed(t, DB!ClaimForProcessing(row[t], w), DB!CanClaim(row[t]))
          PROVE  Life!Start(t)
      <3> DEFINE r == DB!ClaimForProcessing(row[t], w)
      <3>1. /\ r.status = "processing" /\ r.attempts = row[t].attempts + 1
            /\ r.deleted = row[t].deleted
            /\ row[t].status \in {"pending", "processing"}
        BY <2>0, <2>10 DEF Changed, DB!ClaimForProcessing, DB!CanClaim, DB!Row
      <3> HIDE DEF r
      <3>2. row' = [row EXCEPT ![t] = r]  BY <2>10 DEF Changed, r
      <3>3. /\ BarStatus' = [BarStatus EXCEPT ![t] = r.status]
            /\ BarAttempts' = [BarAttempts EXCEPT ![t] = r.attempts]
            /\ BarDeleted' = BarDeleted
        BY Zenon, <1>0, <2>0, <3>1, <3>2, BarredUpdate
      <3> QED  BY ZenonT(60), <2>0, <2>3, <3>1, <3>3
               DEF Life!Start, Life!Move, BarStatus, BarAttempts, BarDeleted
    <2>11. ASSUME Changed(t, DB!SoftDelete(row[t]), DB!CanSoftDelete(row[t]))
          PROVE  Life!Delete(t)
      <3> DEFINE r == DB!SoftDelete(row[t])
      <3>1. /\ r.status = row[t].status /\ r.attempts = row[t].attempts /\ r.deleted = TRUE
            /\ row[t].status \in DB!Terminal /\ ~row[t].deleted
        BY <2>0, <2>11 DEF Changed, DB!SoftDelete, DB!CanSoftDelete, DB!IsTerminal, DB!Row
      <3> HIDE DEF r
      <3>2. row' = [row EXCEPT ![t] = r]  BY <2>11 DEF Changed, r
      <3>3. /\ BarDeleted' = [BarDeleted EXCEPT ![t] = TRUE]
            /\ BarAttempts' = BarAttempts /\ BarStatus' = BarStatus
        BY Zenon, <1>0, <2>0, <3>1, <3>2, BarredUpdate
      <3> QED  BY Zenon, <2>0, <2>3, <3>1, <3>3
               DEF Life!Delete, Life!Final, DB!Terminal, Life!Move, BarStatus, BarAttempts, BarDeleted
    <2>12. ASSUME NEW r, row' = [row EXCEPT ![t] = r], r.status = row[t].status,
                  r.attempts = row[t].attempts, r.deleted = row[t].deleted
           PROVE  UNCHANGED <<BarStatus, BarAttempts, BarDeleted>>
      BY Zenon, <1>0, <2>12, BarredUpdate
    <2>13. CASE \/ Changed(t, DB!MarkDispatched(row[t]), DB!CanMarkDispatched(row[t]))
                \/ Changed(t, DB!Heartbeat(row[t]), row[t].status = "processing")
                \/ Changed(t, [row[t] EXCEPT !.due = TRUE],
                           row[t].status \in {"pending", "processing"})
      <3>1. ASSUME NEW r \in {DB!MarkDispatched(row[t]), DB!Heartbeat(row[t]),
                             [row[t] EXCEPT !.due = TRUE]}
            PROVE  /\ r.status = row[t].status /\ r.attempts = row[t].attempts
                   /\ r.deleted = row[t].deleted
        BY <2>0, <3>1 DEF DB!MarkDispatched, DB!Heartbeat, DB!Row
      <3>2. PICK r \in {DB!MarkDispatched(row[t]), DB!Heartbeat(row[t]),
                       [row[t] EXCEPT !.due = TRUE]} : row' = [row EXCEPT ![t] = r]
        BY <2>13 DEF Changed
      <3> QED  BY Zenon, <2>12, <3>1, <3>2
    <2> QED  BY ZenonT(60), <1>3, <2>4, <2>5, <2>6, <2>7, <2>8, <2>9, <2>10, <2>11, <2>13
             DEF Written, Life!Next
  <1> QED  BY <1>1, <1>2, <1>3, Writes DEF Life!Next, Reclaimed

(* Every behaviour of the queue, over Redis and Postgres with all failures, *)
(* follows the task lifecycle of internal/domain/task.go.                   *)
THEOREM LifecycleRefinement == Spec => ImplementsLifecycle
  <1>1. Init => Life!Init  BY DEF Init, Life!Init, DB!Absent
  <1>2. IInv /\ [Next]_vars => [Life!Next]_<<BarStatus, BarAttempts, BarDeleted>>
    BY LifeStep
  <1> QED
    BY <1>1, <1>2, SteadyInvariant, PTL
    DEF Spec, ImplementsLifecycle, Life!Spec, BarStatus, BarAttempts, BarDeleted
=============================================================================
