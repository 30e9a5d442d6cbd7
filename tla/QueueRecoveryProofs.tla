------------------------ MODULE QueueRecoveryProofs ------------------------
(***************************************************************************)
(* No task is stranded: the proof that QueueFlow repairs every failure its *)
(* loops and the redis-rebuild command are meant for, for any number of    *)
(* tasks, pools, slots, requests and loops and any number of failures.     *)
(***************************************************************************)
EXTENDS QueueMovesProofs

(* Ended and Backoff: a goroutine that has written its outcome.             *)
LEMMA Outcome ==
  ASSUME IInv, NEW p \in Proc, ExecuteSucceeds(p) \/ ExecuteFails(p)
  PROVE  /\ proc[p].task \in Task /\ proc'[p].task = proc[p].task
         /\ \/ /\ proc'[p].pc \in {"ack", "bury"}
               /\ row'[proc[p].task].status \in DB!Terminal
            \/ /\ proc'[p].pc = "nack"
               /\ row'[proc[p].task].status = "pending" /\ ~row'[proc[p].task].due
  <1> DEFINE t == proc[p].task
  <1>0. /\ row \in [Task -> DB!Row] /\ proc \in [Proc -> ProcState] /\ proc[p] \in ProcState
        /\ t \in Task
    BY DEF IInv, TypeOK, Assigned, ExecuteSucceeds, ExecuteFails
  <1>1. row[t] \in DB!Row  BY <1>0
  <1>2. ASSUME NEW pc, Settle(p, pc)  PROVE proc'[p].pc = pc /\ proc'[p].task = t
    <2>1. proc'[p] = [proc[p] EXCEPT !.pc = pc, !.attempts = 0, !.current = FALSE]
      BY SMTT(30), <1>0, <1>2 DEF Settle
    <2> QED  BY <1>0, <2>1 DEF ProcState
  <1>3. CASE ExecuteSucceeds(p)
    <2>1. row'[t] = DB!Complete(row[t]) /\ Settle(p, "ack")  BY <1>0, <1>3 DEF ExecuteSucceeds
    <2>2. row'[t].status = "completed"  BY ZenonT(60), <1>1, <2>1 DEF DB!Complete, DB!Row
    <2> QED  BY ZenonT(60), <1>0, <1>2, <2>1, <2>2 DEF DB!Terminal
  <1>4. CASE ExecuteFails(p) /\ DB!IsExhausted(proc[p].attempts)
    <2>1. row'[t] = DB!MoveToDeadLetter(row[t]) /\ Settle(p, "bury")
      BY <1>0, <1>4 DEF ExecuteFails
    <2>2. row'[t].status = "dead_letter"
      BY ZenonT(60), <1>1, <2>1 DEF DB!MoveToDeadLetter, DB!Row
    <2> QED  BY ZenonT(60), <1>0, <1>2, <2>1, <2>2 DEF DB!Terminal
  <1>5. CASE ExecuteFails(p) /\ ~DB!IsExhausted(proc[p].attempts)
    <2>1. row'[t] = DB!Fail(row[t]) /\ Settle(p, "nack")  BY <1>0, <1>5 DEF ExecuteFails
    <2>2. row'[t].status = "pending" /\ ~row'[t].due
      BY ZenonT(60), <1>1, <2>1 DEF DB!Fail, DB!Row
    <2> QED  BY ZenonT(60), <1>0, <1>2, <2>1, <2>2
  <1> QED  BY ZenonT(60), <1>3, <1>4, <1>5

(* A task stays terminal until its goroutine has acknowledged it.           *)
LEMMA EndedStep ==
  ASSUME IInv, Repairable, [Next]_vars, NEW p \in Proc, Ended(p)
  PROVE  Ended(p)'
  <1> SUFFICES ASSUME proc'[p].pc \in {"ack", "bury"}
               PROVE  row'[proc'[p].task].status \in DB!Terminal
    BY DEF Ended
  <1>0. proc \in [Proc -> ProcState]  BY DEF IInv, TypeOK
  <1>1. CASE Stays(p)
    <2>1. /\ proc[p].pc \in {"ack", "bury"} /\ proc'[p].task = proc[p].task
          /\ proc[p].task \in Task
      BY <1>1 DEF Stays, Kept, IInv, Assigned
    <2>2. Trailing(proc[p].task) /\ row[proc[p].task].status \in DB!Terminal
      BY SMTT(30), <2>1 DEF Trailing, Ended
    <2> QED  BY ZenonT(60), <2>1, <2>2, RowEvolves DEF Evolves
  <1>2. ~Gone(p) /\ ~Claim(p) /\ ~ClaimFails(p) /\ ~Nacked(p)
    BY SMTT(30), <1>0, ClaimMoves DEF Gone, Idle, Nacked
  <1>3. ~\E t \in Task : Dequeue(p, t)  BY ZenonT(60), <1>0 DEF Dequeue, Idle
  <1>4. CASE ExecuteSucceeds(p) \/ ExecuteFails(p)  BY <1>4, Outcome
  <1> QED  BY Zenon, <1>1, <1>2, <1>3, <1>4, ProcMoves

(* The loss of Redis is noticed until the workers are gone.                 *)
Emptied == rebuild.pc \in {"flushed", "stopping"}

(* After the loss of Redis only the query of the rebuild, run with no       *)
(* goroutine left, goes on.                                                 *)
LEMMA EmptiedStep ==
  ASSUME IInv, [Next]_vars, Emptied
  PROVE  Emptied' \/ (RebuildScan /\ \A p \in Proc : proc[p].pc = "idle")
  <1>1. ~FlushRedis  BY SMTT(30) DEF FlushRedis, Emptied
  <1>2. RebuildStep => StopWorkers \/ RebuildScan
    BY Zenon DEF RebuildStep, RebuildRemove, RebuildEnqueue, RebuildMark, RebuildFails, Emptied
  <1>3. StopWorkers => Emptied'  BY SMTT(30) DEF StopWorkers, Rebuild, Emptied
  <1>4. RebuildScan => \A p \in Proc : proc[p].pc = "idle"  BY DEF RebuildScan
  <1>5. rebuild' = rebuild => Emptied'  BY DEF Emptied
  <1> QED  BY <1>1, <1>2, <1>3, <1>4, <1>5, RebuildFrozen

(* A failed task waits in the delayed set until its dispatch is marked.     *)
LEMMA BackoffStep ==
  ASSUME IInv, Repairable, [Next]_vars, \A p \in Proc : Ended(p), \A a \in Agent : Planned(a),
         Halted, NEW p \in Proc, Backoff(p)
  PROVE  Backoff(p)'
  <1> DEFINE t == proc[p].task
  <1>0. /\ proc \in [Proc -> ProcState] /\ redis \in MQ!Queues
        /\ proc[p].pc # "idle" => t \in Task
    BY DEF IInv, TypeOK, Assigned
  <1>1. CASE proc'[p].pc \notin Claimed
    BY ZenonT(60), <1>1 DEF Backoff, Claimed
  <1>2. CASE ExecuteSucceeds(p) \/ ExecuteFails(p)
    BY ZenonT(60), <1>2, Outcome DEF Backoff, DB!Terminal
  <1>3. CASE Claim(p)
    <2>1. proc'[p].pc = "run" /\ proc'[p].task = t /\ t \in Task  BY Zenon, <1>0, <1>3, ClaimMoves DEF Claim
    <2>2. row'[t] = DB!ClaimForProcessing(row[t], PoolOf[p]) /\ row[t] \in DB!Row
      BY <1>3, <2>1 DEF Claim, IInv, TypeOK
    <2>3. row'[t].status = "processing"  BY ZenonT(60), <2>2 DEF DB!ClaimForProcessing, DB!Row
    <2> QED  BY SMTT(30), <2>1, <2>3 DEF Backoff
  <1>4. ASSUME proc[p].pc \in Claimed, proc'[p].task = t, proc'[p].pc \in Claimed,
               proc'[p].pc \in {"nack", "mark"} => proc[p].pc \in {"nack", "mark"},
               proc'[p].pc = "mark" => Nacked(p) \/ proc[p].pc = "mark"
        PROVE  Backoff(p)'
    <2>1. t \in Task /\ row[t].status # "absent" /\ Evolves(t)
      BY ZenonT(60), <1>0, <1>4, RowEvolves DEF Backoff, Claimed
    <2>2. row'[t].status # "absent"  BY ZenonT(60), <2>1 DEF Evolves
    <2>3. ASSUME proc'[p].pc \in {"nack", "mark"}, row'[t].status = "pending"
          PROVE  /\ row[t].status = "pending" /\ ~row[t].due /\ ~row'[t].due
      <3>1. Trailing(t) /\ Retrying(t)  BY <1>4, <2>3 DEF Trailing, Retrying
      <3>2. SameLife(t)  BY Zenon, <2>1, <2>3, <3>1 DEF Evolves, NewLife, FirstLife
      <3>3. row[t].status = "pending" /\ ~row[t].due  BY <1>4, <2>3, <3>2 DEF SameLife, Backoff
      <3> QED  BY ZenonT(60), <3>1, <3>2, <3>3 DEF SameLife
    <2>4. ASSUME proc'[p].pc = "mark", row'[t].status = "pending"
          PROVE  t \in redis'.delayed \/ Emptied'
      <3>1. CASE Nacked(p)  BY <1>0, <3>1, SettledSets DEF Nacked
      <3>2. CASE proc[p].pc = "mark"
        <4>1. row[t].status = "pending" /\ ~row[t].due  BY ZenonT(60), <2>3, <2>4
        <4>2. t \in redis.delayed \/ Emptied  BY ZenonT(60), <3>2, <4>1 DEF Backoff, Emptied
        <4>3. Emptied => Emptied'  BY <3>2, EmptiedStep
        <4>4. FlushRedis => Emptied'  BY DEF FlushRedis, Rebuild, Emptied
        <4>5. ~RebuildRemove(t)  BY <3>2 DEF RebuildRemove, Halted
        <4> QED  BY Zenon, <2>1, <4>1, <4>2, <4>3, <4>4, <4>5, Delivered DEF Delivers
      <3> QED  BY ZenonT(60), <1>4, <2>4, <3>1, <3>2
    <2> QED  BY Zenon, <1>4, <2>2, <2>3, <2>4 DEF Backoff, Emptied
  <1>5. ASSUME Nacked(p)  PROVE Backoff(p)'
    <2>1. proc[p].pc = "nack" /\ proc'[p].pc = "mark" /\ proc'[p].task = t
      BY <1>5 DEF Nacked, NackMessage
    <2> QED  BY ZenonT(60), <1>4, <1>5, <2>1 DEF Claimed
  <1>6. ASSUME Stays(p)  PROVE Backoff(p)'
    <2>1. proc[p].pc # "idle" => proc'[p].pc = proc[p].pc /\ proc'[p].task = t
      BY <1>6 DEF Stays, Kept
    <2>2. proc'[p].pc = "idle" => proc'[p].pc \notin Claimed  BY DEF Claimed
    <2>3. proc'[p].pc = proc[p].pc  BY <1>6 DEF Stays
    <2> QED  BY Zenon, <1>1, <1>4, <2>1, <2>2, <2>3
  <1>7. Gone(p) \/ ClaimFails(p) \/ (\E u \in Task : Dequeue(p, u)) => proc'[p].pc \notin Claimed
    <2>1. Gone(p) => proc'[p].pc = "idle"  BY DEF Gone, Idle
    <2>2. ClaimFails(p) => proc'[p].pc = "release"  BY <1>0, ClaimMoves
    <2>3. (\E u \in Task : Dequeue(p, u)) => proc'[p].pc = "claim"  BY <1>0 DEF Dequeue, Idle
    <2> QED  BY ZenonT(60), <2>1, <2>2, <2>3 DEF Claimed
  <1> QED  BY Zenon, <1>1, <1>2, <1>3, <1>5, <1>6, <1>7, ProcMoves
-----------------------------------------------------------------------------
(* Live: without lapses a lease is kept for as long as its goroutine runs.  *)
Leased(r, w) == r.status = "processing" /\ ~r.due /\ r.owner = w

(* A goroutine that executes has just claimed, or executed before.          *)
LEMMA RunsBefore ==
  ASSUME IInv, [Next]_vars, NEW q \in Proc, Running(q)'
  PROVE  Claim(q) \/ (Running(q) /\ Kept(q))
  <1>0. proc \in [Proc -> ProcState]  BY DEF IInv, TypeOK
  <1>1. CASE Stays(q)  BY SMTT(30), <1>1 DEF Stays, Kept, Running
  <1>2. ~Gone(q) /\ ~Nacked(q) /\ ~ClaimFails(q)
    <2>1. ~ClaimFails(q)  BY <1>0, ClaimMoves DEF Running
    <2>2. ~Gone(q) /\ ~Nacked(q)  BY DEF Gone, Idle, Nacked, Running
    <2> QED  BY <2>1, <2>2
  <1>3. ~\E t \in Task : Dequeue(q, t)  BY ZenonT(60), <1>0 DEF Dequeue, Idle, Running
  <1>4. ~ExecuteSucceeds(q) /\ ~ExecuteFails(q)  BY Outcome DEF Running
  <1> QED  BY Zenon, <1>1, <1>2, <1>3, <1>4, ProcMoves

(* A failure that NoLapse leaves out does not happen.                       *)
LEMMA NoLapses ==
  ASSUME NoLapse, NEW k \in {"heartbeat", "stall", "linger"}
  PROVE  ~Fault(k)
  BY DEF NoLapse, Fault

(* No heartbeatLoop falls behind, so none is late.                          *)
LEMMA PunctualStep ==
  ASSUME IInv, NoLapse, [Next]_vars, Punctual
  PROVE  Punctual' /\ ~\E w \in Worker, t \in Task : LateHeartbeat(w, t)
  <1>0. lingering \in [Worker -> [Task -> Nat]]  BY DEF IInv, TypeOK
  <1>1. ASSUME lingering' = lingering  PROVE Punctual'  BY <1>1 DEF Punctual
  <1>2. ~\E w \in Worker, t \in Task : LateHeartbeat(w, t)  BY DEF Punctual, LateHeartbeat
  <1>3. ASSUME NEW p \in Proc, ProcStep(p)  PROVE lingering' = lingering
    <2>1. ~HeartbeatLingers(p)  BY Zenon, NoLapses DEF HeartbeatLingers
    <2> QED
      BY Zenon, <1>3, <2>1 DEF ProcStep, Dequeue, Claim, ClaimFails, AckMessage, ExecuteSucceeds,
         ExecuteFails, OutcomeLost, NackMessage, MarkRetry, BuryMessage, HeartbeatRenews,
         HeartbeatLost
  <1>4. ASSUME NEW w \in Worker, PoolStep(w)  PROVE Punctual'
    <2>1. CASE Restart(w) \/ Crash(w)
      <3>1. lingering' = [lingering EXCEPT ![w] = [t \in Task |-> 0]]
        BY Zenon, <2>1 DEF Restart, Crash
      <3> QED  BY <1>0, <3>1 DEF Punctual
    <2> QED  BY Zenon, <1>1, <1>4, <2>1 DEF PoolStep, Drain, ForceCancel
  <1>5. ASSUME \/ PromoteDelayed \/ FlushRedis \/ UNCHANGED vars
               \/ (\E c \in Client : ClientStep(c)) \/ (\E l \in Loop : LoopStep(l))
               \/ (\E a \in Agent : DispatchStep(a)) \/ (\E t \in Task : Elapse(t))
        PROVE  lingering' = lingering
    BY Zenon, <1>5 DEF PromoteDelayed, FlushRedis, vars, ClientStep, CreateTask, RetryTask,
       CancelTask, SoftDeleteTask, RemoveMessage, LoopStep, ReclaimScan, ReconcileScan,
       DispatchStep, DispatchEnqueue, DispatchMark, Abandon, Elapse
  <1>6. RebuildStep => lingering' = lingering
    BY Zenon DEF RebuildStep, StopWorkers, RebuildScan, RebuildRemove, RebuildEnqueue,
       RebuildMark, RebuildFails
  <1> QED  BY Zenon, <1>1, <1>2, <1>3, <1>4, <1>5, <1>6 DEF Next

(* The lease of a goroutine that executes stays its own.                    *)
LEMMA LeaseKept ==
  ASSUME IInv, Repairable, NoLapse, [Next]_vars, Punctual, \A q \in Proc : Live(q),
         NEW p \in Proc, Running(p), Running(p)'
  PROVE  Leased(row'[proc[p].task], PoolOf[p])
  <1> DEFINE t == proc[p].task
  <1>0. /\ row \in [Task -> DB!Row] /\ row[t] \in DB!Row /\ t \in Task
        /\ Leased(row[t], PoolOf[p]) /\ proc[p].heartbeat /\ proc[p].current
        /\ rebuild.pc = "mark" => rebuild.cur \in Task
        /\ \A q \in Proc : Running(q) /\ proc[q].task = t => q = p
    <2>1. row \in [Task -> DB!Row] /\ t \in Task  BY DEF IInv, TypeOK, Assigned, Running
    <2>2. Live(p)  OBVIOUS
    <2>3. rebuild.pc = "mark" => rebuild.cur \in Task  BY ZenonT(60) DEF IInv, TypeOK, RebuildState
    <2> QED  BY ZenonT(60), <2>1, <2>2, <2>3 DEF Live, Leased
  <1>1. ASSUME row'[t] = row[t]  PROVE Leased(row'[t], PoolOf[p])  BY ZenonT(60), <1>0, <1>1
  <1>2. row[t].status = "processing" /\ ~row[t].due  BY <1>0 DEF Leased
  <1>3. ASSUME NEW c \in Client, ClientStep(c)  PROVE row'[t] = row[t]
    BY ZenonT(60), <1>0, <1>2, <1>3 DEF ClientStep, CreateTask, RetryTask, CancelTask, SoftDeleteTask,
       RemoveMessage, DB!CanRequeue, DB!CanCancel, DB!CanSoftDelete, DB!IsTerminal, DB!Terminal
  <1>4. ASSUME NEW l \in Loop, LoopStep(l)  PROVE row'[t] = row[t]
    <2>1. CASE ReclaimScan(l)
      <3>1. PICK S \in SUBSET {u \in Task : DB!CanReclaim(row[u])} :
              row' = [u \in Task |-> IF u \in S THEN DB!ReclaimExpired(row[u]) ELSE row[u]]
        BY Zenon, <2>1 DEF ReclaimScan
      <3>2. t \notin S  BY SMTT(30), <1>2, <3>1 DEF DB!CanReclaim
      <3> QED  BY <1>0, <3>1, <3>2
    <2> QED  BY ZenonT(60), <1>4, <2>1 DEF LoopStep, ReconcileScan
  <1>5. ASSUME NEW a \in Agent, DispatchStep(a)  PROVE row'[t] = row[t]
    <2>1. CASE DispatchMark(a)  BY Zenon, <1>0, <1>2, <2>1 DEF DispatchMark, DB!CanMarkDispatched
    <2> QED  BY ZenonT(60), <1>5, <2>1 DEF DispatchStep, DispatchEnqueue, Abandon
  <1>6. ASSUME NEW q \in Proc, ProcStep(q)  PROVE Leased(row'[t], PoolOf[p])
    <2>0. proc[q].pc # "idle" => proc[q].task \in Task  BY ZenonT(60) DEF IInv, Assigned
    <2>1. Claim(q) => row'[t] = row[t]
      BY ZenonT(60), <1>0, <1>2 DEF Claim, DB!CanClaim
    <2>2. ASSUME ExecuteSucceeds(q) \/ ExecuteFails(q)  PROVE row'[t] = row[t]
      <3>1. Running(q)  BY Zenon, <2>2 DEF ExecuteSucceeds, ExecuteFails, Succeeds, Running
      <3>2. q # p  BY ZenonT(60), <2>2, Outcome DEF Running
      <3>3. proc[q].task # t  BY ZenonT(60), <1>0, <3>1, <3>2
      <3> QED  BY ZenonT(60), <1>0, <2>2, <3>3 DEF ExecuteSucceeds, ExecuteFails
    <2>3. MarkRetry(q) => row'[t] = row[t]  BY SMTT(30), <1>0, <1>2 DEF MarkRetry, DB!CanMarkDispatched
    <2>4. ASSUME HeartbeatRenews(q)  PROVE Leased(row'[t], PoolOf[p])
      <3>1. row'[t] = row[t] \/ row'[t] = DB!Heartbeat(row[t])
        BY Zenon, <1>0, <2>4 DEF HeartbeatRenews
      <3>2. Leased(DB!Heartbeat(row[t]), PoolOf[p])
        BY ZenonT(60), <1>0 DEF Leased, DB!Heartbeat, DB!Row
      <3> QED  BY ZenonT(60), <1>0, <3>1, <3>2
    <2> QED
      BY Zenon, <1>1, <1>6, <2>1, <2>2, <2>3, <2>4 DEF ProcStep, Dequeue, ClaimFails, AckMessage,
         OutcomeLost, NackMessage, BuryMessage, HeartbeatLost, HeartbeatLingers
  <1>7. ASSUME NEW u \in Task, Elapse(u)  PROVE row'[t] = row[t]
    <2>1. Renewed(t)  BY <1>0 DEF Renewed, Holds, Beating, Claimed, Running
    <2>2. ~Fault("stall")  BY NoLapses
    <2>3. u # t  BY ZenonT(60), <1>2, <1>7, <2>1, <2>2 DEF Elapse
    <2> QED  BY ZenonT(60), <1>0, <1>7, <2>3 DEF Elapse
  <1>8. ASSUME \/ PromoteDelayed \/ FlushRedis \/ UNCHANGED vars
               \/ \E w \in Worker : PoolStep(w)
        PROVE  row' = row
    BY Zenon, <1>8 DEF PromoteDelayed, FlushRedis, vars, PoolStep, Drain, ForceCancel, Restart, Crash
  <1>9. ASSUME RebuildStep  PROVE row'[t] = row[t]
    <2>1. RebuildMark => row'[t] = row[t]  BY ZenonT(60), <1>0, <1>2 DEF RebuildMark, DB!CanMarkDispatched
    <2> QED
      BY Zenon, <1>9, <2>1 DEF RebuildStep, StopWorkers, RebuildScan, RebuildRemove,
         RebuildEnqueue, RebuildFails
  <1>10. ~\E w \in Worker, u \in Task : LateHeartbeat(w, u)  BY PunctualStep
  <1> QED  BY Zenon, <1>1, <1>3, <1>4, <1>5, <1>6, <1>7, <1>8, <1>9, <1>10 DEF Next

(* Without lost or late heartbeats and stalls, who executes holds the lease. *)
LEMMA LiveStep ==
  ASSUME IInv, Repairable, NoLapse, [Next]_vars, Punctual, \A q \in Proc : Live(q),
         NEW p \in Proc
  PROVE  Live(p)'
  <1> SUFFICES ASSUME Running(p)'
               PROVE  /\ proc'[p].heartbeat /\ proc'[p].current
                      /\ Leased(row'[proc'[p].task], PoolOf[p])
                      /\ \A q \in Proc : Running(q)' /\ proc'[q].task = proc'[p].task => q = p
    BY DEF Live, Leased, Running
  <1>0. /\ row \in [Task -> DB!Row] /\ proc \in [Proc -> ProcState]
        /\ \A q \in Proc : proc[q].pc # "idle" => proc[q].task \in Task
    BY ZenonT(60) DEF IInv, TypeOK, Assigned
  <1>1. ASSUME NEW q \in Proc, Running(q), NEW r \in Proc, Claim(r)
        PROVE  proc[q].task # proc[r].task
    BY <1>1 DEF Live, Running, Claim, DB!CanClaim
  <1>2. CASE Claim(p)
    <2> DEFINE t == proc[p].task
    <2>1. /\ proc'[p].heartbeat /\ proc'[p].current /\ proc'[p].task = t /\ t \in Task
      BY Zenon, <1>0, <1>2, ClaimMoves DEF Claim
    <2>2. row'[t] = DB!ClaimForProcessing(row[t], PoolOf[p]) /\ row[t] \in DB!Row
      BY ZenonT(60), <1>0, <1>2, <2>1 DEF Claim
    <2>3. Leased(row'[t], PoolOf[p])
      BY ZenonT(60), <2>2 DEF Leased, DB!ClaimForProcessing, DB!Row
    <2>4. ASSUME NEW q \in Proc, Running(q)', proc'[q].task = t, q # p  PROVE FALSE
      <3>1. ~Claim(q)
        <4>1. Claim(q) => proc'[p].pc = proc[p].pc
          <5>1. Claim(q) => proc'[p] = [proc[p] EXCEPT !.current = @ /\ proc[p].task # proc[q].task]
            BY <2>4 DEF Claim
          <5> QED  BY ZenonT(60), <1>0, <5>1 DEF ProcState
        <4> QED  BY Zenon, <1>0, <1>2, <4>1, ClaimMoves DEF Claim
      <3>2. Running(q) /\ proc[q].task = t  BY ZenonT(60), <2>4, <3>1, RunsBefore DEF Kept
      <3> QED  BY ZenonT(60), <1>1, <1>2, <3>2
    <2> QED  BY ZenonT(60), <2>1, <2>3, <2>4
  <1>3. CASE Running(p) /\ Kept(p)
    <2> DEFINE t == proc[p].task
    <2>1. proc'[p].task = t /\ Live(p)  BY <1>3 DEF Kept
    <2>2. Leased(row'[t], PoolOf[p])  BY ZenonT(60), <1>3, LeaseKept
    <2>3. proc'[p].heartbeat
      <3>1. ~HeartbeatLost(p)
        BY ZenonT(60), <1>3, <2>1, NoLapses DEF HeartbeatLost, Live, DB!CanHeartbeat
      <3>2. ~HeartbeatLingers(p)  BY Zenon, NoLapses DEF HeartbeatLingers
      <3> QED  BY ZenonT(60), <1>3, <2>1, <3>1, <3>2 DEF Kept, Live
    <2>4. proc'[p].current  BY ZenonT(60), <1>1, <1>3, <2>1 DEF Kept, Live
    <2>5. ASSUME NEW q \in Proc, Running(q)', proc'[q].task = t  PROVE q = p
      <3>1. CASE Claim(q)
        <4>1. proc[q].task = t  BY ZenonT(60), <1>0, <2>5, <3>1, ClaimMoves
        <4> QED  BY ZenonT(60), <1>1, <1>3, <3>1, <4>1
      <3>2. CASE Running(q) /\ Kept(q)
        BY Zenon, <1>3, <2>1, <2>5, <3>2 DEF Kept, Live
      <3> QED  BY ZenonT(60), <2>5, <3>1, <3>2, RunsBefore
    <2> QED  BY ZenonT(60), <2>1, <2>2, <2>3, <2>4, <2>5
  <1> QED  BY ZenonT(60), <1>2, <1>3, RunsBefore
-----------------------------------------------------------------------------
(* A goroutine that dequeued the message of a visible pending row claims it. *)
LEMMA ClaimingKept ==
  ASSUME IInv, Recovery, Repairable, [Next]_vars, NEW t \in Task, NEW p \in Proc,
         Claiming(p, t), row[t].status = "pending", row[t].due, row'[t].status = "pending"
  PROVE  Claiming(p, t)'
  <1>0. /\ proc \in [Proc -> ProcState] /\ row \in [Task -> DB!Row] /\ row[t] \in DB!Row
        /\ PoolOf \in [Proc -> Worker] /\ None \notin Proc
        /\ inFlight \in [Worker -> [Task -> Proc \cup {None}]]
        /\ \A q \in Proc : proc[q].pc # "idle" => proc[q].task \in Task
    BY Zenon, QueueFlowAssumption DEF IInv, TypeOK, Assigned
  <1>1. proc[p].pc = "claim" /\ proc[p].task = t /\ ~proc[p].cancelled  BY DEF Claiming
  <1>2. Unclaimed(PoolOf[p])  BY ZenonT(60), <1>0, <1>1 DEF Unclaimed, Slots
  <1>3. ~Claim(p)
    <2>1. Claim(p) => row'[t] = DB!ClaimForProcessing(row[t], PoolOf[p])
      BY <1>0, <1>1 DEF Claim
    <2>2. DB!ClaimForProcessing(row[t], PoolOf[p]).status = "processing"
      BY ZenonT(60), <1>0 DEF DB!ClaimForProcessing, DB!Row
    <2> QED  BY <2>1, <2>2
  <1>4. ~ClaimFails(p)
    <2>1. ~row[t].deleted  BY DEF IInv, Steady, DB!Terminal
    <2>2. DB!CanClaim(row[t])  BY <2>1 DEF DB!CanClaim
    <2>3. ~Fault("skipLocked") /\ ~Fault("claim")  BY ZenonT(60), NoFault
    <2> QED  BY ZenonT(60), <1>1, <2>2, <2>3 DEF ClaimFails, Fails
  <1>5. ~Gone(p)
    <2>1. ~Crash(PoolOf[p])  BY Zenon, <1>2, NoFault DEF Crash
    <2> QED  BY ZenonT(60), <1>1, <2>1 DEF Gone
  <1>6. ~ForceCancel(PoolOf[p])  BY ZenonT(60), <1>2, NoFault DEF ForceCancel
  <1>7. ASSUME NEW q \in Proc, HeartbeatLost(q), inFlight[PoolOf[q]][proc[q].task] = p
        PROVE  FALSE
    <2>1. proc[q].pc \in Claimed /\ ~proc[q].cancelled /\ proc[q].task \in Task
      BY ZenonT(60), <1>0, <1>7 DEF HeartbeatLost, Beating, Claimed
    <2>2. PoolOf[p] = PoolOf[q] /\ proc[p].task = proc[q].task
      <3>1. Registered /\ PoolOf[q] \in Worker /\ p # None  BY <1>0 DEF Recovery
      <3> QED  BY Zenon, <1>7, <2>1, <3>1 DEF Registered
    <2>3. Misfires(PoolOf[q], proc[q].task)  BY ZenonT(60), <1>1, <1>7 DEF Misfires
    <2>4. NoLapse  BY ZenonT(60), <1>7, <2>3 DEF HeartbeatLost, Repairable
    <2>5. proc[q].task = t  BY ZenonT(60), <1>1, <2>2
    <2>6. proc[q].pc # "run"  BY ZenonT(60), <2>1, <2>4, <2>5 DEF Recovery, Live, Running
    <2>7. proc[q].pc \notin {"ack", "bury"}  BY ZenonT(60), <2>5 DEF Recovery, Ended, DB!Terminal
    <2>8. proc[q].pc \notin {"nack", "mark"}  BY ZenonT(60), <2>5 DEF Recovery, Backoff
    <2> QED  BY ZenonT(60), <2>1, <2>6, <2>7, <2>8 DEF Claimed
  <1>8. ASSUME NEW w \in Worker, NEW u \in Task, LateHeartbeat(w, u), inFlight[w][u] = p
        PROVE  FALSE
    <2>1. Misfires(w, u)  BY ZenonT(60), <1>1, <1>8 DEF Misfires
    <2>2. NoLapse  BY ZenonT(60), <1>8, <2>1 DEF LateHeartbeat, Repairable
    <2> QED  BY ZenonT(60), <1>8, <2>2, PunctualStep DEF Recovery
  <1>9. Stays(p) => Claiming(p, t)'
    BY ZenonT(60), <1>1, <1>6, <1>7, <1>8 DEF Stays, Kept, Cancelling, Claiming
  <1>10. /\ ~\E u \in Task : Dequeue(p, u)
         /\ ~ExecuteSucceeds(p) /\ ~ExecuteFails(p) /\ ~Nacked(p)
    BY <1>1 DEF Dequeue, ExecuteSucceeds, ExecuteFails, Nacked, NackMessage
  <1> QED  BY Zenon, <1>3, <1>4, <1>5, <1>9, <1>10, ProcMoves
-----------------------------------------------------------------------------
(* Where dispatched_at comes from.                                          *)
LEMMA DispatchedBefore ==
  ASSUME IInv, [Next]_vars, NEW t \in Task, row'[t].dispatched
  PROVE  \/ Announced(t)
         \/ \E p \in Proc : MarkRetry(p) /\ proc[p].task = t
  <1>0. /\ row \in [Task -> DB!Row] /\ row[t] \in DB!Row
        /\ \A p \in Proc : proc[p].pc # "idle" => proc[p].task \in Task
        /\ disp \in [Agent -> DispState]
    BY ZenonT(60) DEF IInv, TypeOK, Assigned
  <1>1. ASSUME row'[t] = row[t]  PROVE Announced(t)  BY <1>1 DEF Announced
  <1>2. /\ \A b \in BOOLEAN : ~DB!NewTask(b).dispatched
        /\ ~DB!Requeue(row[t]).dispatched
        /\ ~DB!ReclaimExpired(row[t]).dispatched
        /\ ~DB!Fail(row[t]).dispatched
    BY ZenonT(60), <1>0 DEF DB!NewTask, DB!Absent, DB!Requeue, DB!ReclaimExpired, DB!Fail, DB!Row
  <1>3. /\ DB!Cancel(row[t]).dispatched = row[t].dispatched
        /\ DB!SoftDelete(row[t]).dispatched = row[t].dispatched
        /\ DB!Complete(row[t]).dispatched = row[t].dispatched
        /\ DB!MoveToDeadLetter(row[t]).dispatched = row[t].dispatched
        /\ DB!Heartbeat(row[t]).dispatched = row[t].dispatched
        /\ [row[t] EXCEPT !.due = TRUE].dispatched = row[t].dispatched
    BY <1>0 DEF DB!Cancel, DB!SoftDelete, DB!Complete, DB!MoveToDeadLetter, DB!Heartbeat, DB!Row
  <1>4. \A w : DB!ClaimForProcessing(row[t], w).dispatched = row[t].dispatched
    BY <1>0 DEF DB!ClaimForProcessing, DB!Row
  <1>5. ASSUME NEW c \in Client, ClientStep(c)  PROVE Announced(t)
    <2>1. \/ row'[t] = row[t] \/ row'[t] = DB!Requeue(row[t]) \/ row'[t] = DB!Cancel(row[t])
          \/ row'[t] = DB!SoftDelete(row[t]) \/ \E b \in BOOLEAN : row'[t] = DB!NewTask(b)
      BY ZenonT(60), <1>0, <1>5 DEF ClientStep, CreateTask, RetryTask, CancelTask, SoftDeleteTask, RemoveMessage
    <2> QED  BY Zenon, <1>1, <1>2, <1>3, <2>1 DEF Announced
  <1>6. ASSUME NEW l \in Loop, LoopStep(l)  PROVE Announced(t)
    <2>1. row'[t] = row[t] \/ row'[t] = DB!ReclaimExpired(row[t])
      BY Zenon, <1>0, <1>6 DEF LoopStep, ReclaimScan, ReconcileScan
    <2> QED  BY Zenon, <1>1, <1>2, <2>1
  <1>7. ASSUME NEW a \in Agent, DispatchStep(a)  PROVE Announced(t)
    <2>1. row'[t] = row[t] \/ disp[a].cur = t
      BY Zenon, <1>0, <1>7 DEF DispatchStep, DispatchEnqueue, DispatchMark, Abandon
    <2> QED  BY Zenon, <1>1, <2>1 DEF Announced
  <1>8. ASSUME NEW p \in Proc, ProcStep(p)
        PROVE  Announced(t) \/ (MarkRetry(p) /\ proc[p].task = t)
    <2>1. \/ row'[t] = row[t] \/ row'[t] = DB!Complete(row[t]) \/ row'[t] = DB!Heartbeat(row[t])
          \/ row'[t] = DB!MoveToDeadLetter(row[t]) \/ row'[t] = DB!Fail(row[t])
          \/ (\E w \in Worker : row'[t] = DB!ClaimForProcessing(row[t], w))
          \/ MarkRetry(p) /\ proc[p].task = t
      <3>1. Claim(p) => \/ row'[t] = row[t]
                        \/ \E w \in Worker : row'[t] = DB!ClaimForProcessing(row[t], w)
        BY SMTT(30), <1>0, QueueFlowAssumption DEF Claim
      <3>2. ExecuteSucceeds(p) => row'[t] = row[t] \/ row'[t] = DB!Complete(row[t])
        BY SMTT(30), <1>0 DEF ExecuteSucceeds
      <3>3. ExecuteFails(p) => \/ row'[t] = row[t] \/ row'[t] = DB!Fail(row[t])
                               \/ row'[t] = DB!MoveToDeadLetter(row[t])
        BY ZenonT(60), <1>0 DEF ExecuteFails
      <3>4. HeartbeatRenews(p) => row'[t] = row[t] \/ row'[t] = DB!Heartbeat(row[t])
        BY ZenonT(60), <1>0 DEF HeartbeatRenews
      <3>5. MarkRetry(p) => row'[t] = row[t] \/ proc[p].task = t  BY Zenon, <1>0 DEF MarkRetry
      <3> QED
        BY Zenon, <1>8, <3>1, <3>2, <3>3, <3>4, <3>5 DEF ProcStep, Dequeue, ClaimFails, AckMessage,
           OutcomeLost, NackMessage, BuryMessage, HeartbeatLost, HeartbeatLingers
    <2> QED  BY Zenon, <1>1, <1>2, <1>3, <1>4, <2>1 DEF Announced
  <1>9. ASSUME NEW u \in Task, Elapse(u)  PROVE Announced(t)
    <2>1. row'[t] = row[t] \/ row'[t] = [row[t] EXCEPT !.due = TRUE]  BY ZenonT(60), <1>0, <1>9 DEF Elapse
    <2> QED  BY Zenon, <1>1, <1>3, <2>1 DEF Announced
  <1>10. ASSUME \/ PromoteDelayed \/ FlushRedis \/ UNCHANGED vars
                \/ \E w \in Worker : PoolStep(w)
         PROVE  row' = row
    BY Zenon, <1>10 DEF PromoteDelayed, FlushRedis, vars, PoolStep, Drain, ForceCancel, Restart, Crash
  <1>11. ASSUME RebuildStep  PROVE Announced(t)
    <2>1. RebuildMark => row'[t] = row[t] \/ Announced(t)  BY ZenonT(60), <1>0 DEF RebuildMark, Announced
    <2> QED
      BY Zenon, <1>1, <1>11, <2>1 DEF RebuildStep, StopWorkers, RebuildScan, RebuildRemove,
         RebuildEnqueue, RebuildFails
  <1>12. ASSUME NEW w \in Worker, NEW u \in Task, LateHeartbeat(w, u)  PROVE Announced(t)
    <2>1. row'[t] = row[t] \/ row'[t] = DB!Heartbeat(row[t])
      BY ZenonT(60), <1>0, <1>12 DEF LateHeartbeat
    <2> QED  BY Zenon, <1>1, <1>3, <2>1 DEF Announced
  <1> QED  BY Zenon, <1>1, <1>5, <1>6, <1>7, <1>8, <1>9, <1>10, <1>11, <1>12 DEF Next

(* Who sets dispatched_at has just put the message where it helps.          *)
LEMMA EnqueueCarries ==
  ASSUME IInv, NEW a \in Agent, Planned(a), NEW t \in Task, DispatchEnqueue(a, t),
         disp'[a].cur = t, row[t].status = "pending"
  PROVE  Carried(t)'
  <1>0. /\ redis \in MQ!Queues /\ disp \in [Agent -> DispState] /\ disp[a] \in DispState
        /\ t # None /\ row' = row
    BY ZenonT(60), QueueFlowAssumption DEF IInv, TypeOK, DispatchEnqueue
  <1>1. ~(disp' = [disp EXCEPT ![a] = Rest(a, t, None)])
    <2>1. Rest(a, t, None).cur = None  BY <1>0 DEF Rest, NoWork, DispState
    <2> QED  BY <1>0, <2>1
  <1>2. \/ redis' = MQ!EnqueueDelayed(redis, t)
        \/ /\ disp[a].op = "schedule" => ~NotYet(row[t])
           /\ redis' = MQ!Enqueue(redis, t)
    BY Zenon, <1>1 DEF DispatchEnqueue
  <1>3. CASE redis' = MQ!EnqueueDelayed(redis, t)
    BY ZenonT(60), <1>0, <1>3, AddedSets DEF Carried
  <1>4. CASE /\ disp[a].op = "schedule" => ~NotYet(row[t])
             /\ redis' = MQ!Enqueue(redis, t)
    <2>1. row[t].due
      <3>1. t \in disp[a].todo /\ disp[a].op \in {"create", "schedule", "dispatch"}
        BY ZenonT(60) DEF DispatchEnqueue
      <3> QED  BY ZenonT(60), <1>4, <3>1 DEF Planned, NotYet
    <2>2. t \in redis'.pending  BY <1>0, <1>4, AddedSets
    <2> QED  BY ZenonT(60), <1>0, <2>1, <2>2 DEF Carried
  <1> QED  BY ZenonT(60), <1>2, <1>3, <1>4

(* The Enqueue of the rebuild makes a path to a worker.                     *)
LEMMA RefillCarries ==
  ASSUME IInv, Halted, RebuildEnqueue, NEW t \in Task, rebuild.cur = t, row[t].status = "pending"
  PROVE  Carried(t)'
  <1>0. redis \in MQ!Queues /\ row' = row  BY DEF IInv, TypeOK, RebuildEnqueue
  <1>1. CASE redis' = MQ!EnqueueDelayed(redis, t)
    BY ZenonT(60), <1>0, <1>1, AddedSets DEF Carried
  <1>2. CASE (t \in rebuild.later => Ripe(t)) /\ redis' = MQ!Enqueue(redis, t)
    <2>1. row[t].due  BY <1>2 DEF Halted, RebuildEnqueue, Ripe
    <2>2. t \in redis'.pending  BY <1>0, <1>2, AddedSets
    <2> QED  BY ZenonT(60), <1>0, <2>1, <2>2 DEF Carried
  <1> QED  BY Zenon, <1>1, <1>2 DEF RebuildEnqueue

(* A dispatch that waits for its mark has enqueued its message.             *)
LEMMA CurBefore ==
  ASSUME IInv, [Next]_vars, NEW t \in Task, NEW a \in Agent, disp'[a].cur = t
  PROVE  disp[a].cur = t \/ (DispatchEnqueue(a, t) /\ disp'[a].cur = t)
  <1>0. /\ disp \in [Agent -> DispState] /\ t # None
        /\ Client \subseteq Agent /\ Loop \subseteq Agent
    BY QueueFlowAssumption DEF IInv, TypeOK, Agent
  <1>1. ASSUME NEW c \in Client, ClientStep(c)  PROVE disp'[a] = disp[a] \/ disp'[a].cur = None
    <2>1. ASSUME NEW u \in Task, CreateTask(c, u)
          PROVE  disp'[a] = disp[a] \/ disp'[a].cur = None
      <3>1. PICK op : disp' = [disp EXCEPT ![c] = [op |-> op, todo |-> {u}, cur |-> None]]
        BY Zenon, <2>1 DEF CreateTask
      <3> QED  BY <1>0, <3>1
    <2>2. ASSUME NEW u \in Task, RetryTask(c, u) \/ CancelTask(c, u) \/ SoftDeleteTask(c, u)
          PROVE  disp'[a] = disp[a] \/ disp'[a].cur = None
      BY <1>0, <2>2 DEF RetryTask, CancelTask, SoftDeleteTask
    <2>3. RemoveMessage(c) => disp'[a] = disp[a] \/ disp'[a].cur = None
      BY <1>0 DEF RemoveMessage, NoWork
    <2> QED  BY Zenon, <1>1, <2>1, <2>2, <2>3 DEF ClientStep
  <1>2. ASSUME NEW l \in Loop, LoopStep(l)  PROVE disp'[a] = disp[a] \/ disp'[a].cur = None
    BY <1>0, <1>2 DEF LoopStep, ReclaimScan, ReconcileScan
  <1>3. ASSUME NEW b \in Agent, DispatchStep(b)
        PROVE  \/ disp'[a] = disp[a] \/ disp'[a].cur = None
               \/ \E u \in Task : DispatchEnqueue(a, u) /\ disp'[a].cur = u
    <2>1. CASE b # a
      BY Zenon, <1>0, <1>3, <2>1 DEF DispatchStep, DispatchEnqueue, DispatchMark, Abandon
    <2>2. \A u : Rest(a, u, None).cur = None
      BY <1>0 DEF Rest, NoWork, DispState
    <2>3. \A u \in Task : Rest(a, u, u).cur = u
      BY ZenonT(60), <1>0, QueueFlowAssumption DEF Rest, NoWork, DispState
    <2>4. DispatchMark(a) \/ Abandon(a) => disp'[a].cur = None
      BY <1>0, <2>2 DEF DispatchMark, Abandon, NoWork
    <2>5. ASSUME NEW u \in Task, DispatchEnqueue(a, u)
          PROVE  disp'[a].cur = None \/ disp'[a].cur = u
      <3>1. disp'[a] = Rest(a, u, u) \/ disp'[a] = Rest(a, u, None)
        BY <1>0, <2>5 DEF DispatchEnqueue
      <3> QED  BY Zenon, <2>2, <2>3, <3>1
    <2> QED  BY Zenon, <1>3, <2>1, <2>4, <2>5 DEF DispatchStep
  <1> QED  BY Zenon, <1>0, <1>1, <1>2, <1>3, DispFrame DEF Next

(* So has the rebuild.                                                      *)
LEMMA MarkBefore ==
  ASSUME IInv, [Next]_vars, NEW t \in Task, rebuild'.pc = "mark", rebuild'.cur = t
  PROVE  (rebuild.pc = "mark" /\ rebuild.cur = t) \/ (RebuildEnqueue /\ rebuild.cur = t)
  <1>0. rebuild \in RebuildState /\ t # None  BY QueueFlowAssumption DEF IInv, TypeOK
  <1>1. CASE rebuild' = rebuild  BY ZenonT(60), <1>1
  <1>2. ~FlushRedis /\ ~StopWorkers /\ ~RebuildScan /\ ~RebuildFails
    BY DEF FlushRedis, StopWorkers, RebuildScan, RebuildFails, Rebuild
  <1>3. ~RebuildMark /\ ~\E u \in Task : RebuildRemove(u)
    <2>1. RebuildMark => rebuild'.pc \in {"idle", "clear"}
      BY <1>0 DEF RebuildMark, Rebuild, RebuildState
    <2>2. ASSUME NEW u \in Task, RebuildRemove(u)  PROVE rebuild'.pc = "refill"
      BY <1>0, <2>2 DEF RebuildRemove, RebuildState
    <2> QED  BY <2>1, <2>2
  <1>4. RebuildEnqueue => rebuild.cur = t
    BY <1>0 DEF RebuildEnqueue, RebuildState
  <1> QED  BY Zenon, <1>1, <1>2, <1>3, <1>4, RebuildFrozen DEF RebuildStep

(* A task becomes announced only together with its message.                 *)
LEMMA AnnouncedBefore ==
  ASSUME IInv, [Next]_vars, NEW t \in Task, Announced(t)'
  PROVE  \/ Announced(t)
         \/ \E p \in Proc : MarkRetry(p) /\ proc[p].task = t
         \/ \E a \in Agent : DispatchEnqueue(a, t) /\ disp'[a].cur = t
         \/ RebuildEnqueue /\ rebuild.cur = t
  BY Zenon, DispatchedBefore, CurBefore, MarkBefore DEF Announced

(* What the rebuild has yet to enqueue stays on its list until it is        *)
(* enqueued.                                                                *)
LEMMA LostStep ==
  ASSUME IInv, Halted, [Next]_vars, NEW t \in Task, row[t].status = "pending", Lost(t)
  PROVE  Carried(t)' \/ Lost(t)'
  <1>0. rebuild \in RebuildState /\ t # None  BY QueueFlowAssumption DEF IInv, TypeOK
  <1>1. CASE rebuild' = rebuild  BY ZenonT(60), <1>1 DEF Lost
  <1>2. CASE FlushRedis \/ StopWorkers \/ RebuildFails
    BY <1>2 DEF FlushRedis, StopWorkers, RebuildFails, Rebuild, Lost
  <1>3. CASE RebuildScan
    <2>1. DB!Dispatchable(row[t])  BY SMTT(30) DEF IInv, Steady, DB!Dispatchable, DB!Terminal
    <2>2. rebuild'.pc = "clear" /\ t \in rebuild'.todo  BY ZenonT(60), <1>3, <2>1 DEF RebuildScan
    <2> QED  BY ZenonT(60), <2>2 DEF Lost
  <1>4. ASSUME NEW u \in Task, RebuildRemove(u)  PROVE Lost(t)'
    <2>1. rebuild' = [pc |-> "refill", todo |-> rebuild.todo \ {u}, later |-> rebuild.later, cur |-> u]
      BY ZenonT(60), <1>0, <1>4 DEF RebuildRemove, RebuildState
    <2>2. t \in rebuild.todo  BY ZenonT(60), <1>4 DEF RebuildRemove, Lost
    <2> QED  BY ZenonT(60), <2>1, <2>2 DEF Lost
  <1>5. CASE RebuildEnqueue
    <2>1. rebuild' = [pc |-> "mark", todo |-> rebuild.todo, later |-> rebuild.later,
                      cur |-> rebuild.cur]
      BY <1>0, <1>5 DEF RebuildEnqueue, RebuildState
    <2>2. t \in rebuild.todo \/ rebuild.cur = t  BY ZenonT(60), <1>5 DEF RebuildEnqueue, Lost
    <2>3. t \in rebuild.todo => Lost(t)'  BY ZenonT(60), <2>1 DEF Lost
    <2> QED  BY ZenonT(60), <1>5, <2>2, <2>3, RefillCarries
  <1>6. CASE RebuildMark
    <2>1. t \in rebuild.todo  BY <1>6 DEF RebuildMark, Lost
    <2>2. rebuild' = [pc |-> "clear", todo |-> rebuild.todo, later |-> rebuild.later,
                      cur |-> None]
      BY ZenonT(60), <1>0, <1>6, <2>1 DEF RebuildMark, RebuildState
    <2> QED  BY <2>1, <2>2 DEF Lost
  <1> QED  BY Zenon, <1>1, <1>2, <1>3, <1>4, <1>5, <1>6, RebuildFrozen DEF RebuildStep

(* A path to a worker is kept, unless it is lost with Redis.                *)
LEMMA CarriedStep ==
  ASSUME IInv, Recovery, Repairable, [Next]_vars, NEW t \in Task, row[t].status = "pending",
         row'[t].status = "pending", SameLife(t), Carried(t)
  PROVE  Carried(t)' \/ Lost(t)'
  <1>0. /\ proc \in [Proc -> ProcState] /\ rebuild \in RebuildState
        /\ row[t].due => row'[t].due
    BY Zenon DEF IInv, TypeOK, SameLife
  <1>1. CASE FlushRedis  BY SMTT(30), <1>1 DEF FlushRedis, Rebuild, Lost
  <1>2. CASE RebuildRemove(t)
    <2>1. rebuild' = [pc |-> "refill", todo |-> rebuild.todo \ {t}, later |-> rebuild.later, cur |-> t]
      BY Zenon, <1>0, <1>2 DEF RebuildRemove, RebuildState
    <2> QED  BY Zenon, <2>1 DEF Lost
  <1>3. CASE Delivers(t)
    <2>1. CASE t \in redis.delayed  BY Zenon, <1>0, <1>3, <2>1 DEF Delivers, Carried
    <2>2. CASE row[t].due /\ t \in redis.pending
      <3>1. ASSUME NEW p \in Proc, Dequeue(p, t)  PROVE Claiming(p, t)'
        <4>1. proc'[p] = [Idle EXCEPT !.pc = "claim", !.task = t]  BY <1>0, <3>1 DEF Dequeue
        <4> QED  BY <4>1 DEF Idle, Claiming
      <3> QED  BY Zenon, <1>0, <1>3, <2>2, <3>1 DEF Delivers, Carried
    <2>3. CASE row[t].due /\ \E p \in Proc : Claiming(p, t)
      BY Zenon, <1>0, <2>3, ClaimingKept DEF Carried
    <2> QED  BY Zenon, <2>1, <2>2, <2>3 DEF Carried
  <1> QED  BY Zenon, <1>1, <1>2, <1>3, Delivered DEF Recovery

(* Every announced pending task keeps a path, or is on the list of the      *)
(* rebuild.                                                                 *)
LEMMA QueuedStep ==
  ASSUME IInv, Recovery, Repairable, [Next]_vars, NEW t \in Task
  PROVE  Queued(t)'
  <1> SUFFICES ASSUME row'[t].status = "pending", Announced(t)'
               PROVE  Carried(t)' \/ Lost(t)'
    BY ZenonT(60) DEF Queued
  <1>0. Evolves(t) /\ rebuild \in RebuildState  BY RowEvolves DEF IInv, TypeOK
  <1>1. row[t].status = "pending" /\ SameLife(t)
    <2>1. ASSUME NewLife(t) \/ FirstLife(t)  PROVE FALSE
      <3>1. ~row'[t].dispatched /\ row'[t] # row[t] /\ row[t].status # "pending"
        BY Zenon, <2>1 DEF NewLife, FirstLife
      <3>2. ~RebuildEnqueue /\ ~\E a \in Agent : DispatchEnqueue(a, t)
        BY Zenon, <3>1 DEF RebuildEnqueue, DispatchEnqueue
      <3>4. ~\E a \in Agent : disp[a].cur = t
        <4> SUFFICES ASSUME NEW a \in Agent, disp[a].cur = t  PROVE FALSE
          BY SMTT(30)
        <4>1. Trailing(t) /\ row[t].status # "absent"
          BY Zenon, QueueFlowAssumption DEF Trailing, Recovery, Planned
        <4> QED  BY Zenon, <2>1, <4>1 DEF NewLife, FirstLife
      <3>5. ~(rebuild.pc = "mark" /\ rebuild.cur = t)
        <4> SUFFICES ASSUME rebuild.pc = "mark", rebuild.cur = t  PROVE FALSE
          BY SMTT(30)
        <4>1. Trailing(t) /\ row[t].status # "absent"  BY Zenon DEF Trailing, Recovery, Halted
        <4> QED  BY Zenon, <2>1, <4>1 DEF NewLife, FirstLife
      <3>7. Announced(t)' => \/ row'[t].dispatched \/ (\E a \in Agent : disp'[a].cur = t)
                             \/ rebuild'.pc = "mark" /\ rebuild'.cur = t
        BY DEF Announced
      <3> QED  BY Zenon, <3>1, <3>2, <3>4, <3>5, <3>7, CurBefore, MarkBefore
    <2> QED  BY Zenon, <1>0, <2>1 DEF Evolves, SameLife
  <1>2. CASE Announced(t)
    BY Zenon, <1>1, <1>2, CarriedStep, LostStep DEF Recovery, Queued
  <1>3. ASSUME NEW p \in Proc, MarkRetry(p), proc[p].task = t  PROVE Carried(t)' \/ Lost(t)'
    <2>1. t \in redis.delayed \/ Emptied  BY ZenonT(60), <1>1, <1>3 DEF MarkRetry, Recovery, Backoff, Emptied
    <2>2. redis' = redis /\ rebuild' = rebuild  BY SMTT(30), <1>3 DEF MarkRetry
    <2> QED  BY ZenonT(60), <2>1, <2>2 DEF Carried, Lost, Emptied
  <1> QED  BY Zenon, <1>1, <1>2, <1>3, AnnouncedBefore, EnqueueCarries, RefillCarries DEF Recovery
-----------------------------------------------------------------------------
(* The invariant holds at the start: there is no task and no goroutine.     *)
LEMMA InitRecovery == Init => Recovery
<1> SUFFICES ASSUME Init  PROVE Recovery  BY ZenonT(60)
<1>1. \A t \in Task : row[t].status = "absent"  BY ZenonT(60) DEF Init, DB!Absent
<1>2. \A p \in Proc : proc[p].pc = "idle"  BY ZenonT(60) DEF Init, Idle
<1>3. \A a \in Agent : disp[a].cur = None /\ disp[a].todo = {}  BY DEF Init, NoWork
<1>4. rebuild.pc = "idle"  BY DEF Init, Rebuild
<1>5. \A w \in Worker, t \in Task : inFlight[w][t] = None  BY DEF Init
<1>6. \A t \in Task : Queued(t)  BY ZenonT(60), <1>1 DEF Queued
<1>7. \A p \in Proc : Ended(p) /\ Backoff(p)  BY ZenonT(60), <1>2 DEF Ended, Backoff, Claimed
<1>8. \A p \in Proc : Live(p)  BY ZenonT(60), <1>2 DEF Live, Running
<1>9. \A a \in Agent : Planned(a)  BY <1>3 DEF Planned
<1>10. Halted  BY ZenonT(60), <1>4 DEF Halted, Stopped
<1>11. Registered  BY <1>5 DEF Registered
<1>12. Punctual  BY DEF Init, Punctual
<1> QED  BY ZenonT(60), <1>6, <1>7, <1>8, <1>9, <1>10, <1>11, <1>12 DEF Recovery

(* Every step of the system keeps the invariant.                            *)
LEMMA RecoveryStep ==
  ASSUME Repairable, IInv, Recovery, [Next]_vars
  PROVE  Recovery'
  <1>1. \A t \in Task : Queued(t)'  BY QueuedStep
  <1>2. \A p \in Proc : Ended(p)'  BY EndedStep DEF Recovery
  <1>3. \A p \in Proc : Backoff(p)'  BY BackoffStep DEF Recovery
  <1>4. NoLapse => Punctual' /\ \A p \in Proc : Live(p)'
    BY Zenon, LiveStep, PunctualStep DEF Recovery
  <1>5. \A a \in Agent : Planned(a)'  BY PlannedStep DEF Recovery
  <1>6. Halted'  BY HaltedStep DEF Recovery
  <1>7. Registered'  BY RegisteredStep DEF Recovery
  <1>8. NoLapse' = NoLapse  BY DEF NoLapse
  <1> QED  BY Zenon, <1>1, <1>2, <1>3, <1>4, <1>5, <1>6, <1>7, <1>8 DEF Recovery

(* No pending row that ReconciliationLoop (engine.go:275) skips is left     *)
(* without a way to a worker, for any number of tasks, pools, slots,        *)
(* requests and loops and any number of the failures of Repairable: crashes *)
(* after the claim, lost enqueues, nacks, acks and writes, abandoned        *)
(* requests, drains, losses of Redis followed by redis-rebuild, and failed  *)
(* or late heartbeats and leases that expire, as long as no heartbeatLoop   *)
(* that ends cancels a goroutine of the same task before its claim.         *)
(* Without failed or late heartbeats and expired leases that too may        *)
(* happen.                                                                  *)
THEOREM NoStrandedHolds == Repairable => (Spec => []NoStranded)
  <1> SUFFICES ASSUME Repairable  PROVE Spec => []NoStranded
    OBVIOUS
  <1>1. IInv /\ Recovery /\ [Next]_vars => Recovery'  BY ZenonT(60), RecoveryStep
  <1>2. Recovery => NoStranded
    <2> SUFFICES ASSUME Recovery, rebuild.pc = "idle", NEW t \in Task,
                        row[t].status = "pending", row[t].dispatched
                 PROVE  Reachable(t)
      BY DEF NoStranded
    <2>1. Carried(t)  BY DEF Recovery, Queued, Announced, Lost
    <2> QED  BY ZenonT(60), <2>1 DEF Carried, Claiming, Reachable
  <1> QED  BY <1>1, <1>2, InitRecovery, SteadyInvariant, PTL DEF Spec
=============================================================================
