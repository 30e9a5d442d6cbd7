-------------------------- MODULE QueueMovesProofs --------------------------
(***************************************************************************)
(* What the proof of recovery needs to know of QueueFlow: the invariant of *)
(* QueueRecoveryProofs, how a step may move a row, a goroutine, the list   *)
(* of a request, loop or rebuild and the messages of a task, and that the  *)
(* parts of the invariant about lists and the rebuild are kept.            *)
(***************************************************************************)
EXTENDS QueueFlowProofs

(* The failures the loops and the rebuild repair: all but those that let a  *)
(* message be consumed without a claim, and late calls.  A heartbeatLoop    *)
(* that cancels a goroutine before its claim consumes a message too.  It    *)
(* can do so at the wrong time only after a heartbeat failed, a lease of a  *)
(* live goroutine expired or the loop fell behind.                          *)
NoLapse == Faults \cap {"heartbeat", "stall", "linger"} = {}

Repairable ==
  /\ Faults \cap {"claim", "skipLocked", "early", "late", "skew"} = {}
  /\ "misfire" \in Faults => NoLapse

(* A message, or a goroutine that will claim, is there for t.  A message    *)
(* in the pending set helps only if the row is visible when it is claimed.  *)
Claiming(p, t) ==
  proc[p].pc = "claim" /\ proc[p].task = t /\ ~proc[p].cancelled

Carried(t) ==
  \/ t \in redis.delayed
  \/ row[t].due /\ (t \in redis.pending \/ \E p \in Proc : Claiming(p, t))

(* The rebuild has yet to enqueue t.                                        *)
Lost(t) ==
  \/ rebuild.pc \in {"flushed", "stopping"}
  \/ rebuild.pc \in {"clear", "refill", "mark"} /\ t \in rebuild.todo
  \/ rebuild.pc = "refill" /\ rebuild.cur = t

(* dispatched_at is set, or about to be set.                                *)
Announced(t) ==
  \/ row[t].dispatched
  \/ \E a \in Agent : disp[a].cur = t
  \/ rebuild.pc = "mark" /\ rebuild.cur = t

Queued(t) == row[t].status = "pending" /\ Announced(t) => Carried(t) \/ Lost(t)

(* What a goroutine knows of the row of its task after it wrote the outcome. *)
Ended(p) == proc[p].pc \in {"ack", "bury"} => row[proc[p].task].status \in DB!Terminal

Backoff(p) ==
  /\ proc[p].pc \in Claimed => row[proc[p].task].status # "absent"
  /\ proc[p].pc \in {"nack", "mark"} /\ row[proc[p].task].status = "pending" =>
       /\ ~row[proc[p].task].due
       /\ proc[p].pc = "mark" =>
            proc[p].task \in redis.delayed \/ rebuild.pc \in {"flushed", "stopping"}

(* A goroutine that executes and is not cancelled holds the lease.          *)
Running(p) == proc[p].pc = "run" /\ ~proc[p].cancelled

Live(p) ==
  Running(p) =>
    /\ proc[p].heartbeat /\ proc[p].current
    /\ row[proc[p].task].status = "processing" /\ ~row[proc[p].task].due
    /\ row[proc[p].task].owner = PoolOf[p]
    /\ \A q \in Proc : Running(q) /\ proc[q].task = proc[p].task => q = p

(* What a request or loop knows of the rows on its list.                    *)
Planned(a) ==
  /\ disp[a].cur # None => row[disp[a].cur].status # "absent"
  /\ \A t \in disp[a].todo :
       /\ row[t].status # "absent"
       /\ disp[a].op = "remove" => row[t].status \in DB!Terminal
       /\ disp[a].op \in {"create", "dispatch"} /\ row[t].status = "pending" => row[t].due
       /\ disp[a].op = "schedule" /\ row[t].status = "pending" =>
            row[t].due \/ row[t].attempts = 0

(* What the rebuild knows: the workers are gone, and so is the time until   *)
(* the tasks it did not list as later become visible.                       *)
Halted ==
  /\ Stopped => \A w \in Worker : mode[w] # "up"
  /\ rebuild.pc \in {"clear", "refill", "mark"} =>
       /\ \A p \in Proc : proc[p].pc = "idle"
       /\ \A t \in Task : t \in rebuild.todo \/ t = rebuild.cur =>
            /\ row[t].status # "absent"
            /\ t \notin rebuild.later /\ row[t].status = "pending" => row[t].due

(* An inFlight entry names a goroutine of the pool that works on the task.  *)
Registered ==
  \A w \in Worker, t \in Task : inFlight[w][t] # None =>
    /\ PoolOf[inFlight[w][t]] = w
    /\ proc[inFlight[w][t]].pc # "idle"
    /\ proc[inFlight[w][t]].task = t

(* No heartbeatLoop outlives its goroutine.                                 *)
Punctual == \A w \in Worker, t \in Task : lingering[w][t] = 0

Recovery ==
  /\ \A t \in Task : Queued(t)
  /\ \A p \in Proc : Ended(p) /\ Backoff(p)
  /\ NoLapse => Punctual /\ \A p \in Proc : Live(p)
  /\ \A a \in Agent : Planned(a)
  /\ Halted
  /\ Registered

-----------------------------------------------------------------------------
(* A failure the theorem leaves out does not happen.                        *)
LEMMA NoFault ==
  ASSUME Repairable,
         NEW k \in {"claim", "skipLocked", "early", "late", "skew"}
  PROVE  ~Fault(k)
  BY DEF Repairable, Fault

(* A task is rescheduled only after every call for its earlier life was     *)
(* made.                                                                    *)
LEMMA OnTime ==
  ASSUME Repairable, NEW S, Reschedules(S), NEW t \in S
  PROVE  ~Trailing(t)
  BY NoFault DEF Reschedules

(* What a step may do to the row of t: it stays in its life, or begins one  *)
(* that nobody has a call of an earlier life left for.                      *)
SameLife(t) ==
  /\ row[t].status = "pending"
  /\ row'[t].attempts = row[t].attempts
  /\ row[t].due => row'[t].due
  /\ row'[t].due => row[t].due \/ ~Retrying(t)

NewLife(t) ==
  /\ row[t].status \notin {"absent", "pending"}
  /\ ~Trailing(t)
  /\ ~row'[t].dispatched
  /\ row'[t].due \/ \E p \in Proc : proc[p].pc # "idle"

FirstLife(t) ==
  row[t].status = "absent" /\ row'[t].attempts = 0 /\ ~row'[t].dispatched

Evolves(t) ==
  /\ row[t].status # "absent" => row'[t].status # "absent"
  /\ row[t].status \in DB!Terminal => row'[t].status \in DB!Terminal \/ ~Trailing(t)
  /\ row'[t].status = "pending" => SameLife(t) \/ NewLife(t) \/ FirstLife(t)

(* A row that no statement touches.                                         *)
LEMMA EvolvesSame ==
  ASSUME NEW t \in Task, row'[t] = row[t],
         row[t].status # "pending" => row'[t].status # "pending"
  PROVE  Evolves(t)
  BY Zenon DEF Evolves, SameLife

(* A row that is not pending afterwards and did not come back from an end.  *)
LEMMA EvolvesAway ==
  ASSUME NEW t \in Task, row'[t].status \notin {"pending", "absent"},
         row[t].status \in DB!Terminal => row'[t].status \in DB!Terminal
  PROVE  Evolves(t)
  BY Zenon DEF Evolves

(* A pending row of which a statement changes neither attempts nor          *)
(* visible_at.                                                              *)
LEMMA EvolvesPending ==
  ASSUME NEW t \in Task, row[t].status = "pending", row'[t].status = "pending",
         row'[t].attempts = row[t].attempts, row'[t].due = row[t].due
  PROVE  Evolves(t)
  BY Zenon DEF Evolves, SameLife, DB!Terminal

(* The statements of the API requests.                                      *)
LEMMA ClientEvolves ==
  ASSUME IInv, Repairable, NEW c \in Client, ClientStep(c), NEW t \in Task
  PROVE  Evolves(t)
  <1>0. row \in [Task -> DB!Row] /\ row[t] \in DB!Row  BY DEF IInv, TypeOK
  <1>1. CASE row'[t] = row[t]  BY <1>1, EvolvesSame
  <1>2. CASE CreateTask(c, t)
    <2>1. PICK b \in BOOLEAN : row'[t] = DB!NewTask(b)  BY <1>0, <1>2 DEF CreateTask
    <2>2. row'[t].status = "pending" /\ row'[t].attempts = 0 /\ ~row'[t].dispatched
      BY <2>1 DEF DB!NewTask, DB!Absent
    <2>3. row[t].status = "absent"  BY <1>2 DEF CreateTask
    <2> QED  BY Zenon, <2>2, <2>3 DEF Evolves, FirstLife, DB!Terminal
  <1>3. CASE RetryTask(c, t)
    <2>1. row'[t] = DB!Requeue(row[t]) /\ DB!CanRequeue(row[t]) /\ Reschedules({t})
      BY <1>0, <1>3 DEF RetryTask
    <2>2. row'[t].status = "pending" /\ row'[t].due /\ ~row'[t].dispatched
      BY ZenonT(30), <1>0, <2>1 DEF DB!Requeue, DB!Row
    <2>3. row[t].status \notin {"absent", "pending"}  BY <2>1 DEF DB!CanRequeue
    <2>4. ~Trailing(t)  BY <2>1, OnTime
    <2> QED  BY Zenon, <2>2, <2>3, <2>4 DEF Evolves, NewLife
  <1>4. CASE CancelTask(c, t)
    <2>1. row'[t] = DB!Cancel(row[t])  BY <1>0, <1>4 DEF CancelTask
    <2>2. row'[t].status = "cancelled"  BY ZenonT(30), <1>0, <2>1 DEF DB!Cancel, DB!Row
    <2> QED  BY <2>2, EvolvesAway DEF DB!Terminal
  <1>5. CASE SoftDeleteTask(c, t)
    <2>1. row'[t] = DB!SoftDelete(row[t]) /\ DB!CanSoftDelete(row[t])
      BY <1>0, <1>5 DEF SoftDeleteTask
    <2>2. row'[t].status = row[t].status /\ row[t].status \in DB!Terminal
      BY <1>0, <2>1 DEF DB!SoftDelete, DB!CanSoftDelete, DB!IsTerminal, DB!Row
    <2> QED  BY <2>2, EvolvesAway DEF DB!Terminal
  <1> QED
    BY ZenonT(30), <1>0, <1>1, <1>2, <1>3, <1>4, <1>5
    DEF ClientStep, CreateTask, RetryTask, CancelTask, SoftDeleteTask, RemoveMessage

(* MarkDispatched, whether or not its WHERE clause holds.                   *)
LEMMA EvolvesMarked ==
  ASSUME NEW t \in Task, row[t] \in DB!Row,
         row'[t] = IF DB!CanMarkDispatched(row[t]) THEN DB!MarkDispatched(row[t]) ELSE row[t]
  PROVE  Evolves(t)
  <1>1. CASE DB!CanMarkDispatched(row[t])
    <2>1. /\ row[t].status = "pending" /\ row'[t].status = "pending"
          /\ row'[t].attempts = row[t].attempts /\ row'[t].due = row[t].due
      BY <1>1 DEF DB!CanMarkDispatched, DB!MarkDispatched, DB!Row
    <2> QED  BY <2>1, EvolvesPending
  <1>2. CASE ~DB!CanMarkDispatched(row[t])  BY <1>2, EvolvesSame
  <1> QED  BY <1>1, <1>2

(* The scans of the reclaim and reconciliation loops.                       *)
LEMMA LoopEvolves ==
  ASSUME IInv, Repairable, NEW l \in Loop, LoopStep(l), NEW t \in Task
  PROVE  Evolves(t)
  <1>0. row \in [Task -> DB!Row] /\ row[t] \in DB!Row  BY DEF IInv, TypeOK
  <1>1. CASE row' = row  BY <1>1, EvolvesSame
  <1>2. CASE ReclaimScan(l)
    <2>1. PICK S \in SUBSET {u \in Task : DB!CanReclaim(row[u])} :
            /\ row' = [u \in Task |-> IF u \in S THEN DB!ReclaimExpired(row[u]) ELSE row[u]]
            /\ Reschedules(S)
      BY Zenon, <1>2 DEF ReclaimScan
    <2>2. CASE t \notin S
      <3>1. row'[t] = row[t]  BY <2>1, <2>2
      <3> QED  BY <3>1, EvolvesSame
    <2>3. CASE t \in S
      <3>1. row'[t] = DB!ReclaimExpired(row[t]) /\ DB!CanReclaim(row[t])  BY <2>1, <2>3
      <3>2. row'[t].status = "pending" /\ row'[t].due /\ ~row'[t].dispatched
        BY ZenonT(30), <1>0, <3>1 DEF DB!ReclaimExpired, DB!Row
      <3>3. row[t].status = "processing"  BY <3>1 DEF DB!CanReclaim
      <3>4. ~Trailing(t)  BY <2>1, <2>3, OnTime
      <3> QED  BY Zenon, <3>2, <3>3, <3>4 DEF Evolves, NewLife
    <2> QED  BY <2>2, <2>3
  <1> QED  BY Zenon, <1>1, <1>2 DEF LoopStep, ReconcileScan

(* The Enqueue / MarkDispatched pair of requests and loops.                 *)
LEMMA DispatchEvolves ==
  ASSUME IInv, NEW a \in Agent, DispatchStep(a), NEW t \in Task
  PROVE  Evolves(t)
  <1>0. /\ row \in [Task -> DB!Row] /\ row[t] \in DB!Row
        /\ disp[a].cur # None => disp[a].cur \in Task
    BY DEF IInv, TypeOK, DispState
  <1>1. CASE row'[t] = row[t]  BY <1>1, EvolvesSame
  <1>2. CASE DispatchMark(a) /\ disp[a].cur = t
    BY ZenonT(30), <1>0, <1>1, <1>2, EvolvesMarked DEF DispatchMark
  <1>3. DispatchMark(a) /\ disp[a].cur # t => row'[t] = row[t]  BY <1>0 DEF DispatchMark
  <1> QED  BY Zenon, <1>1, <1>2, <1>3 DEF DispatchStep, DispatchEnqueue, Abandon

(* The statements of a goroutine: its claim, its outcome, its heartbeat.    *)
LEMMA ProcEvolves ==
  ASSUME IInv, Repairable, NEW p \in Proc, ProcStep(p), NEW t \in Task
  PROVE  Evolves(t)
  <1>0. /\ row \in [Task -> DB!Row] /\ row[t] \in DB!Row /\ proc[p] \in ProcState
        /\ proc[p].pc # "idle" => proc[p].task \in Task
    BY DEF IInv, TypeOK, Assigned
  <1>1. CASE row'[t] = row[t]  BY <1>1, EvolvesSame
  <1>2. ASSUME proc[p].task = t, Claim(p)  PROVE Evolves(t)
    <2>1. row'[t] = DB!ClaimForProcessing(row[t], PoolOf[p]) /\ DB!CanClaim(row[t])
      BY <1>0, <1>2 DEF Claim
    <2>2. row'[t].status = "processing"  BY ZenonT(30), <1>0, <2>1 DEF DB!ClaimForProcessing, DB!Row
    <2>3. row[t].status \notin DB!Terminal  BY <2>1 DEF DB!CanClaim, DB!Terminal
    <2> QED  BY <2>2, <2>3, EvolvesAway
  <1>3. ASSUME proc[p].task = t, ExecuteSucceeds(p)  PROVE Evolves(t)
    <2>1. row'[t] = DB!Complete(row[t])  BY <1>0, <1>3 DEF ExecuteSucceeds
    <2>2. row'[t].status = "completed"  BY ZenonT(30), <1>0, <2>1 DEF DB!Complete, DB!Row
    <2> QED  BY <2>2, EvolvesAway DEF DB!Terminal
  <1>4. ASSUME proc[p].task = t, ExecuteFails(p)  PROVE Evolves(t)
    <2>1. row[t].status = "processing"  BY <1>4 DEF ExecuteFails, DB!CanFinish
    <2>2. CASE DB!IsExhausted(proc[p].attempts)
      <3>1. row'[t] = DB!MoveToDeadLetter(row[t])  BY <1>0, <1>4, <2>2 DEF ExecuteFails
      <3>2. row'[t].status = "dead_letter"
        BY ZenonT(30), <1>0, <3>1 DEF DB!MoveToDeadLetter, DB!Row
      <3> QED  BY <3>2, EvolvesAway DEF DB!Terminal
    <2>3. CASE ~DB!IsExhausted(proc[p].attempts)
      <3>1. row'[t] = DB!Fail(row[t]) /\ Reschedules({t})  BY <1>0, <1>4, <2>3 DEF ExecuteFails
      <3>2. row'[t].status = "pending" /\ ~row'[t].dispatched
        BY ZenonT(30), <1>0, <3>1 DEF DB!Fail, DB!Row
      <3>3. ~Trailing(t)  BY <3>1, OnTime
      <3>4. proc[p].pc # "idle"  BY <1>4 DEF ExecuteFails
      <3> QED  BY Zenon, <2>1, <3>2, <3>3, <3>4 DEF Evolves, NewLife
    <2> QED  BY <2>2, <2>3
  <1>5. ASSUME proc[p].task = t, MarkRetry(p)  PROVE Evolves(t)
    BY ZenonT(30), <1>0, <1>1, <1>5, EvolvesMarked DEF MarkRetry
  <1>6. ASSUME proc[p].task = t, HeartbeatRenews(p)  PROVE Evolves(t)
    <2>1. row'[t] = DB!Heartbeat(row[t]) /\ row[t].status = "processing"
      BY <1>0, <1>6 DEF HeartbeatRenews, Beating, Claimed, DB!CanHeartbeat
    <2>2. row'[t].status = "processing"  BY ZenonT(30), <1>0, <2>1 DEF DB!Heartbeat, DB!Row
    <2> QED  BY ZenonT(60), <2>1, <2>2, EvolvesAway DEF DB!Terminal
  <1>7. ASSUME proc[p].task # t  PROVE row'[t] = row[t]
    <2>1. Claim(p) => row'[t] = row[t]  BY <1>0, <1>7 DEF Claim
    <2>2. ExecuteSucceeds(p) => row'[t] = row[t]  BY ZenonT(60), <1>0, <1>7 DEF ExecuteSucceeds
    <2>3. ExecuteFails(p) => row'[t] = row[t]  BY <1>0, <1>7 DEF ExecuteFails
    <2>4. MarkRetry(p) => row'[t] = row[t]  BY <1>0, <1>7 DEF MarkRetry
    <2>5. HeartbeatRenews(p) => row'[t] = row[t]  BY <1>0, <1>7 DEF HeartbeatRenews
    <2> QED
      BY Zenon, <2>1, <2>2, <2>3, <2>4, <2>5
      DEF ProcStep, Dequeue, ClaimFails, AckMessage, OutcomeLost, NackMessage, BuryMessage,
          HeartbeatLost, HeartbeatLingers
  <1> QED
    BY Zenon, <1>1, <1>2, <1>3, <1>4, <1>5, <1>6, <1>7
    DEF ProcStep, Dequeue, ClaimFails, AckMessage, OutcomeLost, NackMessage, BuryMessage,
        HeartbeatLost, HeartbeatLingers

(* A late heartbeat renews a row that is processing.                        *)
LEMMA LateEvolves ==
  ASSUME IInv, NEW w \in Worker, NEW u \in Task, LateHeartbeat(w, u), NEW t \in Task
  PROVE  Evolves(t)
  <1>0. row \in [Task -> DB!Row] /\ row[t] \in DB!Row  BY ZenonT(60) DEF IInv, TypeOK
  <1>1. CASE row'[t] = row[t]  BY <1>1, EvolvesSame
  <1>2. ASSUME row'[t] # row[t]
        PROVE  row'[t] = DB!Heartbeat(row[t]) /\ row[t].status = "processing"
    BY ZenonT(60), <1>0, <1>2 DEF LateHeartbeat, DB!CanHeartbeat
  <1>3. DB!Heartbeat(row[t]).status = row[t].status  BY ZenonT(60), <1>0 DEF DB!Heartbeat, DB!Row
  <1> QED  BY ZenonT(60), <1>1, <1>2, <1>3, EvolvesAway DEF DB!Terminal

(* Time: a pending row becomes visible and stays so.                        *)
LEMMA ElapseEvolves ==
  ASSUME IInv, Repairable, NEW u \in Task, Elapse(u), NEW t \in Task
  PROVE  Evolves(t)
  <1>0. row \in [Task -> DB!Row] /\ row[t] \in DB!Row  BY DEF IInv, TypeOK
  <1>1. CASE u # t
    <2>1. row'[t] = row[t]  BY <1>0, <1>1 DEF Elapse
    <2> QED  BY <2>1, EvolvesSame
  <1>2. CASE u = t
    <2>1. row'[t] = [row[t] EXCEPT !.due = TRUE]  BY <1>0, <1>2 DEF Elapse
    <2>2. /\ row'[t].status = row[t].status /\ row'[t].attempts = row[t].attempts
          /\ row'[t].due
      BY ZenonT(30), <1>0, <2>1 DEF DB!Row
    <2>3. row[t].status \in {"pending", "processing"}  BY <1>2 DEF Elapse
    <2>4. row[t].status = "pending" => ~Retrying(t)  BY <1>2, NoFault DEF Elapse
    <2> QED  BY Zenon, <2>2, <2>3, <2>4 DEF Evolves, SameLife, DB!Terminal
  <1> QED  BY <1>1, <1>2

(* No step of the system moves a row in another way.                        *)
LEMMA RowEvolves ==
  ASSUME IInv, Repairable, [Next]_vars, NEW t \in Task
  PROVE  Evolves(t)
  <1>0. /\ row \in [Task -> DB!Row] /\ row[t] \in DB!Row
        /\ rebuild.pc = "mark" => rebuild.cur \in Task
    BY DEF IInv, TypeOK, RebuildState
  <1>1. CASE row'[t] = row[t]  BY <1>1, EvolvesSame
  <1>2. CASE RebuildMark
    <2>1. rebuild.cur # t => row'[t] = row[t]  BY <1>0, <1>2 DEF RebuildMark
    <2>2. rebuild.cur = t => /\ DB!CanMarkDispatched(row[t])
                             /\ row'[t] = DB!MarkDispatched(row[t])
      BY <1>0, <1>2 DEF RebuildMark
    <2> QED  BY Zenon, <1>0, <1>1, <2>1, <2>2, EvolvesMarked
  <1>3. ASSUME \/ PromoteDelayed \/ FlushRedis \/ UNCHANGED vars
               \/ \E w \in Worker : PoolStep(w)
        PROVE  row' = row
    BY Zenon, <1>3 DEF PromoteDelayed, FlushRedis, vars, PoolStep, Drain, ForceCancel, Restart, Crash
  <1>4. RebuildStep => RebuildMark \/ row' = row
    BY Zenon DEF RebuildStep, StopWorkers, RebuildScan, RebuildRemove, RebuildEnqueue, RebuildFails
  <1> QED
    BY Zenon, <1>1, <1>2, <1>3, <1>4, ClientEvolves, LoopEvolves, DispatchEvolves,
       ProcEvolves, LateEvolves, ElapseEvolves DEF Next
-----------------------------------------------------------------------------
(* What a step may do to a goroutine.                                       *)
Cancelling(q) ==
  \/ ForceCancel(PoolOf[q])
  \/ \E p \in Proc : HeartbeatLost(p) /\ inFlight[PoolOf[p]][proc[p].task] = q
  \/ \E w \in Worker, t \in Task : LateHeartbeat(w, t) /\ inFlight[w][t] = q

Kept(q) ==
  /\ proc'[q].task = proc[q].task
  /\ proc'[q].cancelled = proc[q].cancelled \/ Cancelling(q)
  /\ proc[q].cancelled => proc'[q].cancelled
  /\ proc'[q].heartbeat = proc[q].heartbeat \/ HeartbeatLost(q) \/ HeartbeatLingers(q)
  /\ \/ proc'[q].current = proc[q].current
     \/ \E p \in Proc : p # q /\ Claim(p) /\ proc[p].task = proc[q].task

Stays(q) == /\ proc'[q].pc = proc[q].pc
            /\ proc[q].pc # "idle" => Kept(q)

Gone(q) == /\ proc[q].pc # "idle" /\ proc'[q] = Idle
           /\ \/ Leave(q) /\ proc[q].pc # "claim"
              \/ \E w \in Worker : Crash(w) /\ PoolOf[q] = w

Nacked(q) == /\ NackMessage(q) /\ redis' = MQ!Nack(redis, proc[q].task)
             /\ proc'[q].pc = "mark" /\ proc'[q].task = proc[q].task

(* A goroutine that does not move.                                          *)
LEMMA SameStays == \A q : proc'[q] = proc[q] => Stays(q)
  BY Zenon DEF Stays, Kept

(* What a step may do to the goroutine q: it stays, leaves, or takes one of *)
(* the steps of its loop.                                                   *)
LEMMA ProcMoves ==
  ASSUME IInv, [Next]_vars, NEW q \in Proc
  PROVE  \/ Stays(q) \/ Gone(q)
         \/ (\E t \in Task : Dequeue(q, t)) \/ Claim(q) \/ ClaimFails(q)
         \/ ExecuteSucceeds(q) \/ ExecuteFails(q) \/ Nacked(q)
  <1>0. proc \in [Proc -> ProcState] /\ proc[q] \in ProcState  BY DEF IInv, TypeOK
  <1>1. CASE proc' = proc  BY <1>1, SameStays
  <1>2. ASSUME NEW p \in Proc, ProcStep(p)
        PROVE  \/ Stays(q) \/ Gone(q)
               \/ (\E t \in Task : Dequeue(q, t)) \/ Claim(q) \/ ClaimFails(q)
               \/ ExecuteSucceeds(q) \/ ExecuteFails(q) \/ Nacked(q)
    <2>1. CASE Claim(p)
      <3>1. CASE p = q  BY <2>1, <3>1
      <3>2. CASE p # q
        <4>1. proc'[q] = [proc[q] EXCEPT !.current = @ /\ proc[q].task # proc[p].task]
          BY <2>1, <3>2 DEF Claim
        <4>2. /\ proc'[q].pc = proc[q].pc /\ proc'[q].task = proc[q].task
              /\ proc'[q].cancelled = proc[q].cancelled
              /\ proc'[q].heartbeat = proc[q].heartbeat
              /\ proc[q].task # proc[p].task => proc'[q].current = proc[q].current
          BY <1>0, <4>1 DEF ProcState
        <4> QED  BY Zenon, <2>1, <3>2, <4>2 DEF Stays, Kept
      <3> QED  BY <3>1, <3>2
    <2>2. CASE HeartbeatLost(p)
      <3> DEFINE v == inFlight[PoolOf[p]][proc[p].task]
      <3>1. proc'[q] = [proc[q] EXCEPT !.heartbeat = @ /\ q # p, !.cancelled = @ \/ q = v]
        BY Zenon, <2>2 DEF HeartbeatLost
      <3>2. /\ proc'[q].pc = proc[q].pc /\ proc'[q].task = proc[q].task
            /\ proc'[q].current = proc[q].current
            /\ q # p => proc'[q].heartbeat = proc[q].heartbeat
            /\ q # v => proc'[q].cancelled = proc[q].cancelled
            /\ proc[q].cancelled => proc'[q].cancelled
        <4> HIDE DEF v
        <4> QED  BY <1>0, <3>1 DEF ProcState
      <3> QED  BY Zenon, <2>2, <3>2 DEF Stays, Kept, Cancelling
    <2>3. CASE HeartbeatRenews(p)  BY Zenon, <1>1, <2>3 DEF HeartbeatRenews
    <2>4. CASE Leave(p)
      <3>1. p = q => proc'[q] = Idle  BY <1>0, <2>4 DEF Leave
      <3>2. p # q => proc'[q] = proc[q]  BY <1>0, <2>4 DEF Leave
      <3>3. p = q /\ proc[q].pc = "idle" => Stays(q)  BY <3>1 DEF Idle, Stays
      <3>4. p = q /\ proc[q].pc = "claim" => Claim(q) \/ ClaimFails(q)
        BY <1>2 DEF ProcStep, Dequeue, AckMessage, ExecuteSucceeds, ExecuteFails, OutcomeLost,
           NackMessage, MarkRetry, BuryMessage, HeartbeatRenews, HeartbeatLost, HeartbeatLingers,
           Beating, Claimed
      <3> QED  BY Zenon, <2>4, <3>1, <3>2, <3>3, <3>4, SameStays DEF Gone
    <2>5. ASSUME NEW t \in Task, Dequeue(p, t), p # q  PROVE Stays(q)
      BY ZenonT(60), <1>0, <2>5, SameStays DEF Dequeue
    <2>6. ASSUME ExecuteSucceeds(p) \/ ExecuteFails(p), p # q  PROVE Stays(q)
      BY ZenonT(60), <1>0, <2>6, SameStays DEF ExecuteSucceeds, ExecuteFails, Settle
    <2>7. ASSUME ClaimFails(p), p # q  PROVE Stays(q)
      BY <1>0, <2>7, SameStays DEF ClaimFails
    <2>8. CASE NackMessage(p) /\ ~Leave(p)
      <3>1. proc' = [proc EXCEPT ![p].pc = "mark"] /\ redis' = MQ!Nack(redis, proc[p].task)
        BY Zenon, <2>8 DEF NackMessage
      <3>2. p # q => Stays(q)  BY <1>0, <3>1, SameStays
      <3>3. p = q => proc'[q].pc = "mark" /\ proc'[q].task = proc[q].task
        BY <1>0, <3>1 DEF ProcState
      <3> QED  BY Zenon, <2>8, <3>1, <3>2, <3>3 DEF Nacked
    <2>9. CASE HeartbeatLingers(p)
      <3>1. p # q => Stays(q)  BY ZenonT(60), <1>0, <2>9, SameStays DEF HeartbeatLingers
      <3>2. p = q => /\ proc'[q].pc = proc[q].pc /\ proc'[q].task = proc[q].task
                     /\ proc'[q].current = proc[q].current
                     /\ proc'[q].cancelled = proc[q].cancelled
        BY ZenonT(60), <1>0, <2>9 DEF HeartbeatLingers, ProcState
      <3> QED  BY ZenonT(60), <2>9, <3>1, <3>2 DEF Stays, Kept
    <2> QED
      BY Zenon, <1>2, <2>1, <2>2, <2>3, <2>4, <2>5, <2>6, <2>7, <2>8, <2>9
      DEF ProcStep, AckMessage, OutcomeLost, MarkRetry, BuryMessage
  <1>3. ASSUME NEW w \in Worker, PoolStep(w)  PROVE Stays(q) \/ Gone(q)
    <2>1. CASE ForceCancel(w)
      <3> DEFINE b == q \in Slots(w) /\ \E t \in Task : inFlight[w][t] = q
      <3>1. /\ proc'[q] = [proc[q] EXCEPT !.cancelled = @ \/ b]
            /\ b => PoolOf[q] = w
        BY <2>1 DEF ForceCancel, Slots
      <3> HIDE DEF b
      <3>2. /\ proc'[q].pc = proc[q].pc /\ proc'[q].task = proc[q].task
            /\ proc'[q].current = proc[q].current
            /\ proc'[q].heartbeat = proc[q].heartbeat
            /\ ~b => proc'[q].cancelled = proc[q].cancelled
            /\ proc[q].cancelled => proc'[q].cancelled
        BY <1>0, <3>1 DEF ProcState
      <3> QED  BY Zenon, <2>1, <3>1, <3>2 DEF Stays, Kept, Cancelling
    <2>2. CASE Crash(w)
      <3>1. PoolOf[q] # w => proc'[q] = proc[q]  BY <1>0, <2>2 DEF Crash, Slots
      <3>2. PoolOf[q] = w => proc'[q] = Idle  BY <2>2 DEF Crash, Slots
      <3>3. PoolOf[q] = w /\ proc[q].pc = "idle" => Stays(q)  BY <3>2 DEF Idle, Stays
      <3> QED  BY Zenon, <2>2, <3>1, <3>2, <3>3, SameStays DEF Gone
    <2> QED  BY Zenon, SameStays, <1>3, <2>1, <2>2 DEF PoolStep, Drain, Restart
  <1>4. ASSUME \/ PromoteDelayed \/ UNCHANGED vars
               \/ (\E c \in Client : ClientStep(c)) \/ (\E l \in Loop : LoopStep(l))
               \/ (\E a \in Agent : DispatchStep(a)) \/ (\E t \in Task : Elapse(t))
        PROVE  proc' = proc
    BY Zenon, <1>4 DEF PromoteDelayed, vars, ClientStep, CreateTask, RetryTask, CancelTask,
       SoftDeleteTask, RemoveMessage, LoopStep, ReclaimScan, ReconcileScan, DispatchStep,
       DispatchEnqueue, DispatchMark, Abandon, Elapse
  <1>5. FlushRedis \/ RebuildStep => proc' = proc  BY RebuildFrame
  <1>6. ASSUME NEW w \in Worker, NEW t \in Task, LateHeartbeat(w, t)  PROVE Stays(q)
    <2> DEFINE v == inFlight[w][t]
    <2>1. proc'[q] = [proc[q] EXCEPT !.cancelled = @ \/ q = v]  BY Zenon, <1>6 DEF LateHeartbeat
    <2>2. /\ proc'[q].pc = proc[q].pc /\ proc'[q].task = proc[q].task
          /\ proc'[q].current = proc[q].current /\ proc'[q].heartbeat = proc[q].heartbeat
          /\ q # v => proc'[q].cancelled = proc[q].cancelled
          /\ proc[q].cancelled => proc'[q].cancelled
      <3> HIDE DEF v
      <3> QED  BY <1>0, <2>1 DEF ProcState
    <2> QED  BY Zenon, <1>6, <2>2 DEF Stays, Kept, Cancelling
  <1> QED  BY Zenon, <1>1, <1>2, <1>3, <1>4, <1>5, <1>6 DEF Next

(* What a goroutine is after each of its own steps.                         *)
LEMMA ClaimMoves ==
  ASSUME NEW p \in Proc, proc \in [Proc -> ProcState]
  PROVE  /\ Claim(p) => /\ proc'[p].pc = "run" /\ proc'[p].task = proc[p].task
                        /\ proc'[p].heartbeat /\ proc'[p].current
                        /\ ~proc[p].cancelled /\ ~proc'[p].cancelled
         /\ ClaimFails(p) => proc'[p].pc = "release" /\ proc'[p].task = proc[p].task
  <1>0. proc[p] \in ProcState  OBVIOUS
  <1>1. ASSUME Claim(p)
        PROVE  /\ proc'[p].pc = "run" /\ proc'[p].task = proc[p].task
               /\ proc'[p].heartbeat /\ proc'[p].current
               /\ ~proc[p].cancelled /\ ~proc'[p].cancelled
    <2>1. PICK n : proc'[p] = [proc[p] EXCEPT !.pc = "run", !.heartbeat = TRUE,
                                              !.attempts = n, !.current = TRUE]
      BY Zenon, <1>1 DEF Claim
    <2>2. ~proc[p].cancelled  BY <1>1 DEF Claim, Succeeds
    <2> QED  BY ZenonT(30), <1>0, <2>1, <2>2 DEF ProcState
  <1>2. ASSUME ClaimFails(p)  PROVE proc'[p].pc = "release" /\ proc'[p].task = proc[p].task
    BY <1>0, <1>2 DEF ClaimFails, ProcState
  <1> QED  BY <1>1, <1>2

(* Registered: the goroutine an inFlight entry names is still at work.      *)
LEMMA RegisteredStep ==
  ASSUME IInv, Registered, [Next]_vars
  PROVE  Registered'
  <1>0. /\ proc \in [Proc -> ProcState] /\ PoolOf \in [Proc -> Worker]
        /\ inFlight \in [Worker -> [Task -> Proc \cup {None}]]
        /\ \A p \in Proc : proc[p].pc # "idle" => proc[p].task \in Task
    BY QueueFlowAssumption DEF IInv, TypeOK, Assigned
  <1> SUFFICES ASSUME NEW w \in Worker, NEW t \in Task, inFlight'[w][t] # None
               PROVE  /\ PoolOf[inFlight'[w][t]] = w
                      /\ proc'[inFlight'[w][t]].pc # "idle"
                      /\ proc'[inFlight'[w][t]].task = t
    BY DEF Registered
  <1> DEFINE v == inFlight[w][t]
  <1>1. v # None => /\ v \in Proc /\ PoolOf[v] = w /\ proc[v].pc # "idle" /\ proc[v].task = t
    BY <1>0 DEF Registered
  <1>2. ASSUME NEW p \in Proc, Leave(p), proc[p].pc # "idle"
        PROVE  inFlight'[w][t] = v /\ v # p
    <2>1. PoolOf[p] \in Worker /\ proc[p].task \in Task  BY <1>0, <1>2
    <2>2. ~(w = PoolOf[p] /\ t = proc[p].task)  BY ZenonT(60), <1>0, <1>2, <2>1 DEF Leave
    <2>3. inFlight'[w][t] = v  BY ZenonT(60), <1>0, <1>2, <2>1, <2>2 DEF Leave
    <2> QED  BY <1>1, <2>2, <2>3
  <1>3. ASSUME NEW p \in Proc, NEW u \in Task, Dequeue(p, u)
        PROVE  \/ inFlight'[w][t] = v /\ v # p
               \/ inFlight'[w][t] = p /\ PoolOf[p] = w /\ u = t
    <2>1. v # p  BY <1>1, <1>3 DEF Dequeue
    <2> QED  BY ZenonT(60), <1>0, <1>3, <2>1 DEF Dequeue
  <1>4. ASSUME NEW x \in Worker, Crash(x)
        PROVE  inFlight'[w][t] = v /\ w # x
    BY <1>0, <1>4 DEF Crash
  <1>5. \/ inFlight'[w][t] = v
        \/ \E p \in Proc, u \in Task :
             Dequeue(p, u) /\ inFlight'[w][t] = p /\ PoolOf[p] = w /\ u = t
    <2>1. ASSUME NEW p \in Proc, ProcStep(p), Leave(p)
          PROVE  inFlight'[w][t] = v \/ \E u \in Task : Dequeue(p, u)
      <3>1. CASE proc[p].pc # "idle"  BY ZenonT(60), <1>2, <2>1, <3>1
      <3>2. CASE proc[p].pc = "idle"
        BY ZenonT(60), <2>1, <3>2 DEF ProcStep, Claim, ClaimFails, AckMessage, ExecuteSucceeds,
           ExecuteFails, OutcomeLost, NackMessage, MarkRetry, BuryMessage, HeartbeatRenews,
           HeartbeatLost, HeartbeatLingers, Beating, Claimed
      <3> QED  BY <3>1, <3>2
    <2>2. ASSUME NEW p \in Proc, ProcStep(p)
          PROVE  inFlight' = inFlight \/ Leave(p) \/ \E u \in Task : Dequeue(p, u)
      BY Zenon, <2>2 DEF ProcStep, Claim, ClaimFails, AckMessage, ExecuteSucceeds, ExecuteFails,
         OutcomeLost, NackMessage, MarkRetry, BuryMessage, HeartbeatRenews, HeartbeatLost,
         HeartbeatLingers
    <2>3. ASSUME NEW x \in Worker, PoolStep(x)  PROVE inFlight' = inFlight \/ Crash(x)
      BY Zenon, <2>3 DEF PoolStep, Drain, ForceCancel, Restart
    <2>4. ASSUME \/ PromoteDelayed \/ FlushRedis \/ UNCHANGED vars
                 \/ (\E c \in Client : ClientStep(c)) \/ (\E l \in Loop : LoopStep(l))
                 \/ (\E a \in Agent : DispatchStep(a)) \/ (\E u \in Task : Elapse(u))
          PROVE  inFlight' = inFlight
      BY Zenon, <2>4 DEF PromoteDelayed, FlushRedis, vars, ClientStep, CreateTask, RetryTask,
         CancelTask, SoftDeleteTask, RemoveMessage, LoopStep, ReclaimScan, ReconcileScan,
         DispatchStep, DispatchEnqueue, DispatchMark, Abandon, Elapse
    <2>5. RebuildStep => inFlight' = inFlight
      BY Zenon DEF RebuildStep, StopWorkers, RebuildScan, RebuildRemove, RebuildEnqueue,
         RebuildMark, RebuildFails
    <2>6. ASSUME NEW x \in Worker, NEW u \in Task, LateHeartbeat(x, u)  PROVE inFlight' = inFlight
      BY Zenon, <2>6 DEF LateHeartbeat
    <2> QED  BY ZenonT(60), <1>3, <1>4, <2>1, <2>2, <2>3, <2>4, <2>5, <2>6 DEF Next
  <1>6. CASE inFlight'[w][t] = v
    <2>1. v \in Proc /\ PoolOf[v] = w /\ proc[v].pc # "idle" /\ proc[v].task = t
      BY SMTT(30), <1>1, <1>6
    <2>2. ~\E u \in Task : Dequeue(v, u)  BY ZenonT(30), <2>1 DEF Dequeue
    <2>3. Stays(v) => proc'[v].pc # "idle" /\ proc'[v].task = t  BY ZenonT(60), <2>1 DEF Stays, Kept
    <2>4. Claim(v) \/ ClaimFails(v) => proc'[v].pc # "idle" /\ proc'[v].task = t
      BY SMTT(30), <1>0, <2>1, ClaimMoves
    <2>5. ExecuteSucceeds(v) \/ ExecuteFails(v) => proc'[v].pc # "idle" /\ proc'[v].task = t
      <3>1. ASSUME NEW pc \in {"ack", "bury", "nack"}, Settle(v, pc)
            PROVE  proc'[v].pc # "idle" /\ proc'[v].task = t
        BY ZenonT(60), <1>0, <2>1, <3>1 DEF Settle, ProcState
      <3> QED  BY Zenon, <3>1 DEF ExecuteSucceeds, ExecuteFails
    <2>6. Nacked(v) => proc'[v].pc # "idle" /\ proc'[v].task = t  BY ZenonT(60), <2>1 DEF Nacked
    <2>7. ~Gone(v)
      <3>1. ~Leave(v)  BY ZenonT(60), <1>2, <2>1
      <3>2. \A x \in Worker : Crash(x) => w # x  BY <1>4
      <3> QED  BY ZenonT(60), <2>1, <3>1, <3>2 DEF Gone
    <2> QED  BY Zenon, <1>6, <2>1, <2>2, <2>3, <2>4, <2>5, <2>6, <2>7, ProcMoves
  <1>7. ASSUME NEW p \in Proc, Dequeue(p, t), inFlight'[w][t] = p, PoolOf[p] = w
        PROVE  /\ PoolOf[inFlight'[w][t]] = w
               /\ proc'[inFlight'[w][t]].pc # "idle"
               /\ proc'[inFlight'[w][t]].task = t
    <2>1. proc'[p] = [Idle EXCEPT !.pc = "claim", !.task = t]  BY <1>0, <1>7 DEF Dequeue
    <2>2. proc'[p].pc = "claim" /\ proc'[p].task = t  BY <2>1 DEF Idle
    <2> QED  BY <1>7, <2>2
  <1> QED  BY Zenon, <1>5, <1>6, <1>7
-----------------------------------------------------------------------------
(* Planned: nobody but the request or loop itself changes what is on its    *)
(* list, and no row on it begins another life.                              *)
Shrinks(a) ==
  /\ disp'[a].todo \subseteq disp[a].todo
  /\ disp'[a].todo # {} => disp'[a].op = disp[a].op
  /\ disp'[a].cur # None => disp'[a].cur \in disp[a].todo \cup {disp[a].cur}

(* A list that gets shorter stays true of rows that evolve.                 *)
LEMMA ShrinksPlanned ==
  ASSUME IInv, Repairable, [Next]_vars, NEW a \in Agent, Planned(a), Shrinks(a)
  PROVE  Planned(a)'
  <1>0. disp[a].todo \subseteq Task /\ disp[a].cur \in Task \cup {None} /\ None \notin Task
    BY QueueFlowAssumption DEF IInv, TypeOK, DispState
  <1>1. \A t \in Task : Evolves(t)  BY RowEvolves
  <1>2. ASSUME disp'[a].cur # None  PROVE row'[disp'[a].cur].status # "absent"
    <2>1. disp'[a].cur \in Task /\ row[disp'[a].cur].status # "absent"
      BY Zenon, <1>0, <1>2 DEF Shrinks, Planned
    <2> QED  BY Zenon, <1>1, <2>1 DEF Evolves
  <1>3. ASSUME NEW t \in disp'[a].todo
        PROVE  /\ row'[t].status # "absent"
               /\ disp'[a].op = "remove" => row'[t].status \in DB!Terminal
               /\ disp'[a].op \in {"create", "dispatch"} /\ row'[t].status = "pending" =>
                    row'[t].due
               /\ disp'[a].op = "schedule" /\ row'[t].status = "pending" =>
                    row'[t].due \/ row'[t].attempts = 0
    <2>1. t \in disp[a].todo /\ t \in Task /\ disp'[a].op = disp[a].op  BY <1>0, <1>3 DEF Shrinks
    <2>2. Trailing(t) /\ Evolves(t)  BY ZenonT(60), <1>1, <2>1 DEF Trailing
    <2>3. /\ row[t].status # "absent"
          /\ disp[a].op = "remove" => row[t].status \in DB!Terminal
          /\ disp[a].op \in {"create", "dispatch"} /\ row[t].status = "pending" => row[t].due
          /\ disp[a].op = "schedule" /\ row[t].status = "pending" =>
               row[t].due \/ row[t].attempts = 0
      BY <2>1 DEF Planned
    <2>4. row'[t].status = "pending" => SameLife(t)
      BY Zenon, <2>2, <2>3 DEF Evolves, NewLife, FirstLife
    <2> QED  BY Zenon, <2>1, <2>2, <2>3, <2>4 DEF Evolves, SameLife
  <1> QED  BY Zenon, <1>2, <1>3 DEF Planned

(* A request writes the row before it has the task on its list.             *)
LEMMA RequestPlanned ==
  ASSUME IInv, NEW c \in Client, NEW t \in Task,
         CreateTask(c, t) \/ RetryTask(c, t) \/ CancelTask(c, t) \/ SoftDeleteTask(c, t)
  PROVE  Planned(c)'
  <1>0. /\ row \in [Task -> DB!Row] /\ row[t] \in DB!Row
        /\ c \in Agent /\ disp \in [Agent -> DispState]
    BY DEF IInv, TypeOK, Agent
  <1>1. CASE CreateTask(c, t)
    <2>1. PICK b \in BOOLEAN :
            /\ row'[t] = DB!NewTask(b)
            /\ disp'[c] = [op |-> IF b THEN "schedule" ELSE "create", todo |-> {t}, cur |-> None]
      BY ZenonT(60), <1>0, <1>1 DEF CreateTask
    <2>2. row'[t].status = "pending" /\ row'[t].attempts = 0 /\ row'[t].due = ~b
      BY ZenonT(60), <2>1 DEF DB!NewTask, DB!Absent
    <2>3. CASE b
      <3>1. disp'[c] = [op |-> "schedule", todo |-> {t}, cur |-> None]  BY ZenonT(60), <2>1, <2>3
      <3> QED  BY <2>2, <3>1 DEF Planned
    <2>4. CASE ~b
      <3>1. disp'[c] = [op |-> "create", todo |-> {t}, cur |-> None]  BY <2>1, <2>4
      <3>2. row'[t].due  BY Zenon, <2>2, <2>4
      <3> QED  BY <2>2, <3>1, <3>2 DEF Planned
    <2> QED  BY <2>3, <2>4
  <1>2. CASE RetryTask(c, t)
    <2>1. /\ row'[t] = DB!Requeue(row[t])
          /\ disp'[c] = [op |-> "dispatch", todo |-> {t}, cur |-> None]
      BY <1>0, <1>2 DEF RetryTask
    <2>2. row'[t].status = "pending" /\ row'[t].due
      BY ZenonT(30), <1>0, <2>1 DEF DB!Requeue, DB!Row
    <2> QED  BY <2>1, <2>2 DEF Planned
  <1>3. CASE CancelTask(c, t)
    <2>1. /\ row'[t] = DB!Cancel(row[t])
          /\ disp'[c] = [op |-> "remove", todo |-> {t}, cur |-> None]
      BY <1>0, <1>3 DEF CancelTask
    <2>2. row'[t].status = "cancelled"  BY ZenonT(30), <1>0, <2>1 DEF DB!Cancel, DB!Row
    <2> QED  BY <2>1, <2>2 DEF Planned, DB!Terminal
  <1>4. CASE SoftDeleteTask(c, t)
    <2>1. /\ row'[t] = DB!SoftDelete(row[t]) /\ DB!CanSoftDelete(row[t])
          /\ disp'[c] = [op |-> "remove", todo |-> {t}, cur |-> None]
      BY <1>0, <1>4 DEF SoftDeleteTask
    <2>2. row'[t].status \in DB!Terminal
      BY <1>0, <2>1 DEF DB!SoftDelete, DB!CanSoftDelete, DB!IsTerminal, DB!Row
    <2> QED  BY <2>1, <2>2 DEF Planned, DB!Terminal
  <1> QED  BY ZenonT(60), <1>1, <1>2, <1>3, <1>4

(* A loop lists rows that its query has just seen, or written.              *)
LEMMA LoopPlanned ==
  ASSUME IInv, NEW l \in Loop, LoopStep(l)
  PROVE  Planned(l)'
  <1>0. row \in [Task -> DB!Row] /\ l \in Agent /\ disp \in [Agent -> DispState]
    BY DEF IInv, TypeOK, Agent
  <1>1. CASE ReclaimScan(l)
    <2>1. PICK S \in SUBSET {u \in Task : DB!CanReclaim(row[u])} :
            /\ row' = [u \in Task |-> IF u \in S THEN DB!ReclaimExpired(row[u]) ELSE row[u]]
            /\ disp' = [disp EXCEPT ![l] = [op |-> "dispatch", todo |-> S, cur |-> None]]
      BY Zenon, <1>1 DEF ReclaimScan
    <2>2. ASSUME NEW t \in S  PROVE row'[t].status = "pending" /\ row'[t].due
      <3>1. row'[t] = DB!ReclaimExpired(row[t]) /\ row[t] \in DB!Row  BY ZenonT(60), <1>0, <2>1, <2>2
      <3> QED  BY ZenonT(30), <3>1 DEF DB!ReclaimExpired, DB!Row
    <2>3. disp'[l] = [op |-> "dispatch", todo |-> S, cur |-> None]  BY ZenonT(60), <1>0, <2>1
    <2> QED  BY <2>2, <2>3 DEF Planned
  <1>2. CASE ReconcileScan(l)
    <2> DEFINE S == {t \in Task : DB!Undispatched(row[t])}
    <2>1. row' = row /\ disp'[l] = [op |-> "dispatch", todo |-> S, cur |-> None]
      BY ZenonT(60), <1>0, <1>2 DEF ReconcileScan
    <2>2. \A t \in S : row'[t].status = "pending" /\ row'[t].due
      BY <2>1 DEF DB!Undispatched
    <2> HIDE DEF S
    <2> QED  BY <2>1, <2>2 DEF Planned
  <1> QED  BY <1>1, <1>2 DEF LoopStep

(* Only requests and loops change what is left to dispatch.                 *)
LEMMA DispFrame ==
  ASSUME \/ PromoteDelayed \/ FlushRedis \/ UNCHANGED vars
         \/ (\E p \in Proc : ProcStep(p)) \/ (\E w \in Worker : PoolStep(w))
         \/ (\E t \in Task : Elapse(t)) \/ RebuildStep
         \/ \E w \in Worker, t \in Task : LateHeartbeat(w, t)
  PROVE  disp' = disp
  <1>1. (\E p \in Proc : ProcStep(p)) => disp' = disp
    BY Zenon DEF ProcStep, Dequeue, Claim, ClaimFails, AckMessage, ExecuteSucceeds, ExecuteFails,
       OutcomeLost, NackMessage, MarkRetry, BuryMessage, HeartbeatRenews, HeartbeatLost,
       HeartbeatLingers
  <1>2. (\E w \in Worker : PoolStep(w)) => disp' = disp
    BY Zenon DEF PoolStep, Drain, ForceCancel, Restart, Crash
  <1>3. RebuildStep => disp' = disp
    BY Zenon DEF RebuildStep, StopWorkers, RebuildScan, RebuildRemove, RebuildEnqueue,
       RebuildMark, RebuildFails
  <1> QED
    BY Zenon, <1>1, <1>2, <1>3 DEF PromoteDelayed, FlushRedis, vars, Elapse, LateHeartbeat

(* What a request or loop knows of its list survives every step.            *)
LEMMA PlannedStep ==
  ASSUME IInv, Repairable, [Next]_vars, NEW a \in Agent, Planned(a)
  PROVE  Planned(a)'
  <1>0. /\ disp \in [Agent -> DispState] /\ disp[a] \in DispState
        /\ Client \subseteq Agent /\ Loop \subseteq Agent
    BY ZenonT(60) DEF IInv, TypeOK, Agent
  <1>1. ASSUME disp'[a] = disp[a]  PROVE Planned(a)'
    BY ZenonT(60), <1>1, ShrinksPlanned DEF Shrinks
  <1>2. ASSUME disp'[a] = NoWork  PROVE Planned(a)'
    BY <1>2, ShrinksPlanned DEF Shrinks, NoWork
  <1>3. ASSUME NEW c \in Client, ClientStep(c)  PROVE Planned(a)'
    <2>1. c # a => disp'[a] = disp[a]
      BY ZenonT(30), <1>0, <1>3 DEF ClientStep, CreateTask, RetryTask, CancelTask, SoftDeleteTask, RemoveMessage
    <2>2. RemoveMessage(c) /\ c = a => disp'[a] = NoWork  BY <1>0 DEF RemoveMessage
    <2> QED  BY Zenon, <1>1, <1>2, <1>3, <2>1, <2>2, RequestPlanned DEF ClientStep
  <1>4. ASSUME NEW l \in Loop, LoopStep(l)  PROVE Planned(a)'
    <2>1. l # a => disp'[a] = disp[a]  BY <1>0, <1>4 DEF LoopStep, ReclaimScan, ReconcileScan
    <2> QED  BY ZenonT(60), <1>1, <1>4, <2>1, LoopPlanned
  <1>5. ASSUME NEW b \in Agent, DispatchStep(b)  PROVE Planned(a)'
    <2>1. b # a => disp'[a] = disp[a]
      BY <1>0, <1>5 DEF DispatchStep, DispatchEnqueue, DispatchMark, Abandon
    <2>2. ASSUME NEW t, NEW x \in {t, None}, disp'[a] = Rest(a, t, x),
                 t \in disp[a].todo \cup {disp[a].cur}
          PROVE  Shrinks(a)
      BY SMTT(30), <1>0, <2>2 DEF Rest, Shrinks, DispState, NoWork
    <2>3. ASSUME NEW t \in Task, DispatchEnqueue(a, t)  PROVE Shrinks(a)
      <3>1. disp'[a] = Rest(a, t, t) \/ disp'[a] = Rest(a, t, None)
        BY ZenonT(60), <1>0, <2>3 DEF DispatchEnqueue
      <3> QED  BY ZenonT(60), <2>2, <2>3, <3>1 DEF DispatchEnqueue
    <2>4. DispatchMark(a) => Shrinks(a)  BY <1>0, <2>2 DEF DispatchMark
    <2>5. Abandon(a) => disp'[a] = NoWork  BY <1>0 DEF Abandon
    <2> QED
      BY Zenon, <1>1, <1>2, <1>5, <2>1, <2>3, <2>4, <2>5, ShrinksPlanned DEF DispatchStep
  <1>6. ASSUME \/ PromoteDelayed \/ FlushRedis \/ UNCHANGED vars
               \/ (\E p \in Proc : ProcStep(p)) \/ (\E w \in Worker : PoolStep(w))
               \/ (\E t \in Task : Elapse(t)) \/ RebuildStep
               \/ \E w \in Worker, t \in Task : LateHeartbeat(w, t)
        PROVE  disp' = disp
    BY Zenon, <1>6, DispFrame
  <1> QED  BY Zenon, <1>1, <1>3, <1>4, <1>5, <1>6 DEF Next
-----------------------------------------------------------------------------
(* Halted: while the rebuild refills Redis nothing is claimed.              *)
Refilling == rebuild.pc \in {"clear", "refill", "mark"}

(* Only the flush and the rebuild itself move the rebuild.                  *)
LEMMA RebuildFrozen ==
  ASSUME [Next]_vars
  PROVE  FlushRedis \/ RebuildStep \/ rebuild' = rebuild
  <1>1. ASSUME NEW c \in Client, ClientStep(c)  PROVE rebuild' = rebuild
    BY Zenon, <1>1 DEF ClientStep, CreateTask, RetryTask, CancelTask, SoftDeleteTask, RemoveMessage
  <1>2. ASSUME NEW l \in Loop, LoopStep(l)  PROVE rebuild' = rebuild
    BY Zenon, <1>2 DEF LoopStep, ReclaimScan, ReconcileScan
  <1>3. ASSUME NEW a \in Agent, DispatchStep(a)  PROVE rebuild' = rebuild
    BY Zenon, <1>3 DEF DispatchStep, DispatchEnqueue, DispatchMark, Abandon
  <1>4. ASSUME NEW p \in Proc, ProcStep(p)  PROVE rebuild' = rebuild
    BY Zenon, <1>4 DEF ProcStep, Dequeue, Claim, ClaimFails, AckMessage, ExecuteSucceeds,
       ExecuteFails, OutcomeLost, NackMessage, MarkRetry, BuryMessage, HeartbeatRenews, HeartbeatLost,
       HeartbeatLingers
  <1>5. ASSUME NEW w \in Worker, PoolStep(w)  PROVE rebuild' = rebuild
    BY Zenon, <1>5 DEF PoolStep, Drain, ForceCancel, Restart, Crash
  <1>6. ASSUME \/ PromoteDelayed \/ UNCHANGED vars \/ (\E t \in Task : Elapse(t))
               \/ \E w \in Worker, t \in Task : LateHeartbeat(w, t)
        PROVE  rebuild' = rebuild
    BY Zenon, <1>6 DEF PromoteDelayed, vars, Elapse, LateHeartbeat
  <1> QED  BY Zenon, <1>1, <1>2, <1>3, <1>4, <1>5, <1>6 DEF Next

(* The list of the rebuild comes from its query and only gets shorter.      *)
LEMMA RefillMoves ==
  ASSUME IInv, [Next]_vars, Refilling'
  PROVE  \/ RebuildScan
         \/ /\ Refilling /\ rebuild'.todo \subseteq rebuild.todo
            /\ rebuild'.later = rebuild.later
            /\ rebuild'.cur \in rebuild.todo \cup {rebuild.cur, None}
  <1>0. rebuild \in RebuildState  BY DEF IInv, TypeOK
  <1>1. CASE rebuild' = rebuild  BY <1>1 DEF Refilling
  <1>2. ~FlushRedis /\ ~StopWorkers /\ ~RebuildFails
    BY DEF FlushRedis, StopWorkers, RebuildFails, Rebuild, Refilling
  <1>3. ASSUME NEW t \in Task, RebuildRemove(t)
        PROVE  /\ Refilling /\ rebuild'.todo \subseteq rebuild.todo
               /\ rebuild'.later = rebuild.later
               /\ rebuild'.cur \in rebuild.todo \cup {rebuild.cur, None}
    <2>1. rebuild' = [pc |-> "refill", todo |-> rebuild.todo \ {t}, later |-> rebuild.later, cur |-> t]
      BY Zenon, <1>0, <1>3 DEF RebuildRemove, RebuildState
    <2> QED  BY <1>3, <2>1 DEF RebuildRemove, Refilling
  <1>4. CASE RebuildEnqueue
    <2>1. rebuild' = [pc |-> "mark", todo |-> rebuild.todo, later |-> rebuild.later,
                      cur |-> rebuild.cur]
      BY <1>0, <1>4 DEF RebuildEnqueue, RebuildState
    <2> QED  BY <1>4, <2>1 DEF RebuildEnqueue, Refilling
  <1>5. CASE RebuildMark
    <2>1. rebuild' = [pc |-> "clear", todo |-> rebuild.todo, later |-> rebuild.later,
                      cur |-> None]
      BY Zenon, <1>0, <1>5 DEF RebuildMark, RebuildState, Rebuild, Refilling
    <2> QED  BY <1>5, <2>1 DEF RebuildMark, Refilling
  <1> QED  BY Zenon, <1>1, <1>2, <1>3, <1>4, <1>5, RebuildFrozen DEF RebuildStep

(* No pool starts while the operator has the workers stopped.               *)
LEMMA ModeHalted ==
  ASSUME IInv, [Next]_vars, Halted, Stopped'
  PROVE  \A w \in Worker : mode'[w] # "up"
  <1>0. mode \in [Worker -> {"up", "draining", "forced"}]  BY DEF IInv, TypeOK
  <1>1. CASE StopWorkers  BY <1>0, <1>1 DEF StopWorkers
  <1>2. CASE Stopped
    <2>0. \A w \in Worker : mode[w] # "up"  BY <1>2 DEF Halted
    <2>1. ASSUME mode' = mode  PROVE \A w \in Worker : mode'[w] # "up"  BY <2>0, <2>1
    <2>2. ASSUME NEW x \in Worker, PoolStep(x)  PROVE \A w \in Worker : mode'[w] # "up"
      BY ZenonT(60), <1>0, <1>2, <2>0, <2>2 DEF PoolStep, Drain, ForceCancel, Restart, Crash
    <2>3. ASSUME \/ PromoteDelayed \/ FlushRedis \/ UNCHANGED vars
                 \/ (\E c \in Client : ClientStep(c)) \/ (\E l \in Loop : LoopStep(l))
                 \/ (\E a \in Agent : DispatchStep(a)) \/ (\E t \in Task : Elapse(t))
                 \/ \E w \in Worker, t \in Task : LateHeartbeat(w, t)
          PROVE  mode' = mode
      BY Zenon, <2>3 DEF PromoteDelayed, FlushRedis, vars, ClientStep, CreateTask, RetryTask,
         CancelTask, SoftDeleteTask, RemoveMessage, LoopStep, ReclaimScan, ReconcileScan,
         DispatchStep, DispatchEnqueue, DispatchMark, Abandon, Elapse, LateHeartbeat
    <2>4. (\E p \in Proc : ProcStep(p)) => mode' = mode
      BY Zenon DEF ProcStep, Dequeue, Claim, ClaimFails, AckMessage, ExecuteSucceeds, ExecuteFails,
         OutcomeLost, NackMessage, MarkRetry, BuryMessage, HeartbeatRenews, HeartbeatLost,
         HeartbeatLingers
    <2>5. RebuildStep => StopWorkers \/ mode' = mode
      BY Zenon DEF RebuildStep, RebuildScan, RebuildRemove, RebuildEnqueue, RebuildMark,
         RebuildFails
    <2> QED  BY Zenon, <1>1, <2>1, <2>2, <2>3, <2>4, <2>5 DEF Next
  <1>3. CASE ~Stopped
    <2>1. rebuild' # rebuild  BY <1>3 DEF Stopped
    <2>2. ~FlushRedis  BY SMTT(30) DEF FlushRedis, Rebuild, Stopped
    <2>3. RebuildStep => StopWorkers
      BY Zenon, <1>3 DEF RebuildStep, RebuildScan, RebuildRemove, RebuildEnqueue, RebuildMark,
         RebuildFails, Stopped
    <2> QED  BY Zenon, <1>1, <2>1, <2>2, <2>3, RebuildFrozen
  <1> QED  BY <1>2, <1>3

(* While the rebuild refills Redis no goroutine is at work.                 *)
LEMMA IdleHalted ==
  ASSUME IInv, [Next]_vars, Halted, Refilling'
  PROVE  \A q \in Proc : proc[q].pc = "idle" /\ proc'[q].pc = "idle"
  <1>1. CASE RebuildScan
    BY <1>1 DEF RebuildScan
  <1>2. CASE Refilling
    <2> TAKE q \in Proc
    <2>1. proc[q].pc = "idle" /\ Stopped  BY <1>2 DEF Halted, Refilling, Stopped
    <2>2. mode[PoolOf[q]] # "up"  BY SMTT(30), <2>1, QueueFlowAssumption DEF Halted
    <2>3. Stays(q)
      BY Zenon, <2>1, <2>2, ProcMoves DEF Gone, Dequeue, Claim, ClaimFails, ExecuteSucceeds, ExecuteFails,
         Nacked, NackMessage
    <2> QED  BY <2>1, <2>3 DEF Stays
  <1> QED  BY Zenon, <1>1, <1>2, RefillMoves

(* What the rebuild knows of workers and rows survives every step.          *)
LEMMA HaltedStep ==
  ASSUME IInv, Repairable, [Next]_vars, Halted
  PROVE  Halted'
  <1>1. ASSUME Refilling', NEW t \in Task, t \in rebuild'.todo \/ t = rebuild'.cur
        PROVE  /\ row'[t].status # "absent"
               /\ t \notin rebuild'.later /\ row'[t].status = "pending" => row'[t].due
    <2>1. CASE RebuildScan
      <3> DEFINE S == {u \in Task : DB!Dispatchable(row[u])}
      <3>1. row' = row  BY ZenonT(60), <2>1 DEF RebuildScan
      <3>2. rebuild' = [pc |-> "clear", todo |-> S, cur |-> None,
                        later |-> {u \in S : ~row[u].due}]
        BY ZenonT(60), <1>1, <2>1 DEF RebuildScan, Refilling, Rebuild
      <3>3. t \in S /\ rebuild'.later = {u \in S : ~row[u].due}
        BY <1>1, <3>2, QueueFlowAssumption
      <3> QED  BY ZenonT(60), <3>1, <3>3 DEF DB!Dispatchable
    <2>2. CASE ~RebuildScan
      <3>1. /\ Refilling /\ rebuild'.later = rebuild.later
            /\ t \in rebuild.todo \/ t = rebuild.cur
        BY ZenonT(60), <1>1, <2>2, RefillMoves, QueueFlowAssumption
      <3>2. /\ row[t].status # "absent"
            /\ t \notin rebuild.later /\ row[t].status = "pending" => row[t].due
        BY <3>1 DEF Halted, Refilling
      <3>3. \A p \in Proc : proc[p].pc = "idle"  BY <1>1, IdleHalted
      <3>4. Evolves(t)  BY RowEvolves
      <3>5. row'[t].status # "absent"  BY Zenon, <3>2, <3>4 DEF Evolves
      <3>6. row'[t].status = "pending" => SameLife(t) \/ row'[t].due
        BY Zenon, <3>2, <3>3, <3>4 DEF Evolves, NewLife, FirstLife
      <3> QED  BY Zenon, <3>1, <3>2, <3>5, <3>6 DEF SameLife
    <2> QED  BY <2>1, <2>2
  <1> QED  BY Zenon, <1>1, ModeHalted, IdleHalted DEF Halted, Refilling
-----------------------------------------------------------------------------
(* The message of a pending row leaves the delayed set only into the        *)
(* pending set, when the row is visible, and the pending set only into the  *)
(* hands of a goroutine; or Redis is emptied or rebuilt.                    *)
LEMMA AddedSets ==
  ASSUME NEW b \in MQ!Queues, NEW u
  PROVE  /\ MQ!Enqueue(b, u).pending = b.pending \cup {u}
         /\ MQ!Enqueue(b, u).delayed = b.delayed
         /\ MQ!EnqueueDelayed(b, u).pending = b.pending
         /\ MQ!EnqueueDelayed(b, u).delayed = b.delayed \cup {u}
  BY DEF MQ!Queues, MQ!Enqueue, MQ!EnqueueDelayed

(* What Ack and Nack do to the pending and delayed sets.                    *)
LEMMA SettledSets ==
  ASSUME NEW b \in MQ!Queues, NEW u
  PROVE  /\ MQ!Ack(b, u).pending = b.pending
         /\ MQ!Ack(b, u).delayed = b.delayed
         /\ MQ!Nack(b, u).pending = b.pending
         /\ MQ!Nack(b, u).delayed = b.delayed \cup {u}
  BY DEF MQ!Queues, MQ!Ack, MQ!Nack

(* What takes a message out of the pending and delayed sets.                *)
LEMMA TakenSets ==
  ASSUME NEW b \in MQ!Queues, NEW u
  PROVE  /\ MQ!Dequeue(b, u).pending = b.pending \ {u}
         /\ MQ!Dequeue(b, u).delayed = b.delayed
         /\ MQ!MoveToDeadLetter(b, u).pending = b.pending \ {u}
         /\ MQ!MoveToDeadLetter(b, u).delayed = b.delayed \ {u}
         /\ MQ!Remove(b, u).pending = b.pending \ {u}
         /\ MQ!Remove(b, u).delayed = b.delayed \ {u}
  BY DEF MQ!Queues, MQ!Dequeue, MQ!MoveToDeadLetter, MQ!Remove

(* What a promotion does to the pending and delayed sets.                   *)
LEMMA PromotedSets ==
  ASSUME NEW b \in MQ!Queues, NEW S
  PROVE  /\ MQ!PromoteDueDelayed(b, S).pending = b.pending \cup S
         /\ MQ!PromoteDueDelayed(b, S).delayed = b.delayed \ S
  BY DEF MQ!Queues, MQ!PromoteDueDelayed

Delivers(t) ==
  /\ t \in redis.delayed => \/ t \in redis'.delayed
                            \/ row[t].due /\ row' = row /\ t \in redis'.pending
  /\ t \in redis.pending => t \in redis'.pending \/ \E p \in Proc : Dequeue(p, t)

(* A message of a pending task leaves its set only for a place that still   *)
(* leads to a claim, unless Redis is lost or the rebuild is about to        *)
(* enqueue the task.                                                        *)
LEMMA Delivered ==
  ASSUME IInv, Repairable, [Next]_vars, \A p \in Proc : Ended(p), \A a \in Agent : Planned(a),
         NEW t \in Task, row[t].status = "pending"
  PROVE  Delivers(t) \/ FlushRedis \/ RebuildRemove(t)
  <1>0. /\ redis \in MQ!Queues /\ disp \in [Agent -> DispState] /\ t \notin {None}
        /\ row[t].status \notin DB!Terminal
    BY QueueFlowAssumption DEF IInv, TypeOK, DB!Terminal
  <1>1. ASSUME redis' = redis  PROVE Delivers(t)  BY <1>1 DEF Delivers
  <1>2. ASSUME redis.delayed \subseteq redis'.delayed, redis.pending \subseteq redis'.pending
        PROVE  Delivers(t)
    BY <1>2 DEF Delivers
  <1>3. ASSUME NEW c \in Client, ClientStep(c)  PROVE Delivers(t)
    <2>1. CASE RemoveMessage(c)
      <3>1. PICK u \in disp[c].todo : redis' = MQ!Remove(redis, u) \/ redis' = redis
        BY ZenonT(60), <2>1 DEF RemoveMessage
      <3>2. row[u].status \in DB!Terminal  BY <2>1, <3>1 DEF RemoveMessage, Planned, Agent
      <3>3. u # t  BY ZenonT(60), <1>0, <3>2
      <3>4. redis' = redis \/ (/\ redis'.pending = redis.pending \ {u}
                               /\ redis'.delayed = redis.delayed \ {u})
        BY <1>0, <3>1, TakenSets
      <3> QED  BY ZenonT(60), <1>1, <3>3, <3>4 DEF Delivers
    <2> QED
      BY Zenon, <1>1, <1>3, <2>1 DEF ClientStep, CreateTask, RetryTask, CancelTask, SoftDeleteTask
  <1>4. ASSUME NEW l \in Loop, LoopStep(l)  PROVE Delivers(t)
    BY Zenon, <1>1, <1>4 DEF LoopStep, ReclaimScan, ReconcileScan
  <1>5. ASSUME NEW a \in Agent, DispatchStep(a)  PROVE Delivers(t)
    <2>1. ASSUME NEW u \in Task, DispatchEnqueue(a, u)  PROVE Delivers(t)
      <3>1. redis' = redis \/ redis' = MQ!Enqueue(redis, u) \/ redis' = MQ!EnqueueDelayed(redis, u)
        BY Zenon, <2>1 DEF DispatchEnqueue
      <3>2. redis.delayed \subseteq redis'.delayed /\ redis.pending \subseteq redis'.pending
        BY <1>0, <3>1, AddedSets
      <3> QED  BY <1>2, <3>2
    <2> QED  BY Zenon, <1>1, <1>5, <2>1 DEF DispatchStep, DispatchMark, Abandon
  <1>6. ASSUME NEW p \in Proc, ProcStep(p)  PROVE Delivers(t)
    <2>1. ASSUME NEW u \in Task, Dequeue(p, u)  PROVE Delivers(t)
      <3>1. redis'.pending = redis.pending \ {u} /\ redis'.delayed = redis.delayed
        BY ZenonT(60), <1>0, <2>1, TakenSets DEF Dequeue
      <3> QED  BY <2>1, <3>1 DEF Delivers
    <2>2. CASE BuryMessage(p)
      <3>1. redis' = redis \/ redis' = MQ!MoveToDeadLetter(redis, proc[p].task)
        BY ZenonT(60), <2>2 DEF BuryMessage
      <3>2. proc[p].task # t  BY ZenonT(60), <1>0, <2>2 DEF BuryMessage, Ended
      <3>3. redis' = redis \/ (/\ redis'.pending = redis.pending \ {proc[p].task}
                               /\ redis'.delayed = redis.delayed \ {proc[p].task})
        BY <1>0, <3>1, TakenSets
      <3> QED  BY ZenonT(60), <1>1, <3>2, <3>3 DEF Delivers
    <2>3. CASE AckMessage(p) \/ NackMessage(p)
      <3>1. redis' = redis \/ redis' = MQ!Ack(redis, proc[p].task) \/ redis' = MQ!Nack(redis, proc[p].task)
        BY ZenonT(60), <2>3 DEF AckMessage, NackMessage
      <3>2. redis.delayed \subseteq redis'.delayed /\ redis.pending \subseteq redis'.pending
        BY SMTT(30), <1>0, <3>1, SettledSets
      <3> QED  BY <1>2, <3>2
    <2> QED
      BY Zenon, <1>1, <1>6, <2>1, <2>2, <2>3 DEF ProcStep, Claim, ClaimFails, ExecuteSucceeds,
         ExecuteFails, OutcomeLost, MarkRetry, HeartbeatRenews, HeartbeatLost, HeartbeatLingers
  <1>7. CASE PromoteDelayed
    <2>1. PICK S \in SUBSET redis.delayed : /\ \A u \in S : Ripe(u)
                                            /\ redis' = MQ!PromoteDueDelayed(redis, S)
      BY Zenon, <1>7, NoFault DEF PromoteDelayed
    <2>2. t \in S => row[t].due  BY <2>1 DEF Ripe
    <2>3. row' = row  BY ZenonT(60), <1>7 DEF PromoteDelayed
    <2>4. redis'.pending = redis.pending \cup S /\ redis'.delayed = redis.delayed \ S
      BY <1>0, <2>1, PromotedSets
    <2> QED  BY <2>2, <2>3, <2>4 DEF Delivers
  <1>8. ASSUME RebuildStep  PROVE Delivers(t) \/ RebuildRemove(t)
    <2>1. ASSUME NEW u \in Task, RebuildRemove(u)  PROVE Delivers(t) \/ RebuildRemove(t)
      <3>1. redis'.pending = redis.pending \ {u} /\ redis'.delayed = redis.delayed \ {u}
        BY ZenonT(60), <1>0, <2>1, TakenSets DEF RebuildRemove
      <3> QED  BY <2>1, <3>1 DEF Delivers
    <2>2. RebuildEnqueue => Delivers(t)
      <3>1. RebuildEnqueue => \/ redis' = MQ!Enqueue(redis, rebuild.cur)
                              \/ redis' = MQ!EnqueueDelayed(redis, rebuild.cur)
        BY Zenon DEF RebuildEnqueue
      <3>2. RebuildEnqueue => redis.delayed \subseteq redis'.delayed /\ redis.pending \subseteq redis'.pending
        BY <1>0, <3>1, AddedSets
      <3> QED  BY <1>2, <3>2
    <2> QED
      BY Zenon, <1>1, <1>8, <2>1, <2>2 DEF RebuildStep, StopWorkers, RebuildScan, RebuildMark,
         RebuildFails
  <1>9. ASSUME \/ UNCHANGED vars \/ (\E w \in Worker : PoolStep(w)) \/ (\E u \in Task : Elapse(u))
               \/ \E w \in Worker, u \in Task : LateHeartbeat(w, u)
        PROVE  redis' = redis
    BY Zenon, <1>9 DEF vars, PoolStep, Drain, ForceCancel, Restart, Crash, Elapse, LateHeartbeat
  <1> QED  BY Zenon, <1>1, <1>3, <1>4, <1>5, <1>6, <1>7, <1>8, <1>9 DEF Next
=============================================================================
