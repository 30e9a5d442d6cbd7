------------------------------ MODULE QueueFlow ------------------------------
(***************************************************************************)
(* The QueueFlow task queue: the API that creates, retries, cancels and    *)
(* deletes tasks, the worker pools that execute them, and the background   *)
(* loops that reclaim, promote and reconcile, all running concurrently     *)
(* over one Postgres table (row) and the Redis sets of one queue (redis).  *)
(*                                                                         *)
(* The grain of atomicity is one SQL statement or transaction, or one      *)
(* Redis script or pipeline: between any two of them every other process   *)
(* may run.  Webhook events and metrics have no influence on the queue     *)
(* and are left out here.                                                  *)
(*                                                                         *)
(* Failures are actions guarded by Fault(k): k has to be in Faults and the *)
(* total is bounded by MaxFaults, except for the unlucky schedules         *)
(* skipLocked, late and misfire, which may come any number of times.       *)
(*   enqueue     Enqueue or EnqueueDelayed returns an error                *)
(*   nack        Nack returns an error                                     *)
(*   cleanup     Ack, Remove or the broker's MoveToDeadLetter does         *)
(*   claim       ClaimForProcessing does                                   *)
(*   skipLocked  ClaimForProcessing meets a row locked by another          *)
(*               statement, and FOR UPDATE SKIP LOCKED returns no row      *)
(*   heartbeat   Heartbeat does                                            *)
(*   linger      a heartbeatLoop falls behind its goroutine: its call is   *)
(*               under way, or its tick is taken, when process() returns   *)
(*   misfire     a heartbeatLoop that ends cancels a goroutine that has    *)
(*               not claimed the task yet                                  *)
(*   write       any other statement returns an error                      *)
(*   crash       a worker dies                                             *)
(*   early       a worker dies, or stops at the end of its shutdown        *)
(*               timeout, with a goroutine that has dequeued a message and *)
(*               not claimed its task yet                                  *)
(*   abandon     an API request or a loop iteration is cut short           *)
(*   stall       a live goroutine's lease expires                          *)
(*   late        a request, loop or goroutine still has a call to make for *)
(*               an earlier life of a task when the task is rescheduled    *)
(*   skew        a delayed message is promoted before its row is visible   *)
(*   shutdown    a pool is told to drain                                   *)
(*   flush       Redis loses everything, and an operator stops the workers *)
(*               and runs the redis-rebuild command until it succeeds      *)
(***************************************************************************)
EXTENDS Naturals, FiniteSets

CONSTANTS Task, Worker,
          Proc,         \* the goroutine slots (the semaphore) of all pools
          PoolOf,       \* the pool, that is the worker id, of each slot
          Client,       \* concurrent API requests
          Loop,         \* reclaim and reconciliation loop goroutines
          None, MaxAttempts,
          Faults,       \* the kinds of failure that may happen
          MaxFaults,    \* bound: failures in a behaviour
          MaxRequeues   \* bound: manual retries of one task

DB == INSTANCE TaskStore
MQ == INSTANCE DispatchBroker

FaultKinds == {"enqueue", "nack", "cleanup", "claim", "skipLocked",
               "heartbeat", "linger", "misfire", "write", "crash", "early",
               "abandon", "stall", "late", "skew", "shutdown", "flush"}

ASSUME QueueFlowAssumption ==
  /\ PoolOf \in [Proc -> Worker]
  /\ None \notin Task \cup Worker \cup Proc
  /\ Client \cap Loop = {}
  /\ MaxAttempts \in Nat \ {0}
  /\ Faults \subseteq FaultKinds
  /\ MaxFaults \in Nat
  /\ MaxRequeues \in Nat

VARIABLES row,       \* Postgres: tasks
          redis,     \* Redis: the sets of the queue
          proc,      \* the process() goroutine in each slot
          inFlight,  \* per pool: task id -> the goroutine to cancel
          lingering, \* per pool: task id -> heartbeatLoops left behind
          mode,      \* per pool: up, draining, forced
          disp,      \* API requests and loops: what is left to dispatch
          rebuild,   \* the redis-rebuild command
          hist,      \* history: manual retries, whether a lease ever lapsed
          faults     \* failures so far

vars == <<row, redis, proc, inFlight, lingering, mode, disp, hist, faults, rebuild>>

Agent == Client \cup Loop

(* pc of a goroutine: the external call it makes next.  "run" also covers  *)
(* the handler; claim = ClaimForProcessing, release = the Ack after a      *)
(* failed claim, ack / nack / mark / bury = what follows Complete, Fail,   *)
(* Nack and MoveToDeadLetter in the engine.                                *)
PC == {"idle", "claim", "release", "run", "ack", "nack", "mark", "bury"}

Claimed == {"run", "ack", "nack", "mark", "bury"}

ProcState == [pc        : PC,
              task      : Task \cup {None},
              attempts  : Nat,       \* the engine's copy of task.Attempts
              current   : BOOLEAN,   \* history: nobody claimed after it
              heartbeat : BOOLEAN,   \* its heartbeatLoop is running
              cancelled : BOOLEAN]   \* its taskCtx is cancelled

Idle == [pc |-> "idle", task |-> None, attempts |-> 0, current |-> FALSE,
         heartbeat |-> FALSE, cancelled |-> FALSE]

(* What a request or loop still has to do: enqueue todo, then mark cur.     *)
Ops == {"idle", "create", "schedule", "dispatch", "remove"}

DispState == [op : Ops, todo : SUBSET Task, cur : Task \cup {None}]

NoWork == [op |-> "idle", todo |-> {}, cur |-> None]

(* From the loss of Redis to the end of a successful rebuild.  todo: tasks  *)
(* listed and not rebuilt yet; later: those listed with a visible_at to     *)
(* come; cur: the task being rebuilt.  The pages of the list are left out.  *)
RebuildState ==
  {r \in [pc    : {"idle", "flushed", "stopping", "clear", "refill", "mark"},
          todo  : SUBSET Task,
          later : SUBSET Task,
          cur   : Task \cup {None}] : r.pc \in {"refill", "mark"} => r.cur # None}

Rebuild(pc) == [pc |-> pc, todo |-> {}, later |-> {}, cur |-> None]

(* No worker process runs, or those that do are draining.                   *)
Stopped == rebuild.pc \notin {"idle", "flushed"}

Hist == [requeues : Nat, lapsed : BOOLEAN]

TypeOK ==
  /\ row \in [Task -> DB!Row]
  /\ redis \in MQ!Queues
  /\ proc \in [Proc -> ProcState]
  /\ inFlight \in [Worker -> [Task -> Proc \cup {None}]]
  /\ lingering \in [Worker -> [Task -> Nat]]
  /\ mode \in [Worker -> {"up", "draining", "forced"}]
  /\ disp \in [Agent -> DispState]
  /\ hist \in [Task -> Hist]
  /\ rebuild \in RebuildState
  /\ faults \in 0..MaxFaults

Init ==
  /\ row = [t \in Task |-> DB!Absent]
  /\ redis = MQ!Empty
  /\ proc = [p \in Proc |-> Idle]
  /\ inFlight = [w \in Worker |-> [t \in Task |-> None]]
  /\ lingering = [w \in Worker |-> [t \in Task |-> 0]]
  /\ mode = [w \in Worker |-> "up"]
  /\ disp = [a \in Agent |-> NoWork]
  /\ hist = [t \in Task |-> [requeues |-> 0, lapsed |-> FALSE]]
  /\ faults = 0
  /\ rebuild = Rebuild("idle")

Schedules == {"skipLocked", "late"}

Fault(k) == /\ k \in Faults
            /\ k \in Schedules \/ faults < MaxFaults
            /\ faults' = IF k \in Schedules THEN faults ELSE faults + 1

(* A call made under a goroutine's taskCtx fails once that is cancelled.    *)
Succeeds(p) == ~proc[p].cancelled /\ UNCHANGED faults

Fails(p, k) == \/ proc[p].cancelled /\ UNCHANGED faults
               \/ Fault(k)

(* Calls about an earlier life of t that are still to come when a statement *)
(* makes t pending again.                                                   *)
Trailing(t) ==
  \/ \E a \in Agent : t = disp[a].cur \/ t \in disp[a].todo
  \/ \E p \in Proc : /\ proc[p].task = t
                     /\ proc[p].pc \in {"release", "ack", "nack", "mark", "bury"}
  \/ rebuild.pc = "mark" /\ rebuild.cur = t

Reschedules(S) == IF \E t \in S : Trailing(t) THEN Fault("late")
                  ELSE UNCHANGED faults
-----------------------------------------------------------------------------
(* usecase.Service: the API requests.                                       *)

CreateTask(c, t) ==
  /\ disp[c] = NoWork
  /\ row[t].status = "absent"
  /\ \E scheduled \in BOOLEAN :
       /\ row' = [row EXCEPT ![t] = DB!NewTask(scheduled)]
       /\ disp' = [disp EXCEPT ![c] =
                     [op |-> IF scheduled THEN "schedule" ELSE "create",
                      todo |-> {t}, cur |-> None]]
  /\ UNCHANGED <<redis, proc, inFlight, lingering, mode, hist, faults, rebuild>>

RetryTask(c, t) ==
  /\ disp[c] = NoWork
  /\ DB!CanRequeue(row[t])
  /\ hist[t].requeues < MaxRequeues
  /\ row' = [row EXCEPT ![t] = DB!Requeue(row[t])]
  /\ disp' = [disp EXCEPT ![c] = [op |-> "dispatch", todo |-> {t}, cur |-> None]]
  /\ hist' = [hist EXCEPT ![t].requeues = @ + 1]
  /\ Reschedules({t})
  /\ UNCHANGED <<redis, proc, inFlight, lingering, mode, rebuild>>

CancelTask(c, t) ==
  /\ disp[c] = NoWork
  /\ DB!CanCancel(row[t])
  /\ row' = [row EXCEPT ![t] = DB!Cancel(row[t])]
  /\ disp' = [disp EXCEPT ![c] = [op |-> "remove", todo |-> {t}, cur |-> None]]
  /\ UNCHANGED <<redis, proc, inFlight, lingering, mode, hist, faults, rebuild>>

SoftDeleteTask(c, t) ==
  /\ disp[c] = NoWork
  /\ DB!CanSoftDelete(row[t])
  /\ row' = [row EXCEPT ![t] = DB!SoftDelete(row[t])]
  /\ disp' = [disp EXCEPT ![c] = [op |-> "remove", todo |-> {t}, cur |-> None]]
  /\ UNCHANGED <<redis, proc, inFlight, lingering, mode, hist, faults, rebuild>>

(* The broker.Remove that ends CancelTask and SoftDeleteTask; its error is  *)
(* ignored.                                                                 *)
RemoveMessage(c) ==
  /\ disp[c].op = "remove"
  /\ \E t \in disp[c].todo :
       \/ redis' = MQ!Remove(redis, t) /\ UNCHANGED faults
       \/ Fault("cleanup") /\ UNCHANGED redis
  /\ disp' = [disp EXCEPT ![c] = NoWork]
  /\ UNCHANGED <<row, proc, inFlight, lingering, mode, hist, rebuild>>
-----------------------------------------------------------------------------
(* engine.Engine: the background loops, and the Enqueue / MarkDispatched    *)
(* pair they share with CreateTask and RetryTask.                           *)

(* ReclaimLoop: one transaction resets the expired rows it could lock.      *)
ReclaimScan(l) ==
  /\ disp[l] = NoWork
  /\ ~Stopped
  /\ \E S \in SUBSET {t \in Task : DB!CanReclaim(row[t])} :
       /\ S # {}
       /\ row' = [t \in Task |-> IF t \in S THEN DB!ReclaimExpired(row[t])
                                            ELSE row[t]]
       /\ disp' = [disp EXCEPT ![l] = [op |-> "dispatch", todo |-> S, cur |-> None]]
       /\ Reschedules(S)
  /\ UNCHANGED <<redis, proc, inFlight, lingering, mode, hist, rebuild>>

(* ReconciliationLoop: the list is read here and used after.                *)
ReconcileScan(l) ==
  /\ disp[l] = NoWork
  /\ ~Stopped
  /\ LET S == {t \in Task : DB!Undispatched(row[t])} IN
       /\ S # {}
       /\ disp' = [disp EXCEPT ![l] = [op |-> "dispatch", todo |-> S, cur |-> None]]
  /\ UNCHANGED <<row, redis, proc, inFlight, lingering, mode, hist, faults, rebuild>>

(* The rest of a request or iteration once t left todo and cur is c.        *)
Rest(a, t, c) ==
  LET todo == disp[a].todo \ {t}
  IN  IF todo = {} /\ c = None THEN NoWork
      ELSE [disp[a] EXCEPT !.todo = todo, !.cur = c]

(* A task created for a later time is enqueued directly only if that time   *)
(* has come; NotYet rows are the ones nothing has touched since Create.     *)
NotYet(r) == r.status = "pending" /\ ~r.due /\ r.attempts = 0

DispatchEnqueue(a, t) ==
  /\ disp[a].op \in {"create", "schedule", "dispatch"}
  /\ disp[a].cur = None
  /\ t \in disp[a].todo
  /\ \/ /\ \/ /\ disp[a].op = "schedule"
              /\ redis' = MQ!EnqueueDelayed(redis, t)
           \/ /\ disp[a].op = "schedule" => ~NotYet(row[t])
              /\ redis' = MQ!Enqueue(redis, t)
        /\ disp' = [disp EXCEPT ![a] = Rest(a, t, t)]
        /\ UNCHANGED faults
     \/ /\ Fault("enqueue")
        /\ disp' = [disp EXCEPT ![a] = Rest(a, t, None)]
        /\ UNCHANGED redis
  /\ UNCHANGED <<row, proc, inFlight, lingering, mode, hist, rebuild>>

DispatchMark(a) ==
  LET t == disp[a].cur IN
  /\ t # None
  /\ \/ /\ row' = [row EXCEPT ![t] = IF DB!CanMarkDispatched(@)
                                     THEN DB!MarkDispatched(@) ELSE @]
        /\ UNCHANGED faults
     \/ Fault("write") /\ UNCHANGED row
  /\ disp' = [disp EXCEPT ![a] = Rest(a, t, None)]
  /\ UNCHANGED <<redis, proc, inFlight, lingering, mode, hist, rebuild>>

(* The client goes away, the API dies, or the scope of a loop is stopped.   *)
Abandon(a) ==
  /\ disp[a] # NoWork
  /\ Fault("abandon")
  /\ disp' = [disp EXCEPT ![a] = NoWork]
  /\ UNCHANGED <<row, redis, proc, inFlight, lingering, mode, hist, rebuild>>

(* DelayedPromotionLoop: scores are not modelled, so a delayed message may  *)
(* be promoted at any time not before the visible_at of a pending row; with *)
(* clocks that disagree, even then.                                         *)
Ripe(t) == row[t].status = "pending" => row[t].due

PromoteDelayed ==
  /\ ~Stopped
  /\ \E S \in SUBSET redis.delayed :
       /\ S # {}
       /\ \/ (\A t \in S : Ripe(t)) /\ UNCHANGED faults
          \/ (\E t \in S : ~Ripe(t)) /\ Fault("skew")
       /\ redis' = MQ!PromoteDueDelayed(redis, S)
  /\ UNCHANGED <<row, proc, inFlight, lingering, mode, disp, hist, rebuild>>
-----------------------------------------------------------------------------
(* worker.Pool and engine.Execute.                                          *)

(* process() returns: the deferred functions free the slot and delete the   *)
(* task's inFlight entry, whichever goroutine stored it.  They only signal  *)
(* the heartbeatLoop: one that lingers goes on.                             *)
Leave(p) ==
  /\ proc' = [proc EXCEPT ![p] = Idle]
  /\ inFlight' = [inFlight EXCEPT ![PoolOf[p]][proc[p].task] = None]

(* The outcome is recorded; pc is the broker call that follows.            *)
Settle(p, pc) ==
  proc' = [proc EXCEPT ![p] = [@ EXCEPT !.pc = pc, !.attempts = 0, !.current = FALSE]]

(* Run acquires a slot, dequeues, and starts process(), which first of all  *)
(* stores its cancel function.                                              *)
Dequeue(p, t) ==
  /\ proc[p].pc = "idle"
  /\ mode[PoolOf[p]] = "up"
  /\ t \in redis.pending
  /\ redis' = MQ!Dequeue(redis, t)
  /\ proc' = [proc EXCEPT ![p] = [Idle EXCEPT !.pc = "claim", !.task = t]]
  /\ inFlight' = [inFlight EXCEPT ![PoolOf[p]][t] = p]
  /\ UNCHANGED <<row, lingering, mode, disp, hist, faults, rebuild>>

Claim(p) ==
  LET t == proc[p].task IN
  /\ proc[p].pc = "claim"
  /\ DB!CanClaim(row[t])
  /\ Succeeds(p)
  /\ row' = [row EXCEPT ![t] = DB!ClaimForProcessing(row[t], PoolOf[p])]
  /\ proc' = [q \in Proc |->
                IF q = p
                THEN [proc[p] EXCEPT !.pc = "run", !.heartbeat = TRUE,
                                     !.attempts = row[t].attempts + 1,
                                     !.current = TRUE]
                ELSE [proc[q] EXCEPT !.current = @ /\ proc[q].task # t]]
  /\ UNCHANGED <<redis, inFlight, lingering, mode, disp, hist, rebuild>>

(* Another statement holds the row lock: a MarkDispatched in progress, or,  *)
(* on a processing row, a heartbeat, a reclaim or the end of an execution.  *)
RowLocked(p) ==
  LET t == proc[p].task IN
  \/ row[t].status = "processing"
  \/ /\ DB!CanMarkDispatched(row[t])
     /\ \/ \E a \in Agent : disp[a].cur = t
        \/ \E q \in Proc : proc[q].pc = "mark" /\ proc[q].task = t

ClaimFails(p) ==
  /\ proc[p].pc = "claim"
  /\ \/ ~DB!CanClaim(row[proc[p].task]) /\ UNCHANGED faults
     \/ RowLocked(p) /\ Fault("skipLocked")
     \/ Fails(p, "claim")
  /\ proc' = [proc EXCEPT ![p].pc = "release"]
  /\ UNCHANGED <<row, redis, inFlight, lingering, mode, disp, hist, rebuild>>

(* Ack after a failed claim, and after Complete.                            *)
AckMessage(p) ==
  /\ proc[p].pc \in {"release", "ack"}
  /\ \/ Succeeds(p) /\ redis' = MQ!Ack(redis, proc[p].task)
     \/ Fails(p, "cleanup") /\ UNCHANGED redis
  /\ Leave(p)
  /\ UNCHANGED <<row, lingering, mode, disp, hist, rebuild>>

(* The handler returned nil.                                                *)
ExecuteSucceeds(p) ==
  LET t == proc[p].task IN
  /\ proc[p].pc = "run"
  /\ DB!CanFinish(row[t])
  /\ Succeeds(p)
  /\ row' = [row EXCEPT ![t] = DB!Complete(row[t])]
  /\ Settle(p, "ack")
  /\ UNCHANGED <<redis, inFlight, lingering, mode, disp, hist, rebuild>>

(* The handler returned an error, panicked or timed out: handleFailure.     *)
ExecuteFails(p) ==
  LET t == proc[p].task
      dead == DB!IsExhausted(proc[p].attempts)
  IN
  /\ proc[p].pc = "run"
  /\ DB!CanFinish(row[t])
  /\ ~proc[p].cancelled
  /\ Reschedules(IF dead THEN {} ELSE {t})
  /\ row' = [row EXCEPT ![t] = IF dead THEN DB!MoveToDeadLetter(row[t])
                                       ELSE DB!Fail(row[t])]
  /\ Settle(p, IF dead THEN "bury" ELSE "nack")
  /\ UNCHANGED <<redis, inFlight, lingering, mode, disp, hist, rebuild>>

(* The statement that records the outcome matched no row or failed.         *)
OutcomeLost(p) ==
  /\ proc[p].pc = "run"
  /\ \/ ~DB!CanFinish(row[proc[p].task]) /\ UNCHANGED faults
     \/ Fails(p, "write")
  /\ Leave(p)
  /\ UNCHANGED <<row, redis, lingering, mode, disp, hist, rebuild>>

NackMessage(p) ==
  /\ proc[p].pc = "nack"
  /\ \/ /\ Succeeds(p)
        /\ redis' = MQ!Nack(redis, proc[p].task)
        /\ proc' = [proc EXCEPT ![p].pc = "mark"]
        /\ UNCHANGED inFlight
     \/ /\ Fails(p, "nack")
        /\ Leave(p)
        /\ UNCHANGED redis
  /\ UNCHANGED <<row, lingering, mode, disp, hist, rebuild>>

MarkRetry(p) ==
  LET t == proc[p].task IN
  /\ proc[p].pc = "mark"
  /\ \/ /\ Succeeds(p)
        /\ row' = [row EXCEPT ![t] = IF DB!CanMarkDispatched(@)
                                     THEN DB!MarkDispatched(@) ELSE @]
     \/ Fails(p, "write") /\ UNCHANGED row
  /\ Leave(p)
  /\ UNCHANGED <<redis, lingering, mode, disp, hist, rebuild>>

BuryMessage(p) ==
  /\ proc[p].pc = "bury"
  /\ \/ Succeeds(p) /\ redis' = MQ!MoveToDeadLetter(redis, proc[p].task)
     \/ Fails(p, "cleanup") /\ UNCHANGED redis
  /\ Leave(p)
  /\ UNCHANGED <<row, lingering, mode, disp, hist, rebuild>>
-----------------------------------------------------------------------------
(* heartbeatLoop is started by the claim.  It keeps step with its goroutine *)
(* until it lingers, and then has one more call to make or to return from.  *)

Beating(p) == /\ proc[p].pc \in Claimed
              /\ proc[p].heartbeat
              /\ ~proc[p].cancelled

HeartbeatRenews(p) ==
  LET t == proc[p].task IN
  /\ Beating(p)
  /\ DB!CanHeartbeat(row[t], PoolOf[p])
  /\ row' = [row EXCEPT ![t] = DB!Heartbeat(row[t])]
  /\ UNCHANGED <<redis, proc, inFlight, lingering, mode, disp, hist, faults, rebuild>>

(* A loop of pool w that ends with an error cancels the goroutine inFlight  *)
(* names for its task, which need not be the one that started it.           *)
Misfires(w, t) == \E q \in Proc : inFlight[w][t] = q /\ proc[q].pc = "claim"

HeartbeatLost(p) ==
  LET t == proc[p].task
      victim == inFlight[PoolOf[p]][t]
  IN
  /\ Beating(p)
  /\ \/ ~DB!CanHeartbeat(row[t], PoolOf[p]) /\ UNCHANGED faults
     \/ Fault("heartbeat")
  /\ Misfires(PoolOf[p], t) => "misfire" \in Faults
  /\ proc' = [q \in Proc |->
                [proc[q] EXCEPT !.heartbeat = @ /\ q # p,
                                !.cancelled = @ \/ q = victim]]
  /\ UNCHANGED <<row, redis, inFlight, lingering, mode, disp, hist, rebuild>>

(* The loop falls behind.  Its ctx may be done already: select takes either *)
(* of two channels that are ready.                                          *)
HeartbeatLingers(p) ==
  /\ proc[p].pc \in Claimed
  /\ proc[p].heartbeat
  /\ Fault("linger")
  /\ proc' = [proc EXCEPT ![p].heartbeat = FALSE]
  /\ lingering' = [lingering EXCEPT ![PoolOf[p]][proc[p].task] = @ + 1]
  /\ UNCHANGED <<row, redis, inFlight, mode, disp, hist, rebuild>>

(* The call it was left with returns an error, most often that of its ctx,  *)
(* but the UPDATE may have run.  A call that succeeds has returned before   *)
(* hbCancel: that is HeartbeatRenews, and its loop then finds its ctx done. *)
LateHeartbeat(w, t) ==
  /\ lingering[w][t] > 0
  /\ \/ UNCHANGED row
     \/ /\ DB!CanHeartbeat(row[t], w)
        /\ row' = [row EXCEPT ![t] = DB!Heartbeat(row[t])]
  /\ Misfires(w, t) => "misfire" \in Faults
  /\ proc' = [q \in Proc |-> [proc[q] EXCEPT !.cancelled = @ \/ q = inFlight[w][t]]]
  /\ lingering' = [lingering EXCEPT ![w][t] = @ - 1]
  /\ UNCHANGED <<redis, inFlight, mode, disp, hist, faults, rebuild>>

Slots(w) == {p \in Proc : PoolOf[p] = w}

Unclaimed(w) == \E p \in Slots(w) : proc[p].pc = "claim"

(* gracefulDrain: no new Dequeue; after ShutdownTimeout every goroutine in  *)
(* inFlight is cancelled; the worker is restarted once all have returned.   *)
Drain(w) ==
  /\ mode[w] = "up"
  /\ Fault("shutdown")
  /\ mode' = [mode EXCEPT ![w] = "draining"]
  /\ UNCHANGED <<row, redis, proc, inFlight, lingering, disp, hist, rebuild>>

ForceCancel(w) ==
  /\ mode[w] = "draining"
  /\ \E p \in Slots(w) : proc[p].pc # "idle"
  /\ IF Unclaimed(w) THEN Fault("early") ELSE UNCHANGED faults
  /\ mode' = [mode EXCEPT ![w] = "forced"]
  /\ proc' = [p \in Proc |->
                [proc[p] EXCEPT !.cancelled =
                   @ \/ (p \in Slots(w) /\ \E t \in Task : inFlight[w][t] = p)]]
  /\ UNCHANGED <<row, redis, inFlight, lingering, disp, hist, rebuild>>

Restart(w) ==
  /\ mode[w] # "up"
  /\ ~Stopped
  /\ \A p \in Slots(w) : proc[p].pc = "idle"
  /\ mode' = [mode EXCEPT ![w] = "up"]
  /\ lingering' = [lingering EXCEPT ![w] = [t \in Task |-> 0]]
  /\ UNCHANGED <<row, redis, proc, inFlight, disp, hist, faults, rebuild>>

(* A worker process dies and is restarted: its goroutines and its inFlight  *)
(* map are gone, Postgres and Redis keep what they hold.  A pool that starts *)
(* after a drain has a new inFlight map too, in which a loop left behind by *)
(* the old one finds nothing.                                               *)
Crash(w) ==
  /\ \E p \in Slots(w) : proc[p].pc # "idle"
  /\ Fault(IF Unclaimed(w) THEN "early" ELSE "crash")
  /\ proc' = [p \in Proc |-> IF p \in Slots(w) THEN Idle ELSE proc[p]]
  /\ inFlight' = [inFlight EXCEPT ![w] = [t \in Task |-> None]]
  /\ lingering' = [lingering EXCEPT ![w] = [t \in Task |-> 0]]
  /\ mode' = [mode EXCEPT ![w] = IF Stopped THEN "draining" ELSE "up"]
  /\ UNCHANGED <<row, redis, disp, hist, rebuild>>
-----------------------------------------------------------------------------
(* cmd/maintenance redis-rebuild, after a loss of Redis, with the workers   *)
(* stopped (readme.md:456) and the API up.                                  *)

FlushRedis ==
  /\ rebuild.pc = "idle"
  /\ Fault("flush")
  /\ redis' = MQ!Empty
  /\ rebuild' = Rebuild("flushed")
  /\ UNCHANGED <<row, proc, inFlight, lingering, mode, disp, hist>>

StopWorkers ==
  /\ rebuild.pc = "flushed"
  /\ mode' = [w \in Worker |-> IF mode[w] = "up" THEN "draining" ELSE mode[w]]
  /\ rebuild' = Rebuild("stopping")
  /\ UNCHANGED <<row, redis, proc, inFlight, lingering, disp, hist, faults>>

(* ListDispatchableTasks, once the workers are gone.                        *)
RebuildScan ==
  /\ rebuild.pc = "stopping"
  /\ \A p \in Proc : proc[p].pc = "idle"
  /\ \A l \in Loop : disp[l] = NoWork
  /\ LET S == {t \in Task : DB!Dispatchable(row[t])} IN
       rebuild' = IF S = {} THEN Rebuild("idle")
                  ELSE [pc |-> "clear", todo |-> S, cur |-> None,
                        later |-> {t \in S : ~row[t].due}]
  /\ UNCHANGED <<row, redis, proc, inFlight, lingering, mode, disp, hist, faults>>

(* Rebuild, for one task: Remove, Enqueue or EnqueueDelayed, MarkDispatched. *)
RebuildRemove(t) ==
  /\ rebuild.pc = "clear"
  /\ t \in rebuild.todo
  /\ redis' = MQ!Remove(redis, t)
  /\ rebuild' = [rebuild EXCEPT !.pc = "refill", !.todo = @ \ {t}, !.cur = t]
  /\ UNCHANGED <<row, proc, inFlight, lingering, mode, disp, hist, faults>>

RebuildEnqueue ==
  LET t == rebuild.cur IN
  /\ rebuild.pc = "refill"
  /\ \/ t \in rebuild.later /\ redis' = MQ!EnqueueDelayed(redis, t)
     \/ (t \in rebuild.later => Ripe(t)) /\ redis' = MQ!Enqueue(redis, t)
  /\ rebuild' = [rebuild EXCEPT !.pc = "mark"]
  /\ UNCHANGED <<row, proc, inFlight, lingering, mode, disp, hist, faults>>

RebuildMark ==
  LET t == rebuild.cur IN
  /\ rebuild.pc = "mark"
  /\ DB!CanMarkDispatched(row[t])
  /\ row' = [row EXCEPT ![t] = DB!MarkDispatched(@)]
  /\ rebuild' = IF rebuild.todo = {} THEN Rebuild("idle")
                ELSE [rebuild EXCEPT !.pc = "clear", !.cur = None]
  /\ UNCHANGED <<redis, proc, inFlight, lingering, mode, disp, hist, faults>>

(* Any error ends the command, also MarkDispatched of a task that is no     *)
(* longer pending.  It is run again.                                        *)
RebuildFails ==
  /\ \/ rebuild.pc = "clear" /\ Fault("cleanup")
     \/ rebuild.pc = "refill" /\ Fault("enqueue")
     \/ rebuild.pc = "mark" /\ Fault("write")
     \/ /\ rebuild.pc = "mark"
        /\ ~DB!CanMarkDispatched(row[rebuild.cur])
        /\ UNCHANGED faults
  /\ rebuild' = Rebuild("stopping")
  /\ UNCHANGED <<row, redis, proc, inFlight, lingering, mode, disp, hist>>
-----------------------------------------------------------------------------
(* Time: a backoff ends, a scheduled time comes, a lease expires.  A lease  *)
(* expires although its goroutine is alive and heartbeating only by Stall.  *)

Holds(p, t) == /\ proc[p].pc = "run"
               /\ proc[p].task = t
               /\ proc[p].current

(* handleFailure has reset the row and not returned yet.                    *)
Retrying(t) == \E p \in Proc : proc[p].task = t /\ proc[p].pc \in {"nack", "mark"}

Renewed(t) == \E p \in Proc : Holds(p, t) /\ Beating(p)

Elapse(t) ==
  /\ row[t].status \in {"pending", "processing"}
  /\ ~row[t].due
  /\ CASE row[t].status = "processing" /\ Renewed(t) -> Fault("stall")
       [] row[t].status = "pending" /\ Retrying(t)   -> Fault("late")
       [] OTHER -> UNCHANGED faults
  /\ row' = [row EXCEPT ![t].due = TRUE]
  /\ hist' = IF row[t].status = "processing" THEN [hist EXCEPT ![t].lapsed = TRUE] ELSE hist
  /\ UNCHANGED <<redis, proc, inFlight, lingering, mode, disp, rebuild>>
-----------------------------------------------------------------------------
ClientStep(c) ==
  \/ \E t \in Task : \/ CreateTask(c, t) \/ RetryTask(c, t)
                     \/ CancelTask(c, t) \/ SoftDeleteTask(c, t)
  \/ RemoveMessage(c)

LoopStep(l) == ReclaimScan(l) \/ ReconcileScan(l)

DispatchStep(a) ==
  \/ \E t \in Task : DispatchEnqueue(a, t)
  \/ DispatchMark(a)
  \/ Abandon(a)

ProcStep(p) ==
  \/ \E t \in Task : Dequeue(p, t)
  \/ Claim(p) \/ ClaimFails(p) \/ AckMessage(p)
  \/ ExecuteSucceeds(p) \/ ExecuteFails(p) \/ OutcomeLost(p)
  \/ NackMessage(p) \/ MarkRetry(p) \/ BuryMessage(p)
  \/ HeartbeatRenews(p) \/ HeartbeatLost(p) \/ HeartbeatLingers(p)

RebuildStep ==
  \/ StopWorkers \/ RebuildScan \/ (\E t \in Task : RebuildRemove(t))
  \/ RebuildEnqueue \/ RebuildMark \/ RebuildFails

PoolStep(w) == Drain(w) \/ ForceCancel(w) \/ Restart(w) \/ Crash(w)

Next ==
  \/ \E c \in Client : ClientStep(c)
  \/ \E l \in Loop : LoopStep(l)
  \/ \E a \in Agent : DispatchStep(a)
  \/ \E p \in Proc : ProcStep(p)
  \/ \E w \in Worker : PoolStep(w)
  \/ \E w \in Worker, t \in Task : LateHeartbeat(w, t)
  \/ \E t \in Task : Elapse(t)
  \/ PromoteDelayed
  \/ FlushRedis
  \/ RebuildStep

Spec == Init /\ [][Next]_vars

(* A slot and an agent are sequential code: their next statement, whichever *)
(* it is, and the states in which it can run.                               *)
SlotTurn(p) ==
  \/ \E t \in Task : Dequeue(p, t)
  \/ Claim(p) \/ ClaimFails(p) \/ AckMessage(p)
  \/ ExecuteSucceeds(p) \/ ExecuteFails(p) \/ OutcomeLost(p)
  \/ NackMessage(p) \/ MarkRetry(p) \/ BuryMessage(p)

SlotReady(p) == proc[p].pc = "idle" => mode[PoolOf[p]] = "up" /\ redis.pending # {}

AgentTurn(a) ==
  \/ (\E t \in Task : DispatchEnqueue(a, t)) \/ DispatchMark(a)
  \/ a \in Client /\ RemoveMessage(a)

AgentReady(a) == disp[a] # NoWork

(* Fairness: every goroutine, loop and request keeps running, time passes,  *)
(* messages are dequeued and handlers return; an operator rebuilds Redis.   *)
(* The first two are weak fairness of SlotTurn(p) and AgentTurn(a), with    *)
(* SlotReady(p) and AgentReady(a) for when they are enabled.                *)
Fairness ==
  /\ \A p \in Proc : []<>~SlotReady(p) \/ []<><<SlotTurn(p)>>_vars
  /\ \A a \in Agent : []<>~AgentReady(a) \/ []<><<AgentTurn(a)>>_vars
  /\ \A l \in Loop : WF_vars(ReclaimScan(l)) /\ WF_vars(ReconcileScan(l))
  /\ \A w \in Worker : WF_vars(Restart(w))
  /\ \A t \in Task : WF_vars(Elapse(t) /\ UNCHANGED faults)
  /\ WF_vars(PromoteDelayed)
  /\ WF_vars(RebuildStep)

FairSpec == Spec /\ Fairness
-----------------------------------------------------------------------------
Executing(p, t) == proc[p].pc = "run" /\ proc[p].task = t

(* ClaimForProcessing (postgres_storage.go:94) lets two goroutines execute  *)
(* one task at the same time only if a lease on it has lapsed at some time: *)
(* crashes, drains, duplicate messages and retries never do it alone.       *)
LeaseExclusion ==
  \A t \in Task : \A p, q \in Proc :
    Executing(p, t) /\ Executing(q, t) /\ p # q => hist[t].lapsed

(* handleFailure (engine.go:113) decides on its own copy of attempts.       *)
(* Unless a lease lapsed, the row never exceeds its budget, a waiting or    *)
(* queued row has attempts left, and dead_letter means the budget is spent. *)
RetryBudget ==
  \A t \in Task : ~hist[t].lapsed =>
    /\ row[t].attempts <= MaxAttempts
    /\ row[t].status = "pending" => row[t].attempts < MaxAttempts
    /\ row[t].status = "dead_letter" => row[t].attempts = MaxAttempts

(* locked_by is set exactly while a row is processing, and a deleted row is *)
(* terminal: no statement leaves a lock behind or revives a deleted row.    *)
RowConsistent ==
  \A t \in Task : /\ row[t].owner # None <=> row[t].status = "processing"
                  /\ row[t].deleted => row[t].status \in DB!Terminal

(* Late writes of goroutines that lost their lease, of loops holding stale  *)
(* lists and of requests never change a completed or deleted task, and a    *)
(* dead-lettered or cancelled one is only ever revived by RetryTask.        *)
Finality ==
  [][\A t \in Task :
       row[t].status \in DB!Terminal =>
         \/ row'[t].status = row[t].status /\ (row[t].deleted => row'[t].deleted)
         \/ /\ row[t].status # "completed" /\ ~row[t].deleted
            /\ hist'[t].requeues = hist[t].requeues + 1]_vars

(* Every step of the queue, loops, stale goroutines and requests included,  *)
(* is a transition of the task lifecycle of internal/domain/task.go.        *)
Life == INSTANCE TaskLifecycle WITH
          status   <- [t \in Task |-> row[t].status],
          attempts <- [t \in Task |-> row[t].attempts],
          deleted  <- [t \in Task |-> row[t].deleted]

ImplementsLifecycle == Life!Spec

(* Something will bring a pending row to a worker: a Redis message, a       *)
(* goroutine about to claim or nack it, or a process about to enqueue it.   *)
Reachable(t) ==
  \/ t \in redis.pending \cup redis.delayed
  \/ \E p \in Proc : proc[p].task = t /\ proc[p].pc \in {"claim", "nack"}
  \/ \E a \in Agent : t \in disp[a].todo /\ disp[a].op # "remove"

(* dispatched_at hides a row from ReconciliationLoop (engine.go:275), so a  *)
(* pending row carries it only while something else will run the task; and  *)
(* so again as soon as a rebuild (redis_rebuild.go:28) reports success.     *)
NoStranded ==
  rebuild.pc = "idle" =>
    \A t \in Task :
      row[t].status = "pending" /\ row[t].dispatched => Reachable(t)

(* Whatever is created is finished or dead-lettered in the end, whichever   *)
(* failure cuts its dispatch, execution or retry short: the reclaim and     *)
(* reconciliation loops (engine.go:222, 275) pick it up.                    *)
EventuallyDone ==
  \A t \in Task : row[t].status = "pending" ~> row[t].status \in DB!Terminal
=============================================================================
