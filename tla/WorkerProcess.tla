---------------------------- MODULE WorkerProcess ----------------------------
(***************************************************************************)
(* One worker process (cmd/worker) from its start to its exit: the scope   *)
(* discovery that starts and stops a runner for every queue with work, the *)
(* runners with their pools and heartbeat loops, the metric recorder they  *)
(* all share, and the shutdown that winds them down in order.              *)
(*                                                                         *)
(* What a pool does with a task is the subject of QueueFlow; here a task   *)
(* goroutine only starts, records metrics and returns.  A pool has one     *)
(* slot.                                                                   *)
(*                                                                         *)
(* Failures, bounded by MaxFaults:                                         *)
(*   write   AppendMetricEvents returns an error                           *)
(*   slow    Close gives up after ShutdownTimeout                          *)
(* A listing or a heartbeat statement that fails is logged and changes     *)
(* nothing until the next tick.                                            *)
(***************************************************************************)
EXTENDS Naturals, Sequences

CONSTANTS Scope,
          None,
          MaxRunners,   \* bound: queues becoming active, so runners started
          MaxMetrics,   \* bound: metrics of tasks and registry heartbeats
          Capacity, BatchSize,
          Faults, MaxFaults

ASSUME WorkerProcessAssumption ==
  /\ None \notin Scope \cup Nat
  /\ MaxRunners \in Nat /\ MaxMetrics \in Nat
  /\ BatchSize \in Nat \ {0} /\ Capacity \in Nat /\ BatchSize <= Capacity
  /\ Faults \subseteq {"write", "slow"}
  /\ MaxFaults \in Nat

Runner == 1..MaxRunners

(* The source of a metric: a task goroutine, the heartbeat loop, or the     *)
(* worker.stopped at the end of runScope.                                   *)
Event == [by : Runner, kind : {"task", "beat", "stopped"},
          n : 0..MaxMetrics]

TaskEvent(r, n) == [by |-> r, kind |-> "task", n |-> n]
BeatEvent(r, n) == [by |-> r, kind |-> "beat", n |-> n]
StoppedEvent(r) == [by |-> r, kind |-> "stopped", n |-> 0]

VARIABLES active,     \* Postgres: the queues with pending or processing tasks
          woken,      \* bound: how often a queue became active
          metrics,    \* bound: metrics of tasks and heartbeats so far
          signalled,  \* SIGTERM: runCtx is cancelled
          disc,       \* the goroutine of ScopeDiscovery.Run
          running,    \* ScopeDiscovery.running: the runner to cancel
          run,        \* the runScope goroutines and what they started
          main,       \* main(): running, closing the recorder, exited
          faults,
          events, batch, closed, stop, loop, stored, dropped, failed

Metrics == INSTANCE MetricRecorder

vars == <<active, woken, metrics, signalled, disc, running, run, main, faults,
          events, batch, closed, stop, loop, stored, dropped, failed>>

recorder == <<events, batch, closed, stop, loop, stored, dropped, failed>>

procVars == <<active, woken, metrics, signalled, disc, running, run, main, faults>>

(* send: inside RecordMetric, after closed was read.  The task and the pool *)
(* read it as they enter; the heartbeat loop is first at check, after its   *)
(* statement.                                                               *)
RunState == [scope     : Scope \cup {None},
             cancelled : BOOLEAN,    \* its cancel function was called
             pool      : {"off", "up", "drain", "send", "returned"},
             task      : {"idle", "busy", "send"},
             beat      : {"off", "wait", "check", "send"},
             tasks     : Nat,        \* task metrics so far
             beats     : Nat]        \* heartbeat metrics so far

NotStarted == [scope |-> None, cancelled |-> FALSE, pool |-> "off",
               task |-> "idle", beat |-> "off", tasks |-> 0, beats |-> 0]

Started(s) == [NotStarted EXCEPT !.scope = s, !.pool = "up", !.beat = "wait"]

DiscPC == {"wait", "apply", "join", "returned"}

TypeOK ==
  /\ active \subseteq Scope
  /\ woken \in 0..MaxRunners /\ metrics \in 0..MaxMetrics
  /\ signalled \in BOOLEAN
  /\ disc \in [pc : DiscPC, wanted : SUBSET Scope]
  /\ running \in [Scope -> Runner \cup {None}]
  /\ run \in [Runner -> RunState]
  /\ main \in {"run", "closing", "closed", "exited"}
  /\ faults \in 0..MaxFaults
  /\ Metrics!RecorderTypeOK

Init ==
  /\ active = {} /\ woken = 0 /\ metrics = 0
  /\ signalled = FALSE
  /\ disc = [pc |-> "wait", wanted |-> {}]
  /\ running = [s \in Scope |-> None]
  /\ run = [r \in Runner |-> NotStarted]
  /\ main = "run"
  /\ faults = 0
  /\ Metrics!RecorderInit

Fault(k) == k \in Faults /\ faults < MaxFaults /\ faults' = faults + 1

Alive == main # "exited"
-----------------------------------------------------------------------------
(* The world around the process.  After the signal nothing reads active.    *)

QueueWakes(s) ==
  /\ ~signalled /\ s \notin active /\ woken < MaxRunners
  /\ active' = active \cup {s}
  /\ woken' = woken + 1
  /\ UNCHANGED <<metrics, signalled, disc, running, run, main, faults, recorder>>

QueueEmpties(s) ==
  /\ ~signalled /\ s \in active
  /\ active' = active \ {s}
  /\ UNCHANGED <<woken, metrics, signalled, disc, running, run, main, faults, recorder>>

Signal ==
  /\ ~signalled
  /\ signalled' = TRUE
  /\ UNCHANGED <<active, woken, metrics, disc, running, run, main, faults, recorder>>
-----------------------------------------------------------------------------
(* worker.ScopeDiscovery.                                                   *)

(* refresh, at the start and at every tick: the list is read here and       *)
(* applied in the next step.                                                *)
List ==
  /\ Alive /\ disc.pc = "wait" /\ ~signalled
  /\ disc' = [pc |-> "apply", wanted |-> active]
  /\ UNCHANGED <<active, woken, metrics, signalled, running, run, main, faults, recorder>>

Unused == {r \in Runner : run[r].scope = None}

(* Runner identities are handed out in order.                               *)
Fresh(new) == {f \in [new -> Unused] :
                 /\ \A s, u \in new : s # u => f[s] # f[u]
                 /\ \A s \in new, r \in Unused : r < f[s] => \E u \in new : f[u] = r}

(* Mutant: a queue without work is forgotten and its runner not cancelled.  *)
ApplyLosesCancel ==
  LET new == {s \in disc.wanted : running[s] = None}
  IN
  /\ Alive /\ disc.pc = "apply"
  /\ \E f \in Fresh(new) :
       /\ running' = [s \in Scope |-> IF s \in new THEN f[s]
                                      ELSE IF s \in disc.wanted THEN running[s]
                                      ELSE None]
       /\ run' = [r \in Runner |->
                    IF \E s \in new : f[s] = r
                    THEN Started(CHOOSE s \in new : f[s] = r)
                    ELSE run[r]]
  /\ disc' = [pc |-> "wait", wanted |-> {}]
  /\ UNCHANGED <<active, woken, metrics, signalled, main, faults, recorder>>

(* Mutant: a cancelled runner keeps its entry in the map.                   *)
ApplyKeepsEntry ==
  LET new == {s \in disc.wanted : running[s] = None}
  IN
  /\ Alive /\ disc.pc = "apply"
  /\ \E f \in Fresh(new) :
       /\ running' = [s \in Scope |-> IF s \in new THEN f[s] ELSE running[s]]
       /\ run' = [r \in Runner |->
                    IF \E s \in new : f[s] = r
                    THEN Started(CHOOSE s \in new : f[s] = r)
                    ELSE [run[r] EXCEPT !.cancelled =
                            @ \/ \E s \in Scope \ disc.wanted : running[s] = r]]
  /\ disc' = [pc |-> "wait", wanted |-> {}]
  /\ UNCHANGED <<active, woken, metrics, signalled, main, faults, recorder>>

Apply ==
  LET new == {s \in disc.wanted : running[s] = None}
      old == {s \in Scope \ disc.wanted : running[s] # None}
  IN
  /\ Alive /\ disc.pc = "apply"
  /\ \E f \in Fresh(new) :
       /\ running' = [s \in Scope |-> IF s \in new THEN f[s]
                                      ELSE IF s \in old THEN None
                                      ELSE running[s]]
       /\ run' = [r \in Runner |->
                    IF \E s \in new : f[s] = r
                    THEN Started(CHOOSE s \in new : f[s] = r)
                    ELSE [run[r] EXCEPT !.cancelled =
                            @ \/ \E s \in old : running[s] = r]]
  /\ disc' = [pc |-> "wait", wanted |-> {}]
  /\ UNCHANGED <<active, woken, metrics, signalled, main, faults, recorder>>

(* ctx.Done in the select of Run.                                           *)
StopAll ==
  /\ Alive /\ disc.pc = "wait" /\ signalled
  /\ run' = [r \in Runner |-> [run[r] EXCEPT !.cancelled =
                                 @ \/ \E s \in Scope : running[s] = r]]
  /\ running' = [s \in Scope |-> None]
  /\ disc' = [disc EXCEPT !.pc = "join"]
  /\ UNCHANGED <<active, woken, metrics, signalled, main, faults, recorder>>

(* wg.Wait: every runner ever started has returned.                         *)
Join ==
  /\ Alive /\ disc.pc = "join"
  /\ \A r \in Runner : run[r].pool \in {"off", "returned"}
  /\ disc' = [disc EXCEPT !.pc = "returned"]
  /\ UNCHANGED <<active, woken, metrics, signalled, running, run, main, faults, recorder>>
-----------------------------------------------------------------------------
(* runScope: the pool, whose Run returns once its goroutines have, and the  *)
(* worker.stopped metric after it.                                          *)

Done(r) == run[r].cancelled \/ signalled

(* All that a step of runner r may change besides the recorder.             *)
Runs(r, new) ==
  /\ run' = [run EXCEPT ![r] = new]
  /\ UNCHANGED <<active, woken, signalled, disc, running, main>>

Counted == metrics < MaxMetrics /\ metrics' = metrics + 1

(* A Dequeue that began before the cancellation may still return a task.    *)
TaskStarts(r) ==
  /\ Alive /\ run[r].pool = "up" /\ run[r].task = "idle"
  /\ Runs(r, [run[r] EXCEPT !.task = "busy"])
  /\ UNCHANGED <<metrics, faults, recorder>>

TaskRecords(r) ==
  /\ Alive /\ run[r].task = "busy" /\ Counted
  /\ Runs(r, [run[r] EXCEPT !.task = IF closed THEN "busy" ELSE "send",
                            !.tasks = @ + 1])
  /\ UNCHANGED <<faults, recorder>>

TaskReturns(r) ==
  /\ Alive /\ run[r].task = "busy"
  /\ Runs(r, [run[r] EXCEPT !.task = "idle"])
  /\ UNCHANGED <<metrics, faults, recorder>>

(* Mutant: the dispatch loop looks at its context only when a slot is free. *)
PoolStopsWhenIdle(r) ==
  /\ Alive /\ run[r].pool = "up" /\ Done(r) /\ run[r].task = "idle"
  /\ Runs(r, [run[r] EXCEPT !.pool = "drain"])
  /\ UNCHANGED <<metrics, faults, recorder>>

PoolStops(r) ==
  /\ Alive /\ run[r].pool = "up" /\ Done(r)
  /\ Runs(r, [run[r] EXCEPT !.pool = "drain"])
  /\ UNCHANGED <<metrics, faults, recorder>>

(* Mutant: gracefulDrain returns at the force-cancel.                       *)
PoolLeavesTask(r) ==
  /\ Alive /\ run[r].pool = "drain"
  /\ Runs(r, [run[r] EXCEPT !.pool = IF closed THEN "returned" ELSE "send"])
  /\ UNCHANGED <<metrics, faults, recorder>>

(* gracefulDrain waits for the goroutines even after the force-cancel.      *)
PoolDrained(r) ==
  /\ Alive /\ run[r].pool = "drain" /\ run[r].task = "idle"
  /\ Runs(r, [run[r] EXCEPT !.pool = IF closed THEN "returned" ELSE "send"])
  /\ UNCHANGED <<metrics, faults, recorder>>
-----------------------------------------------------------------------------
(* workerHeartbeatLoop: nobody waits for it.  Its statement runs under the  *)
(* context of the scope.                                                    *)

BeatUpserts(r) ==
  /\ Alive /\ run[r].beat = "wait" /\ ~Done(r)
  /\ Counted
  /\ Runs(r, [run[r] EXCEPT !.beat = "check", !.beats = @ + 1])
  /\ UNCHANGED <<faults, recorder>>

BeatChecks(r) ==
  /\ Alive /\ run[r].beat = "check"
  /\ Runs(r, [run[r] EXCEPT !.beat = IF closed THEN "wait" ELSE "send"])
  /\ UNCHANGED <<metrics, faults, recorder>>
-----------------------------------------------------------------------------
(* The send of RecordMetric, in the goroutine of a task, of a heartbeat     *)
(* loop and of runScope: k names which.  Returned is where it goes on.      *)

Returned(r, k) ==
  CASE k = "task" -> [run[r] EXCEPT !.task = "busy"]
    [] k = "beat" -> [run[r] EXCEPT !.beat = "wait"]
    [] k = "pool" -> [run[r] EXCEPT !.pool = "returned"]

Recorded(r, k) ==
  CASE k = "task" -> TaskEvent(r, run[r].tasks)
    [] k = "beat" -> BeatEvent(r, run[r].beats)
    [] k = "pool" -> StoppedEvent(r)

SendMetric(r, k) ==
  /\ Alive /\ run[r][k] = "send"
  /\ Metrics!Send(Recorded(r, k))
  /\ Runs(r, Returned(r, k))
  /\ UNCHANGED <<metrics, faults>>
-----------------------------------------------------------------------------
(* The recorder's goroutine, and the deferred Close of main().              *)

RecorderSteps ==
  /\ Alive
  /\ \/ Metrics!Receive \/ Metrics!Tick \/ Metrics!StopSeen \/ Metrics!Drained
     \/ Metrics!Written
  /\ UNCHANGED procVars

RecorderFails ==
  /\ Alive /\ Fault("write")
  /\ Metrics!WriteFails
  /\ UNCHANGED <<active, woken, metrics, signalled, disc, running, run, main>>

CloseRecorder ==
  /\ main = "run" /\ disc.pc = "returned"
  /\ main' = "closing"
  /\ Metrics!CloseFlag
  /\ UNCHANGED <<active, woken, metrics, signalled, disc, running, run, faults>>

StopRecorder ==
  /\ main = "closing"
  /\ main' = "closed"
  /\ Metrics!CloseStop
  /\ UNCHANGED <<active, woken, metrics, signalled, disc, running, run, faults>>

Exit ==
  /\ main = "closed"
  /\ \/ loop = "done" /\ UNCHANGED faults
     \/ Fault("slow")
  /\ main' = "exited"
  /\ UNCHANGED <<active, woken, metrics, signalled, disc, running, run, recorder>>

Exited == ~Alive /\ UNCHANGED vars
-----------------------------------------------------------------------------
TaskThread(r) == TaskReturns(r) \/ SendMetric(r, "task")
PoolThread(r) == PoolStops(r) \/ PoolDrained(r) \/ SendMetric(r, "pool")
BeatThread(r) == BeatUpserts(r) \/ BeatChecks(r) \/ SendMetric(r, "beat")

RunnerStep(r) ==
  \/ TaskStarts(r) \/ TaskRecords(r)
  \/ TaskThread(r) \/ PoolThread(r) \/ BeatThread(r)

Discovery == List \/ Apply \/ StopAll \/ Join

Shutdown == CloseRecorder \/ StopRecorder \/ Exit

Next ==
  \/ \E s \in Scope : QueueWakes(s) \/ QueueEmpties(s)
  \/ Signal
  \/ Discovery
  \/ \E r \in Runner : RunnerStep(r)
  \/ RecorderSteps \/ RecorderFails
  \/ Shutdown
  \/ Exited

Spec == Init /\ [][Next]_vars

(* Every goroutine somebody waits for keeps running, handlers return, and   *)
(* Postgres answers a listing in the long run.                              *)
Fairness ==
  /\ WF_vars(Discovery)
  /\ \A r \in Runner : WF_vars(TaskThread(r)) /\ WF_vars(PoolThread(r))
  /\ WF_vars(RecorderSteps)
  /\ WF_vars(Shutdown)

FairSpec == Spec /\ Fairness
-----------------------------------------------------------------------------
(* refresh (worker/discovery.go:55) cancels a runner and forgets it, or     *)
(* starts one and remembers it, in one critical section: a queue never has  *)
(* two runners that still dequeue, however its work comes and goes while an *)
(* earlier runner drains, and no runner that dequeues is out of reach of    *)
(* stopAll.                                                                 *)
SoleRunner ==
  \A r \in Runner : run[r].pool # "off" /\ ~run[r].cancelled =>
    running[run[r].scope] = r

(* The worker.stopped metric (cmd/worker/main.go:134) closes the record of  *)
(* a runner: on the way to the table no metric of its tasks is behind it.   *)
StoppedIsLast ==
  LET queue == batch \o events IN
  \A r \in Runner : \A n \in 1..MaxMetrics :
    /\ \A i, j \in 1..Len(queue) :
         queue[i] = StoppedEvent(r) /\ queue[j] = TaskEvent(r, n) => j < i
    /\ StoppedEvent(r) \in stored \cup failed =>
         TaskEvent(r, n) \notin Metrics!Elements(queue)

(* A metric recorded by a goroutine that main() waits for reaches the table *)
(* or is accounted for when Close (metrics/recorder.go:70) reports success: *)
(* only heartbeats, which race with it, can be left behind.                 *)
NothingLeftBehind ==
  main = "exited" /\ loop = "done" =>
    LET settled == stored \cup dropped \cup failed IN
    \A r \in Runner : run[r].pool # "off" =>
      /\ StoppedEvent(r) \in settled
      /\ \A n \in 1..run[r].tasks : TaskEvent(r, n) \in settled

(* The recorder implements the bounded, lossy, append-only log of           *)
(* docs/decisions/0002.                                                     *)
Log == INSTANCE MetricLog WITH
         pending <- Metrics!Elements(events) \cup Metrics!Elements(batch),
         written <- stored,
         lost    <- dropped \cup failed

RecorderIsLog == Log!Spec

(* SIGTERM ends the process: nobody in the chain of discovery, pools,       *)
(* recorder and main() waits for something that never comes.                *)
ShutdownCompletes == signalled ~> ~Alive

(* A queue with work gets a runner, whichever listings fail and however an  *)
(* earlier runner of the same queue takes to drain.                         *)
ScopeServed ==
  \A s \in Scope :
    s \in active ~> \/ \E r \in Runner : run[r].scope = s /\ run[r].pool = "up" /\ ~Done(r)
                    \/ s \notin active \/ signalled

(* A task metric that entered the channel is written, or lost with a failed *)
(* batch, unless the process exits without waiting for the recorder.        *)
EventuallyWritten ==
  \A r \in Runner : \A n \in 1..MaxMetrics :
    TaskEvent(r, n) \in Metrics!Elements(events)
      ~> \/ TaskEvent(r, n) \in stored \cup failed
         \/ ~Alive /\ loop # "done"
=============================================================================
