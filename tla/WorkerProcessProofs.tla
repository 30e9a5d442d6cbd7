------------------------- MODULE WorkerProcessProofs -------------------------
(***************************************************************************)
(* Proofs about WorkerProcess, for any queues, any number of runners,      *)
(* metrics and failures, and any capacity and batch size of the recorder.  *)
(***************************************************************************)
EXTENDS WorkerProcess, Integers, TLAPS

(* The metrics on their way through the process.                           *)
Pending == Metrics!Elements(events) \cup Metrics!Elements(batch)

(* Every metric that RecordMetric accepted or dropped.                     *)
Seen == Pending \cup stored \cup dropped \cup failed

(* A runner has a queue from its start on, and has done nothing before; it *)
(* is the one that discovery remembers for its queue until it is cancelled.*)
Assigned ==
  /\ \A r \in Runner : run[r].pool = "off" <=> run[r].scope = None
  /\ \A r \in Runner : run[r].pool = "off" =>
       run[r].task = "idle" /\ run[r].beat = "off" /\ run[r].tasks = 0 /\ run[r].beats = 0
  /\ \A s \in Scope : running[s] # None => run[running[s]].scope = s

(* Who waits for whom: a pool that has drained has no task left, discovery *)
(* returns after the pools, main() closes the recorder after discovery,    *)
(* and the recorder drains its channel after that.                         *)
Waits ==
  /\ \A r \in Runner : run[r].pool \in {"send", "returned"} => run[r].task = "idle"
  /\ disc.pc = "returned" => \A r \in Runner : run[r].pool \in {"off", "returned"}
  /\ main # "run" => disc.pc = "returned"
  /\ closed <=> main # "run"
  /\ stop => closed
  /\ loop \in {"drain", "drainFlush", "lastFlush", "done"} => stop
  /\ loop = "done" => batch = <<>>
  /\ loop \in {"select", "drain"} => Len(batch) < BatchSize

(* The goroutine that recorded e is past the send of e, and the next       *)
(* metric it sends has a later number.                                     *)
Emitted(e) ==
  LET x == run[e.by] IN
  /\ e.kind = "task" => e.n <= x.tasks /\ (x.task = "send" => e.n < x.tasks)
  /\ e.kind = "beat" => e.n <= x.beats /\ (x.beat \in {"check", "send"} => e.n < x.beats)
  /\ e.kind = "stopped" => x.pool = "returned"

Known == \A e \in Seen : Emitted(e)

(* No metric of a task, and no worker.stopped, disappears.                 *)
Kept ==
  \A r \in Runner :
    /\ run[r].pool = "returned" => StoppedEvent(r) \in Seen
    /\ \A n \in 1..run[r].tasks :
         TaskEvent(r, n) \in Seen \/ (n = run[r].tasks /\ run[r].task = "send")

(* Counters stay within the metrics counted so far.                        *)
Counts ==
  \A r \in Runner : /\ run[r].tasks <= metrics /\ run[r].beats <= metrics
                    /\ run[r].task = "send" => run[r].tasks >= 1

(* Heartbeats alone can follow once the channel was found empty.           *)
OnlyBeats ==
  loop \in {"lastFlush", "done"} =>
    \A e \in Metrics!Elements(events) : e.kind = "beat"

(* The metrics on their way are pairwise different.                        *)
Distinct ==
  /\ \A i, j \in 1..Len(events) : events[i] = events[j] => i = j
  /\ \A i \in 1..Len(events) : events[i] \notin Metrics!Elements(batch)

(* StoppedIsLast, channel and batch apart.                                 *)
Ordered ==
  \A r \in Runner : \A n \in 1..MaxMetrics :
    /\ \A i, j \in 1..Len(batch) :
         batch[i] = StoppedEvent(r) /\ batch[j] = TaskEvent(r, n) => j < i
    /\ \A i, j \in 1..Len(events) :
         events[i] = StoppedEvent(r) /\ events[j] = TaskEvent(r, n) => j < i
    /\ StoppedEvent(r) \in Metrics!Elements(batch) =>
         TaskEvent(r, n) \notin Metrics!Elements(events)
    /\ StoppedEvent(r) \in stored \cup failed => TaskEvent(r, n) \notin Pending

IInv == /\ TypeOK /\ Assigned /\ SoleRunner /\ Waits /\ Counts
        /\ Known /\ Kept /\ OnlyBeats /\ Distinct /\ Ordered
-----------------------------------------------------------------------------
(* The elements of a sequence, as the steps of the recorder change it.     *)
LEMMA ElementsOf ==
  ASSUME NEW E, NEW q \in Seq(E)
  PROVE  /\ \A x : x \in Metrics!Elements(q) <=> \E i \in 1..Len(q) : q[i] = x
         /\ Metrics!Elements(q) \subseteq E
  BY DEF Metrics!Elements

(* Append adds one element, at the end.                                    *)
LEMMA ElementsAppend ==
  ASSUME NEW E, NEW q \in Seq(E), NEW x \in E
  PROVE  /\ Metrics!Elements(Append(q, x)) = Metrics!Elements(q) \cup {x}
         /\ Append(q, x) \in Seq(E) /\ Len(Append(q, x)) = Len(q) + 1
         /\ \A i \in 1..Len(q) : Append(q, x)[i] = q[i]
         /\ Append(q, x)[Len(q) + 1] = x
<1>1. /\ Append(q, x) \in Seq(E) /\ Len(Append(q, x)) = Len(q) + 1 /\ Len(q) \in Nat
      /\ \A i \in 1..Len(q) : Append(q, x)[i] = q[i]
      /\ Append(q, x)[Len(q) + 1] = x
  OBVIOUS
<1>2. 1..(Len(q) + 1) = (1..Len(q)) \cup {Len(q) + 1}
  BY <1>1
<1> QED BY <1>1, <1>2 DEF Metrics!Elements

(* Tail removes one element, the first.                                    *)
LEMMA ElementsTail ==
  ASSUME NEW E, NEW q \in Seq(E), q # <<>>
  PROVE  /\ Metrics!Elements(q) = Metrics!Elements(Tail(q)) \cup {Head(q)}
         /\ Head(q) \in E /\ Head(q) = q[1] /\ Len(q) \in Nat \ {0}
         /\ Tail(q) \in Seq(E) /\ Len(Tail(q)) = Len(q) - 1
         /\ \A i \in 1..Len(Tail(q)) : Tail(q)[i] = q[i + 1]
<1>1. /\ Head(q) \in E /\ Head(q) = q[1] /\ Len(q) \in Nat \ {0}
      /\ Tail(q) \in Seq(E) /\ Len(Tail(q)) = Len(q) - 1
      /\ \A i \in 1..Len(Tail(q)) : Tail(q)[i] = q[i + 1]
  OBVIOUS
<1>2. \A x \in Metrics!Elements(q) : x \in Metrics!Elements(Tail(q)) \cup {Head(q)}
  <2>1. SUFFICES ASSUME NEW i \in 1..Len(q), i # 1
                 PROVE  q[i] \in Metrics!Elements(Tail(q))
    BY <1>1 DEF Metrics!Elements
  <2>2. i - 1 \in 1..Len(Tail(q)) /\ Tail(q)[i - 1] = q[i]
    BY <1>1, <2>1
  <2> QED BY <2>2 DEF Metrics!Elements
<1>3. \A x \in Metrics!Elements(Tail(q)) : x \in Metrics!Elements(q)
  <2>1. \A i \in 1..Len(Tail(q)) : i + 1 \in 1..Len(q)
    BY <1>1
  <2> QED BY <1>1, <2>1 DEF Metrics!Elements
<1>4. Head(q) \in Metrics!Elements(q)
  BY <1>1 DEF Metrics!Elements
<1> QED BY <1>1, <1>2, <1>3, <1>4

(* A batch of the recorder is a batch of the log.                          *)
LEMMA ElementsNumbered ==
  ASSUME NEW E, NEW q \in Seq(E), NEW n \in Nat, Len(q) <= n, q # <<>>
  PROVE  \E f \in [1..n -> Metrics!Elements(q)] : Metrics!Elements(q) = {f[i] : i \in 1..n}
<1> DEFINE f == [i \in 1..n |-> IF i <= Len(q) THEN q[i] ELSE q[1]]
<1>1. Len(q) \in Nat \ {0} /\ 1 \in 1..Len(q)
  OBVIOUS
<1>2. \A i \in 1..n : f[i] \in Metrics!Elements(q)
  BY <1>1 DEF Metrics!Elements
<1>3. \A i \in 1..Len(q) : i \in 1..n /\ f[i] = q[i]
  BY <1>1
<1>4. Metrics!Elements(q) = {f[i] : i \in 1..n}
  BY <1>2, <1>3 DEF Metrics!Elements
<1>5. f \in [1..n -> Metrics!Elements(q)]
  BY <1>2
<1> QED BY Zenon, <1>4, <1>5

(* The counters of a runner count the events it records.                   *)
LEMMA EventTypes ==
  ASSUME TypeOK, Counts, NEW r \in Runner
  PROVE  /\ TaskEvent(r, run[r].tasks) \in Event
         /\ BeatEvent(r, run[r].beats) \in Event
         /\ StoppedEvent(r) \in Event
  BY WorkerProcessAssumption
     DEF TypeOK, Counts, RunState, Event, TaskEvent, BeatEvent, StoppedEvent

(* Initially all is in order.                                              *)
LEMMA InitHolds == Init => IInv
<1> SUFFICES ASSUME Init PROVE IInv
  OBVIOUS
<1>1. Metrics!Elements(<<>>) = {}
  BY DEF Metrics!Elements
<1>2. TypeOK
  <2>0. <<>> \in Seq(Event) /\ Len(<<>>) = 0
    OBVIOUS
  <2>1. Metrics!RecorderTypeOK
    <3>1. events = <<>> /\ batch = <<>> /\ 0 <= Capacity /\ 0 <= BatchSize
      BY WorkerProcessAssumption DEF Init, Metrics!RecorderInit
    <3>2. events \in Seq(Event) /\ Len(events) <= Capacity
      BY <3>1, <2>0
    <3>3. batch \in Seq(Event) /\ Len(batch) <= BatchSize
      BY <3>1, <2>0
    <3> QED BY Zenon, <3>2, <3>3 DEF Init, Metrics!RecorderInit, Metrics!RecorderTypeOK, Metrics!LoopPC
  <2>2. NotStarted \in RunState
    BY DEF NotStarted, RunState
  <2>3. /\ active \subseteq Scope /\ woken \in 0..MaxRunners /\ metrics \in 0..MaxMetrics
        /\ faults \in 0..MaxFaults
    BY WorkerProcessAssumption DEF Init
  <2>4. disc \in [pc : DiscPC, wanted : SUBSET Scope]
    BY DEF Init, DiscPC
  <2> QED BY Zenon, <2>1, <2>2, <2>3, <2>4 DEF Init, TypeOK
<1>3. Assigned /\ SoleRunner /\ Waits /\ Counts
  BY WorkerProcessAssumption
     DEF Init, Assigned, SoleRunner, Waits, Counts, NotStarted, Metrics!RecorderInit
<1>4. Seen = {} /\ Pending = {}
  BY <1>1 DEF Init, Seen, Pending, Metrics!RecorderInit
<1>5. Known /\ Kept /\ OnlyBeats /\ Distinct /\ Ordered
  BY <1>1, <1>4
     DEF Init, Known, Kept, OnlyBeats, Distinct, Ordered, NotStarted, Metrics!RecorderInit
<1> QED BY <1>2, <1>3, <1>5 DEF IInv
-----------------------------------------------------------------------------
(* What the contents of the recorder say does not change with the rest.    *)
LEMMA SameContents ==
  ASSUME OnlyBeats, Distinct, Ordered, UNCHANGED recorder
  PROVE  OnlyBeats' /\ Distinct' /\ Ordered' /\ Seen' = Seen
  BY DEF OnlyBeats, Distinct, Ordered, Seen, Pending, recorder

(* A metric has a runner and a kind.                                       *)
LEMMA SeenTyped ==
  ASSUME TypeOK
  PROVE  \A e \in Seen : /\ e \in Event /\ e.by \in Runner /\ e.n \in Nat
                         /\ e.kind \in {"task", "beat", "stopped"}
<1>1. Seen \subseteq Event
  BY ElementsOf DEF TypeOK, Metrics!RecorderTypeOK, Seen, Pending
<1> QED BY <1>1, WorkerProcessAssumption DEF Event

(* What has been recorded stays so while no goroutine enters or leaves     *)
(* RecordMetric.                                                           *)
LEMMA SameRecords ==
  ASSUME TypeOK, Known, Kept, Counts, Seen' = Seen, metrics' = metrics,
         \A r \in Runner :
           /\ run'[r].tasks = run[r].tasks /\ run'[r].beats = run[r].beats
           /\ run'[r].task = "send" <=> run[r].task = "send"
           /\ run'[r].pool = "returned" <=> run[r].pool = "returned"
           /\ run'[r].beat \in {"check", "send"} => run[r].beat \in {"check", "send"}
  PROVE  Known' /\ Kept' /\ Counts'
<1>1. Known'
  BY SeenTyped DEF Known, Emitted
<1>2. Kept'
  BY Zenon DEF Kept, TaskEvent, StoppedEvent
<1>3. Counts'
  BY DEF Counts
<1> QED BY <1>1, <1>2, <1>3

(* Queues gain and lose work, and the signal arrives.                      *)
LEMMA WorldSteps ==
  ASSUME IInv,
         \/ \E s \in Scope : QueueWakes(s) \/ QueueEmpties(s)
         \/ Signal \/ Exited \/ UNCHANGED vars
  PROVE  IInv'
<1>1. UNCHANGED <<metrics, disc, running, run, main, faults>> /\ UNCHANGED recorder
  BY Zenon DEF QueueWakes, QueueEmpties, Signal, Exited, vars, recorder
<1>2. active' \subseteq Scope /\ woken' \in 0..MaxRunners /\ signalled' \in BOOLEAN
  <2>1. CASE \E s \in Scope : QueueWakes(s) \/ QueueEmpties(s)
    BY <2>1, WorkerProcessAssumption DEF IInv, TypeOK, QueueWakes, QueueEmpties
  <2>2. CASE Signal \/ Exited \/ UNCHANGED vars
    BY Zenon, <2>2 DEF IInv, TypeOK, Signal, Exited, vars
  <2> QED BY <2>1, <2>2
<1>3. TypeOK'
  BY Zenon, <1>1, <1>2 DEF IInv, TypeOK, Metrics!RecorderTypeOK, recorder
<1>4. Assigned' /\ SoleRunner' /\ Waits'
  BY Zenon, <1>1 DEF IInv, Assigned, SoleRunner, Waits, recorder
<1> QED BY <1>1, <1>3, <1>4, SameContents, SameRecords DEF IInv

(* Discovery reads its list, and returns once all runners have.            *)
LEMMA ListAndJoin ==
  ASSUME IInv, List \/ Join
  PROVE  IInv'
<1>1. UNCHANGED <<active, woken, metrics, signalled, running, run, main, faults>> /\ UNCHANGED recorder
  BY Zenon DEF List, Join
<1>2. disc' \in [pc : DiscPC, wanted : SUBSET Scope]
  BY DEF IInv, TypeOK, List, Join, DiscPC
<1>3. TypeOK'
  BY Zenon, <1>1, <1>2 DEF IInv, TypeOK, Metrics!RecorderTypeOK, recorder
<1>4. Assigned' /\ SoleRunner'
  BY Zenon, <1>1 DEF IInv, Assigned, SoleRunner
<1>5. /\ disc'.pc = "returned" => Join
      /\ disc.pc # "returned"
  BY DEF List, Join, IInv, TypeOK, DiscPC
<1>6. Waits'
  BY <1>1, <1>5 DEF IInv, Waits, recorder, Join
<1> QED BY <1>1, <1>3, <1>4, <1>6, SameContents, SameRecords DEF IInv
-----------------------------------------------------------------------------
(* A new runner, and a runner that is cancelled.                           *)
LEMMA StartedRunner ==
  ASSUME NEW s \in Scope
  PROVE  LET x == Started(s) IN
         /\ x \in RunState
         /\ x.scope = s /\ x.cancelled = FALSE /\ x.pool = "up" /\ x.task = "idle"
         /\ x.beat = "wait" /\ x.tasks = 0 /\ x.beats = 0
<1>1. NotStarted \in RunState
  BY DEF NotStarted, RunState
<1>2. Started(s) \in RunState
  BY Zenon, <1>1 DEF Started, RunState
<1> QED BY <1>1, <1>2 DEF Started, NotStarted

(* Cancelling a runner changes that and nothing else.                      *)
LEMMA CancelledRunner ==
  ASSUME NEW x \in RunState, NEW b \in BOOLEAN
  PROVE  LET y == [x EXCEPT !.cancelled = @ \/ b] IN
         /\ y \in RunState
         /\ y.scope = x.scope /\ y.pool = x.pool /\ y.task = x.task
         /\ y.beat = x.beat /\ y.tasks = x.tasks /\ y.beats = x.beats
         /\ y.cancelled <=> x.cancelled \/ b
<1> DEFINE y == [x EXCEPT !.cancelled = @ \/ b]
<1>1. y \in RunState
  BY Zenon DEF RunState
<1>2. /\ y.scope = x.scope /\ y.pool = x.pool /\ y.task = x.task
      /\ y.beat = x.beat /\ y.tasks = x.tasks /\ y.beats = x.beats
  BY Zenon DEF RunState
<1>3. y.cancelled <=> x.cancelled \/ b
  BY Zenon DEF RunState
<1> QED BY <1>1, <1>2, <1>3

(* refresh starts runners that were not in use, and cancels others.        *)
LEMMA ApplyStep ==
  ASSUME IInv, Apply
  PROVE  IInv'
<1> DEFINE new == {s \in disc.wanted : running[s] = None}
           old == {s \in Scope \ disc.wanted : running[s] # None}
<1>1. PICK f \in Fresh(new) :
        /\ running' = [s \in Scope |-> IF s \in new THEN f[s]
                                       ELSE IF s \in old THEN None
                                       ELSE running[s]]
        /\ run' = [r \in Runner |->
                     IF \E s \in new : f[s] = r
                     THEN Started(CHOOSE s \in new : f[s] = r)
                     ELSE [run[r] EXCEPT !.cancelled =
                             @ \/ \E s \in old : running[s] = r]]
  BY Zenon DEF Apply
<1>2. /\ disc' = [pc |-> "wait", wanted |-> {}] /\ disc.pc = "apply"
      /\ UNCHANGED <<active, woken, metrics, signalled, main, faults>> /\ UNCHANGED recorder
  BY Zenon DEF Apply
<1>3. /\ new \subseteq Scope /\ old \subseteq Scope
      /\ f \in [new -> Unused] /\ Unused \subseteq Runner
      /\ \A s, u \in new : s # u => f[s] # f[u]
  BY DEF IInv, TypeOK, Fresh, Unused
<1> DEFINE started(r) == \E s \in new : f[s] = r
           whose(r) == CHOOSE s \in new : f[s] = r
<1> HIDE DEF new, old
<1>4. ASSUME NEW r \in Runner, started(r)
      PROVE  /\ whose(r) \in new /\ f[whose(r)] = r
             /\ run[r].scope = None /\ run[r].pool = "off"
             /\ run'[r] \in RunState /\ run'[r].scope = whose(r) /\ ~run'[r].cancelled
             /\ run'[r].pool = "up" /\ run'[r].task = "idle" /\ run'[r].beat = "wait"
             /\ run'[r].tasks = 0 /\ run'[r].beats = 0
  <2>1. PICK u \in new : u = whose(r) /\ f[u] = r
    BY <1>4
  <2>2. run'[r] = Started(u) /\ u \in Scope
    BY <1>1, <1>3, <1>4, <2>1
  <2>3. run[r].scope = None /\ run[r].pool = "off"
    BY <1>3, <2>1 DEF Unused, IInv, Assigned
  <2> HIDE DEF whose
  <2>4. LET x == Started(u) IN
         /\ x \in RunState
         /\ x.scope = u /\ x.cancelled = FALSE /\ x.pool = "up" /\ x.task = "idle"
         /\ x.beat = "wait" /\ x.tasks = 0 /\ x.beats = 0
    BY Zenon, <2>2, StartedRunner
  <2> QED BY Zenon, <2>1, <2>2, <2>3, <2>4
<1>5. ASSUME NEW r \in Runner, ~started(r)
      PROVE  /\ run'[r] \in RunState
             /\ run'[r].scope = run[r].scope /\ run'[r].pool = run[r].pool
             /\ run'[r].task = run[r].task /\ run'[r].beat = run[r].beat
             /\ run'[r].tasks = run[r].tasks /\ run'[r].beats = run[r].beats
             /\ run'[r].cancelled <=> run[r].cancelled \/ \E s \in old : running[s] = r
  <2> DEFINE b == \E s \in old : running[s] = r
  <2>1. b \in BOOLEAN /\ run[r] \in RunState
    BY DEF IInv, TypeOK
  <2>2. run'[r] = [run[r] EXCEPT !.cancelled = @ \/ b]
    BY <1>1, <1>5
  <2> HIDE DEF b
  <2>3. LET y == [run[r] EXCEPT !.cancelled = @ \/ b] IN
         /\ y \in RunState
         /\ y.scope = run[r].scope /\ y.pool = run[r].pool /\ y.task = run[r].task
         /\ y.beat = run[r].beat /\ y.tasks = run[r].tasks /\ y.beats = run[r].beats
         /\ y.cancelled <=> run[r].cancelled \/ b
    BY <2>1, CancelledRunner
  <2> QED BY Zenon, <2>2, <2>3 DEF b
<1> HIDE DEF started, whose
<1>7. ASSUME NEW r \in Runner
      PROVE  /\ run'[r] \in RunState
             /\ run'[r].tasks = run[r].tasks /\ run'[r].beats = run[r].beats
             /\ run'[r].task = run[r].task
             /\ run'[r].pool = "returned" <=> run[r].pool = "returned"
             /\ run'[r].beat \in {"check", "send"} => run[r].beat \in {"check", "send"}
             /\ run'[r].pool \in {"off", "returned", "send"} => run'[r].pool = run[r].pool
             /\ run'[r].pool = "off" <=> run'[r].scope = None
             /\ run'[r].pool = "off" => run'[r].beat = "off"
  <2>1. CASE started(r)
    BY <2>1, <1>3, <1>4, WorkerProcessAssumption DEF IInv, Assigned
  <2>2. CASE ~started(r)
    BY <2>2, <1>5 DEF IInv, Assigned
  <2> QED BY <2>1, <2>2
<1>8. TypeOK'
  <2>1. running' \in [Scope -> Runner \cup {None}]
    BY <1>1, <1>3 DEF IInv, TypeOK
  <2>2. run' \in [Runner -> RunState]
    BY ZenonT(60), <1>1, <1>7
  <2>3. disc' \in [pc : DiscPC, wanted : SUBSET Scope]
    BY <1>2 DEF DiscPC
  <2> QED BY Zenon, <1>2, <2>1, <2>2, <2>3 DEF IInv, TypeOK, Metrics!RecorderTypeOK, recorder
<1>9. \A s \in Scope : running'[s] # None => run'[running'[s]].scope = s
  <2> SUFFICES ASSUME NEW s \in Scope, running'[s] # None
               PROVE  run'[running'[s]].scope = s
    OBVIOUS
  <2>1. CASE s \in new
    <3>1. running'[s] = f[s] /\ f[s] \in Runner /\ started(f[s])
      BY <2>1, <1>1, <1>3 DEF started
    <3>2. whose(f[s]) = s
      BY <3>1, <2>1, <1>4, <1>3
    <3> QED BY <3>1, <3>2, <1>4
  <2>2. CASE s \notin new
    <3>1. running'[s] = running[s] /\ running[s] \in Runner /\ run[running[s]].scope = s
      BY <2>2, <1>1 DEF IInv, TypeOK, Assigned
    <3>2. ~started(running[s])
      BY <3>1, <1>4, WorkerProcessAssumption
    <3> QED BY <3>1, <3>2, <1>5
  <2> QED BY <2>1, <2>2
<1>10. Assigned'
  BY <1>7, <1>9 DEF IInv, Assigned
<1>11. SoleRunner'
  <2> SUFFICES ASSUME NEW r \in Runner, run'[r].pool # "off", ~run'[r].cancelled
               PROVE  running'[run'[r].scope] = r
    BY DEF SoleRunner
  <2>1. CASE started(r)
    <3>1. PICK u \in new : f[u] = r /\ run'[r].scope = u
      BY <2>1, <1>4
    <3>2. running'[u] = f[u]
      BY <1>1, <1>3
    <3> QED BY <3>1, <3>2
  <2>2. CASE ~started(r)
    <3>1. run[r].pool # "off" /\ run'[r].scope = run[r].scope
      BY <2>2, <1>5
    <3>2. ~run[r].cancelled /\ ~\E s \in old : running[s] = r
      BY <2>2, <1>5
    <3>3. running[run[r].scope] = r /\ run[r].scope \in Scope
      BY <3>1, <3>2 DEF IInv, SoleRunner, Assigned, TypeOK, RunState
    <3>4. run[r].scope \notin old /\ run[r].scope \notin new
      BY SMTT(30), <3>2, <3>3, WorkerProcessAssumption DEF new, Runner
    <3> QED BY <3>1, <3>3, <3>4, <1>1
  <2> QED BY <2>1, <2>2
<1>12. Waits'
  BY Zenon, <1>2, <1>7 DEF IInv, Waits, recorder
<1> QED BY <1>2, <1>7, <1>8, <1>10, <1>11, <1>12, SameContents, SameRecords DEF IInv
-----------------------------------------------------------------------------
(* stopAll cancels every runner that discovery remembers.                  *)
LEMMA StopAllStep ==
  ASSUME IInv, StopAll
  PROVE  IInv'
<1>1. /\ UNCHANGED <<active, woken, metrics, signalled, main, faults>> /\ UNCHANGED recorder
      /\ disc' = [disc EXCEPT !.pc = "join"] /\ running' = [s \in Scope |-> None]
      /\ disc.pc = "wait"
  BY Zenon DEF StopAll
<1>2. ASSUME NEW r \in Runner
      PROVE  /\ run'[r] \in RunState
             /\ run'[r].scope = run[r].scope /\ run'[r].pool = run[r].pool
             /\ run'[r].task = run[r].task /\ run'[r].beat = run[r].beat
             /\ run'[r].tasks = run[r].tasks /\ run'[r].beats = run[r].beats
             /\ run'[r].cancelled <=> run[r].cancelled \/ \E s \in Scope : running[s] = r
  <2> DEFINE b == \E s \in Scope : running[s] = r
  <2>1. b \in BOOLEAN /\ run[r] \in RunState
    BY DEF IInv, TypeOK
  <2>2. run'[r] = [run[r] EXCEPT !.cancelled = @ \/ b]
    BY Zenon DEF StopAll
  <2> HIDE DEF b
  <2>3. LET y == [run[r] EXCEPT !.cancelled = @ \/ b] IN
         /\ y \in RunState
         /\ y.scope = run[r].scope /\ y.pool = run[r].pool /\ y.task = run[r].task
         /\ y.beat = run[r].beat /\ y.tasks = run[r].tasks /\ y.beats = run[r].beats
         /\ y.cancelled <=> run[r].cancelled \/ b
    BY <2>1, CancelledRunner
  <2> QED BY Zenon, <2>2, <2>3 DEF b
<1>3. TypeOK'
  <2>1. run' \in [Runner -> RunState]
    BY <1>2 DEF StopAll
  <2>2. disc' \in [pc : DiscPC, wanted : SUBSET Scope] /\ running' \in [Scope -> Runner \cup {None}]
    BY <1>1 DEF IInv, TypeOK, DiscPC
  <2> QED BY Zenon, <1>1, <2>1, <2>2 DEF IInv, TypeOK, Metrics!RecorderTypeOK, recorder
<1>4. Assigned'
  BY <1>1, <1>2 DEF IInv, Assigned
<1>5. SoleRunner'
  BY <1>2 DEF IInv, SoleRunner, Assigned, TypeOK, RunState
<1>6. Waits'
  <2>1. disc'.pc = "join"
    BY <1>1 DEF IInv, TypeOK
  <2> QED BY <1>1, <1>2, <2>1 DEF IInv, Waits, recorder
<1> QED BY <1>1, <1>2, <1>3, <1>4, <1>5, <1>6, SameContents, SameRecords DEF IInv
-----------------------------------------------------------------------------
(* A step of runner r that stays outside RecordMetric.                     *)
LEMMA RunsTyped ==
  ASSUME TypeOK, NEW r \in Runner, NEW x \in RunState, Runs(r, x),
         UNCHANGED recorder, faults' = faults, metrics' \in 0..MaxMetrics
  PROVE  TypeOK' /\ run'[r] = x /\ \A q \in Runner \ {r} : run'[q] = run[q]
  BY SMTT(30) DEF TypeOK, Runs, Metrics!RecorderTypeOK, recorder

(* What a step of runner r must respect to leave all the others in order.  *)
LEMMA RunnerKeeps ==
  ASSUME IInv, NEW r \in Runner, NEW x \in RunState, Runs(r, x),
         UNCHANGED recorder, faults' = faults, metrics' = metrics,
         run[r].pool # "off", x.pool # "off",
         x.scope = run[r].scope, x.cancelled = run[r].cancelled,
         x.tasks = run[r].tasks, x.beats = run[r].beats,
         x.task = "send" <=> run[r].task = "send",
         x.pool = "returned" <=> run[r].pool = "returned",
         x.beat \in {"check", "send"} => run[r].beat \in {"check", "send"},
         x.pool \in {"send", "returned"} => x.task = "idle"
  PROVE  IInv'
<1>1. TypeOK' /\ run'[r] = x /\ \A q \in Runner \ {r} : run'[q] = run[q]
  BY RunsTyped DEF IInv, TypeOK
<1>2. UNCHANGED <<active, woken, signalled, disc, running, main>>
  BY Zenon DEF Runs
<1>3. Assigned'
  BY SMTT(30), <1>1, <1>2, WorkerProcessAssumption DEF IInv, Assigned, TypeOK
<1>4. SoleRunner'
  BY <1>1, <1>2 DEF IInv, SoleRunner
<1>5. Waits'
  BY ZenonT(60), <1>1, <1>2 DEF IInv, Waits, recorder
<1>6. Known' /\ Kept' /\ Counts'
  BY <1>1, SameContents, SameRecords DEF IInv
<1> QED BY Zenon, <1>1, <1>3, <1>4, <1>5, <1>6, SameContents DEF IInv

(* While a task runs the recorder is open.                                 *)
LEMMA OpenWhileBusy ==
  ASSUME IInv, NEW r \in Runner, run[r].task # "idle" \/ run[r].pool \in {"up", "drain", "send"}
  PROVE  ~closed /\ run[r].pool # "off"
  BY DEF IInv, Assigned, Waits

(* Tasks start and return, pools stop and drain, and a heartbeat loop      *)
(* finds the recorder closed or open.                                      *)
LEMMA QuietSteps ==
  ASSUME IInv, NEW r \in Runner,
         \/ TaskStarts(r) \/ TaskReturns(r) \/ PoolStops(r) \/ PoolDrained(r) \/ BeatChecks(r)
  PROVE  IInv'
<1>0. run[r] \in RunState
  BY DEF IInv, TypeOK
<1>1. CASE TaskStarts(r) \/ TaskReturns(r)
  <2>1. PICK t \in {"busy", "idle"} :
          /\ Runs(r, [run[r] EXCEPT !.task = t]) /\ UNCHANGED <<metrics, faults>> /\ UNCHANGED recorder
          /\ t = "busy" => run[r].pool = "up" /\ run[r].task = "idle"
          /\ t = "idle" => run[r].task = "busy"
    BY Zenon, <1>1 DEF TaskStarts, TaskReturns
  <2> DEFINE x == [run[r] EXCEPT !.task = t]
  <2>2. x \in RunState /\ x.task = t
    BY <1>0 DEF RunState
  <2>3. /\ x.scope = run[r].scope /\ x.cancelled = run[r].cancelled /\ x.pool = run[r].pool
        /\ x.beat = run[r].beat /\ x.tasks = run[r].tasks /\ x.beats = run[r].beats
    BY <1>0 DEF RunState
  <2>4. run[r].pool # "off"
    BY <2>1, OpenWhileBusy
  <2>5. x.pool \in {"send", "returned"} => x.task = "idle"
    BY <2>1, <2>2, <2>3
  <2> HIDE DEF x
  <2> QED BY Zenon, <2>1, <2>2, <2>3, <2>4, <2>5, RunnerKeeps DEF x
<1>2. CASE PoolStops(r) \/ PoolDrained(r)
  <2>1. PICK p \in {"drain", "send"} :
          /\ Runs(r, [run[r] EXCEPT !.pool = p]) /\ UNCHANGED <<metrics, faults>> /\ UNCHANGED recorder
          /\ p = "drain" => run[r].pool = "up"
          /\ p = "send" => run[r].pool = "drain" /\ run[r].task = "idle"
    <3>1. CASE PoolStops(r)
      BY Zenon, <3>1 DEF PoolStops
    <3>2. CASE PoolDrained(r)
      <4>1. ~closed
        BY <3>2, OpenWhileBusy DEF PoolDrained
      <4> QED BY Zenon, <3>2, <4>1 DEF PoolDrained
    <3> QED BY <1>2, <3>1, <3>2
  <2> DEFINE x == [run[r] EXCEPT !.pool = p]
  <2>2. x \in RunState /\ x.pool = p
    BY <1>0 DEF RunState
  <2>3. /\ x.scope = run[r].scope /\ x.cancelled = run[r].cancelled /\ x.task = run[r].task
        /\ x.beat = run[r].beat /\ x.tasks = run[r].tasks /\ x.beats = run[r].beats
    BY <1>0 DEF RunState
  <2>4. run[r].pool # "off" /\ run[r].pool # "returned"
    BY <2>1
  <2> HIDE DEF x
  <2> QED BY Zenon, <2>1, <2>2, <2>3, <2>4, RunnerKeeps DEF x
<1>3. CASE BeatChecks(r)
  <2>1. PICK b \in {"wait", "send"} :
          /\ Runs(r, [run[r] EXCEPT !.beat = b]) /\ UNCHANGED <<metrics, faults>> /\ UNCHANGED recorder
          /\ run[r].beat = "check"
    BY Zenon, <1>3 DEF BeatChecks
  <2> DEFINE x == [run[r] EXCEPT !.beat = b]
  <2>2. x \in RunState /\ x.beat = b
    BY <1>0 DEF RunState
  <2>3. /\ x.scope = run[r].scope /\ x.cancelled = run[r].cancelled /\ x.task = run[r].task
        /\ x.pool = run[r].pool /\ x.tasks = run[r].tasks /\ x.beats = run[r].beats
    BY <1>0 DEF RunState
  <2>4. run[r].pool # "off" /\ (run[r].pool \in {"send", "returned"} => run[r].task = "idle")
    BY <2>1 DEF IInv, Assigned, Waits
  <2> HIDE DEF x
  <2> QED BY Zenon, <2>1, <2>2, <2>3, <2>4, RunnerKeeps DEF x
<1> QED BY <1>1, <1>2, <1>3

(* A pool that has started stays started, for the scope it was started for. *)
Continues(q) ==
  /\ run[q].pool # "off" /\ run'[q].pool # "off"
  /\ run'[q].scope = run[q].scope /\ run'[q].cancelled = run[q].cancelled

(* Such a step keeps what the runners are assigned.                        *)
LEMMA AssignmentKept ==
  ASSUME IInv, running' = running,
         \A q \in Runner : run'[q] # run[q] => Continues(q)
  PROVE  Assigned' /\ SoleRunner'
<1>1. \A s \in Scope : running[s] # None => running[s] \in Runner
  BY ZenonT(60) DEF IInv, TypeOK
<1>2. SoleRunner'
  BY ZenonT(60) DEF IInv, SoleRunner, Continues
<1>3. /\ \A q \in Runner : run'[q].pool = "off" <=> run'[q].scope = None
      /\ \A q \in Runner : run'[q].pool = "off" =>
           /\ run'[q].task = "idle" /\ run'[q].beat = "off"
           /\ run'[q].tasks = 0 /\ run'[q].beats = 0
  BY ZenonT(60) DEF IInv, Assigned, Continues
<1>4. \A s \in Scope : running'[s] # None => run'[running'[s]].scope = s
  BY ZenonT(60), <1>1 DEF IInv, Assigned, Continues
<1> QED BY ZenonT(60), <1>2, <1>3, <1>4 DEF Assigned

(* A goroutine enters RecordMetric with a metric that has a new number.    *)
LEMMA CountedSteps ==
  ASSUME IInv, NEW r \in Runner, TaskRecords(r) \/ BeatUpserts(r)
  PROVE  IInv'
<1>0. run[r] \in RunState /\ run[r].tasks \in Nat /\ run[r].beats \in Nat /\ metrics \in Nat
  BY WorkerProcessAssumption DEF IInv, TypeOK, RunState
<1> DEFINE x == [run[r] EXCEPT !.task = "send", !.tasks = @ + 1]
           y == [run[r] EXCEPT !.beat = "check", !.beats = @ + 1]
<1>1. /\ Counted /\ UNCHANGED faults /\ UNCHANGED recorder
      /\ \/ Runs(r, x) /\ run[r].task = "busy"
         \/ Runs(r, y) /\ run[r].beat = "wait"
  <2>1. CASE TaskRecords(r)
    <3>1. ~closed
      BY <2>1, OpenWhileBusy DEF TaskRecords
    <3> QED BY Zenon, <2>1, <3>1 DEF TaskRecords
  <2>2. CASE BeatUpserts(r)
    BY Zenon, <2>2 DEF BeatUpserts
  <2> QED BY <2>1, <2>2
<1>2. metrics' = metrics + 1 /\ metrics' \in 0..MaxMetrics
  BY <1>0, <1>1, WorkerProcessAssumption DEF Counted
<1>3. /\ x \in RunState /\ y \in RunState
      /\ x.task = "send" /\ x.tasks = run[r].tasks + 1
      /\ y.beat = "check" /\ y.beats = run[r].beats + 1
  <2>1. run[r].tasks + 1 \in Nat /\ run[r].beats + 1 \in Nat
    BY <1>0
  <2> QED BY Zenon, <1>0, <2>1 DEF RunState
<1>4. /\ x.scope = run[r].scope /\ x.cancelled = run[r].cancelled /\ x.pool = run[r].pool
      /\ x.beat = run[r].beat /\ x.beats = run[r].beats
      /\ y.scope = run[r].scope /\ y.cancelled = run[r].cancelled /\ y.pool = run[r].pool
      /\ y.task = run[r].task /\ y.tasks = run[r].tasks
  BY Zenon, <1>0 DEF RunState
<1> HIDE DEF x, y
<1>5. /\ TypeOK' /\ \A q \in Runner \ {r} : run'[q] = run[q]
      /\ \/ run'[r] = x /\ run[r].task = "busy"
         \/ run'[r] = y /\ run[r].beat = "wait"
  BY <1>1, <1>2, <1>3, RunsTyped DEF IInv
<1>6. UNCHANGED <<active, woken, signalled, disc, running, main>>
  BY Zenon, <1>1 DEF Runs
<1>7. run[r].pool # "off" /\ (run[r].pool \in {"send", "returned"} => run[r].task = "idle")
  BY <1>5 DEF IInv, Assigned, Waits
<1>8. \A q \in Runner : run'[q] # run[q] => Continues(q)
  <2>1. Continues(r)
    BY ZenonT(60), <1>4, <1>5, <1>7 DEF Continues
  <2> QED BY ZenonT(60), <1>5, <2>1
<1>9. Assigned' /\ SoleRunner'
  <2>1. running' = running
    BY <1>6
  <2> QED BY ZenonT(60), <1>8, <2>1, AssignmentKept
<1>10. Waits'
  BY ZenonT(60), <1>1, <1>4, <1>5, <1>6, <1>7 DEF IInv, Waits, recorder
<1>11. OnlyBeats' /\ Distinct' /\ Ordered' /\ Seen' = Seen
  BY <1>1, SameContents DEF IInv
<1>12. Known'
  <2> SUFFICES ASSUME NEW e \in Seen PROVE Emitted(e)'
    BY <1>11 DEF Known
  <2>1. /\ Emitted(e) /\ e.by \in Runner /\ e.n \in Nat
        /\ e.kind \in {"task", "beat", "stopped"}
    BY SeenTyped DEF IInv, Known
  <2>2. CASE e.by # r
    BY <1>5, <2>1, <2>2 DEF Emitted
  <2>3. CASE e.by = r
    <3>1. CASE run'[r] = x
      BY SMTT(30), <1>0, <1>3, <1>4, <3>1, <2>1, <2>3 DEF Emitted
    <3>2. CASE run'[r] = y /\ run[r].beat = "wait"
      BY SMTT(30), <1>0, <1>3, <1>4, <3>2, <2>1, <2>3 DEF Emitted
    <3> QED BY ZenonT(60), <1>5, <3>1, <3>2
  <2> QED BY <2>2, <2>3
<1>13. Kept'
  <2> SUFFICES ASSUME NEW q \in Runner
               PROVE  /\ run'[q].pool = "returned" => StoppedEvent(q) \in Seen
                      /\ \A n \in 1..run'[q].tasks :
                           TaskEvent(q, n) \in Seen \/ (n = run'[q].tasks /\ run'[q].task = "send")
    BY Zenon, <1>11 DEF Kept, StoppedEvent, TaskEvent
  <2>1. /\ run[q].pool = "returned" => StoppedEvent(q) \in Seen
        /\ \A n \in 1..run[q].tasks :
             TaskEvent(q, n) \in Seen \/ (n = run[q].tasks /\ run[q].task = "send")
    BY SMTT(30) DEF IInv, Kept
  <2>2. CASE q # r
    BY ZenonT(60), <1>5, <2>1, <2>2
  <2>3. CASE q = r
    BY SMTT(30), <1>0, <1>3, <1>4, <1>5, <2>1, <2>3
  <2> QED BY <2>2, <2>3
<1>14. Counts'
  <2>1. \A q \in Runner : run[q].tasks \in Nat /\ run[q].beats \in Nat
    BY ZenonT(60) DEF IInv, TypeOK, RunState
  <2> QED BY <1>0, <1>2, <1>3, <1>4, <1>5, <2>1 DEF IInv, Counts
<1> QED BY <1>5, <1>8, <1>9, <1>10, <1>11, <1>12, <1>13, <1>14 DEF IInv
-----------------------------------------------------------------------------
(* A metric about to be sent has not been seen.                            *)
LEMMA Unseen ==
  ASSUME IInv, NEW r \in Runner, NEW k \in {"task", "beat", "pool"}, run[r][k] = "send"
  PROVE  Recorded(r, k) \in Event /\ Recorded(r, k) \notin Seen
<1>1. run[r] \in RunState
  BY ZenonT(60) DEF IInv, TypeOK
<1>2. CASE k = "task"
  <2>1. Recorded(r, k) = TaskEvent(r, run[r].tasks) /\ run[r].task = "send"
    BY ZenonT(60), <1>2 DEF Recorded
  <2> QED BY <1>1, <2>1, EventTypes DEF IInv, Known, Emitted, TaskEvent, RunState
<1>3. CASE k = "beat"
  <2>1. Recorded(r, k) = BeatEvent(r, run[r].beats) /\ run[r].beat = "send"
    BY ZenonT(60), <1>3 DEF Recorded
  <2> QED BY <1>1, <2>1, EventTypes DEF IInv, Known, Emitted, BeatEvent, RunState
<1>4. CASE k = "pool"
  <2>1. Recorded(r, k) = StoppedEvent(r) /\ run[r].pool = "send"
    BY ZenonT(60), <1>4 DEF Recorded
  <2> QED BY <1>1, <2>1, EventTypes DEF IInv, Known, Emitted, StoppedEvent
<1> QED BY <1>2, <1>3, <1>4

(* The goroutine that sends goes on where it was.                          *)
LEMMA ReturnedRunner ==
  ASSUME NEW r \in Runner, NEW k \in {"task", "beat", "pool"},
         run[r] \in RunState, run[r][k] = "send"
  PROVE  LET x == Returned(r, k) IN
         /\ x \in RunState /\ x.scope = run[r].scope /\ x.cancelled = run[r].cancelled
         /\ x.tasks = run[r].tasks /\ x.beats = run[r].beats
         /\ x.task = IF k = "task" THEN "busy" ELSE run[r].task
         /\ x.beat = IF k = "beat" THEN "wait" ELSE run[r].beat
         /\ x.pool = IF k = "pool" THEN "returned" ELSE run[r].pool
<1>1. CASE k = "task"
  <2>1. Returned(r, k) = [run[r] EXCEPT !.task = "busy"]
    BY <1>1 DEF Returned
  <2> QED BY <1>1, <2>1 DEF RunState
<1>2. CASE k = "beat"
  <2>1. Returned(r, k) = [run[r] EXCEPT !.beat = "wait"]
    BY <1>2 DEF Returned
  <2> QED BY <1>2, <2>1 DEF RunState
<1>3. CASE k = "pool"
  <2>1. Returned(r, k) = [run[r] EXCEPT !.pool = "returned"]
    BY <1>3 DEF Returned
  <2> QED BY <1>3, <2>1 DEF RunState
<1> QED BY <1>1, <1>2, <1>3

(* The non-blocking send: the metric is in the channel, or counted as      *)
(* dropped; nothing else moves.                                            *)
LEMMA SendEffect ==
  ASSUME TypeOK, NEW e \in Event, Metrics!Send(e)
  PROVE  /\ Metrics!RecorderTypeOK'
         /\ UNCHANGED <<batch, closed, stop, loop, stored, failed>>
         /\ Seen' = Seen \cup {e}
         /\ \/ events' = events /\ dropped' = dropped \cup {e} /\ Pending' = Pending
            \/ /\ events' = Append(events, e) /\ dropped' = dropped
               /\ Pending' = Pending \cup {e}
<1>1. UNCHANGED <<batch, closed, stop, loop, stored, failed>>
  BY DEF Metrics!Send
<1>2. events \in Seq(Event) /\ Len(events) \in Nat
  BY DEF TypeOK, Metrics!RecorderTypeOK
<1>3. /\ Metrics!Elements(Append(events, e)) = Metrics!Elements(events) \cup {e}
      /\ Append(events, e) \in Seq(Event) /\ Len(Append(events, e)) = Len(events) + 1
  BY <1>2, ElementsAppend
<1>4. CASE Len(events) < Capacity
  <2>1. events' = Append(events, e) /\ dropped' = dropped
    BY <1>4 DEF Metrics!Send
  <2>2. Len(events') <= Capacity
    BY <1>2, <1>3, <1>4, <2>1, WorkerProcessAssumption
  <2> QED BY <1>1, <1>3, <2>1, <2>2 DEF TypeOK, Metrics!RecorderTypeOK, Seen, Pending
<1>5. CASE ~(Len(events) < Capacity)
  <2>1. events' = events /\ dropped' = dropped \cup {e}
    BY <1>5 DEF Metrics!Send
  <2> QED BY <1>1, <2>1 DEF TypeOK, Metrics!RecorderTypeOK, Seen, Pending
<1> QED BY <1>4, <1>5

(* A task, a heartbeat loop or runScope sends its metric.                  *)
LEMMA SendStep ==
  ASSUME IInv, NEW r \in Runner, NEW k \in {"task", "beat", "pool"}, SendMetric(r, k)
  PROVE  IInv'
<1>0. run[r] \in RunState /\ run[r][k] = "send"
  BY DEF IInv, TypeOK, SendMetric
<1>1. PICK e \in Event : e = Recorded(r, k) /\ e \notin Seen
  BY SMTT(30), <1>0, Unseen
<1>2. PICK x \in RunState : x = Returned(r, k)
  BY ZenonT(60), <1>0, ReturnedRunner
<1>3. /\ x.scope = run[r].scope /\ x.cancelled = run[r].cancelled
      /\ x.tasks = run[r].tasks /\ x.beats = run[r].beats
      /\ x.task = IF k = "task" THEN "busy" ELSE run[r].task
      /\ x.beat = IF k = "beat" THEN "wait" ELSE run[r].beat
      /\ x.pool = IF k = "pool" THEN "returned" ELSE run[r].pool
  BY <1>0, <1>2, ReturnedRunner
<1>4. /\ UNCHANGED <<active, woken, metrics, signalled, disc, running, main, faults>>
      /\ run' = [run EXCEPT ![r] = x]
      /\ Metrics!Send(e)
  BY Zenon, <1>1, <1>2 DEF SendMetric, Runs
<1>5. /\ Metrics!RecorderTypeOK'
      /\ UNCHANGED <<batch, closed, stop, loop, stored, failed>>
      /\ Seen' = Seen \cup {e}
      /\ \/ events' = events /\ Pending' = Pending
         \/ events' = Append(events, e) /\ Pending' = Pending \cup {e}
  BY <1>4, SendEffect DEF IInv
<1>6. run'[r] = x /\ \A q \in Runner \ {r} : run'[q] = run[q]
  BY <1>4 DEF IInv, TypeOK
<1>7. /\ k = "task" => e = TaskEvent(r, run[r].tasks) /\ run[r].task = "send"
      /\ k = "beat" => e = BeatEvent(r, run[r].beats) /\ run[r].beat = "send"
      /\ k = "pool" => e = StoppedEvent(r) /\ run[r].pool = "send"
  BY SMTT(30), <1>0, <1>1 DEF Recorded
<1>8. /\ run[r].pool # "off"
      /\ k = "task" => run[r].pool \in {"up", "drain"} /\ ~closed
      /\ k = "pool" => run[r].task = "idle" /\ ~closed
  BY ZenonT(30), <1>0, <1>7, OpenWhileBusy DEF IInv, Assigned, Waits, RunState
<1>9. TypeOK'
  BY Zenon, <1>4, <1>5 DEF IInv, TypeOK
<1>10. \A q \in Runner : run'[q] # run[q] => Continues(q)
  <2>1. Continues(r)
    BY ZenonT(60), <1>3, <1>6, <1>8 DEF Continues
  <2> QED BY ZenonT(60), <1>6, <2>1
<1>11. Assigned' /\ SoleRunner'
  <2>1. running' = running
    BY ZenonT(60), <1>4
  <2> QED BY ZenonT(60), <1>10, <2>1, AssignmentKept
<1>12. Waits'
  BY SMTT(30), <1>3, <1>4, <1>5, <1>6, <1>8 DEF IInv, Waits
<1>13. Counts'
  BY <1>3, <1>4, <1>6 DEF IInv, Counts
<1>14. Known'
  <2> SUFFICES ASSUME NEW v \in Seen \cup {e} PROVE Emitted(v)'
    BY <1>5 DEF Known
  <2>1. CASE v \in Seen
    <3>1. Emitted(v) /\ v.by \in Runner /\ v.kind \in {"task", "beat", "stopped"}
      BY <2>1, SeenTyped DEF IInv, Known
    <3>2. CASE v.by # r
      BY ZenonT(60), <1>6, <3>1, <3>2 DEF Emitted
    <3>3. CASE v.by = r
      BY ZenonT(60), <1>3, <1>6, <1>7, <3>1, <3>3 DEF Emitted
    <3> QED BY <3>2, <3>3
  <2>2. CASE v = e
    <3>1. e.by = r /\ run[r].tasks \in Nat /\ run[r].beats \in Nat
      BY SMTT(30), <1>0, <1>7 DEF TaskEvent, BeatEvent, StoppedEvent, RunState
    <3>2. CASE k = "task"
      <4>1. e.kind = "task" /\ e.n = run[r].tasks
        BY <1>7, <3>2 DEF TaskEvent
      <4>2. x.tasks = run[r].tasks /\ x.task = "busy"
        BY Zenon, <1>3, <3>2
      <4> QED BY <1>6, <2>2, <3>1, <4>1, <4>2 DEF Emitted
    <3>3. CASE k = "beat"
      <4>1. e.kind = "beat" /\ e.n = run[r].beats
        BY <1>7, <3>3 DEF BeatEvent
      <4>2. x.beats = run[r].beats /\ x.beat = "wait"
        BY Zenon, <1>3, <3>3
      <4> QED BY <1>6, <2>2, <3>1, <4>1, <4>2 DEF Emitted
    <3>4. CASE k = "pool"
      <4>1. e.kind = "stopped" /\ x.pool = "returned"
        BY <1>3, <1>7, <3>4 DEF StoppedEvent
      <4> QED BY <1>6, <2>2, <3>1, <4>1 DEF Emitted
    <3> QED BY Zenon, <1>0, <3>2, <3>3, <3>4
  <2> QED BY <2>1, <2>2
<1>15. Kept'
  <2> SUFFICES ASSUME NEW q \in Runner
               PROVE  /\ run'[q].pool = "returned" => StoppedEvent(q) \in Seen \cup {e}
                      /\ \A n \in 1..run'[q].tasks :
                           \/ TaskEvent(q, n) \in Seen \cup {e}
                           \/ n = run'[q].tasks /\ run'[q].task = "send"
    BY ZenonT(30), <1>5 DEF Kept, StoppedEvent, TaskEvent
  <2>1. /\ run[q].pool = "returned" => StoppedEvent(q) \in Seen
        /\ \A n \in 1..run[q].tasks :
             TaskEvent(q, n) \in Seen \/ (n = run[q].tasks /\ run[q].task = "send")
    BY ZenonT(30) DEF IInv, Kept
  <2>2. CASE q # r
    BY ZenonT(60), <1>6, <2>1, <2>2
  <2>3. CASE q = r
    BY ZenonT(60), <1>3, <1>6, <1>7, <2>1, <2>3
  <2> QED BY SMTT(30), <2>2, <2>3
<1>16. events \in Seq(Event) /\ batch \in Seq(Event) /\ Len(events) \in Nat
  BY DEF IInv, TypeOK, Metrics!RecorderTypeOK
<1>17. e \notin Metrics!Elements(events) /\ e \notin Metrics!Elements(batch)
  BY <1>1 DEF Seen, Pending
<1>18. CASE events' = events /\ Pending' = Pending
  <2>1. OnlyBeats' /\ Distinct' /\ Ordered'
    BY ZenonT(60), <1>5, <1>18 DEF IInv, OnlyBeats, Distinct, Ordered
  <2> QED BY ZenonT(60), <2>1, <1>9, <1>10, <1>11, <1>12, <1>13, <1>14, <1>15 DEF IInv
<1>19. CASE events' = Append(events, e) /\ Pending' = Pending \cup {e}
  <2>1. /\ Metrics!Elements(events') = Metrics!Elements(events) \cup {e}
        /\ Len(events') = Len(events) + 1
        /\ \A i \in 1..Len(events) : events'[i] = events[i]
        /\ events'[Len(events) + 1] = e
    BY <1>16, <1>19, ElementsAppend
  <2>2. \A i \in 1..Len(events') : i \in 1..Len(events) \/ i = Len(events) + 1
    BY <1>16, <2>1
  <2>3. \A i \in 1..Len(events) : events[i] \in Metrics!Elements(events)
    BY <1>16, ElementsOf
  <2>4. OnlyBeats'
    <3>1. closed => e.kind = "beat"
      BY <1>7, <1>8 DEF BeatEvent
    <3>2. loop \in {"lastFlush", "done"} => closed
      BY DEF IInv, Waits
    <3> QED BY ZenonT(60), <1>5, <2>1, <3>1, <3>2 DEF IInv, OnlyBeats
  <2>5. Distinct'
    <3>1. \A i, j \in 1..Len(events') : events'[i] = events'[j] => i = j
      BY ZenonT(60), <1>16, <1>17, <2>1, <2>2, <2>3 DEF IInv, Distinct
    <3>2. \A i \in 1..Len(events') : events'[i] \notin Metrics!Elements(batch)
      BY ZenonT(60), <1>17, <2>1, <2>2 DEF IInv, Distinct
    <3> QED BY ZenonT(60), <3>1, <3>2, <1>5 DEF Distinct
  <2>6. Ordered'
    <3> SUFFICES ASSUME NEW q \in Runner, NEW n \in 1..MaxMetrics
        PROVE  /\ \A i, j \in 1..Len(batch) :
                    batch[i] = StoppedEvent(q) /\ batch[j] = TaskEvent(q, n) => j < i
               /\ \A i, j \in 1..Len(events') :
                    events'[i] = StoppedEvent(q) /\ events'[j] = TaskEvent(q, n) => j < i
               /\ StoppedEvent(q) \in Metrics!Elements(batch) =>
                    TaskEvent(q, n) \notin Metrics!Elements(events')
               /\ StoppedEvent(q) \in stored \cup failed => TaskEvent(q, n) \notin Pending'
      BY ZenonT(30), <1>5 DEF Ordered, StoppedEvent, TaskEvent
    <3>1. /\ \A i, j \in 1..Len(batch) :
               batch[i] = StoppedEvent(q) /\ batch[j] = TaskEvent(q, n) => j < i
          /\ \A i, j \in 1..Len(events) :
               events[i] = StoppedEvent(q) /\ events[j] = TaskEvent(q, n) => j < i
          /\ StoppedEvent(q) \in Metrics!Elements(batch) =>
               TaskEvent(q, n) \notin Metrics!Elements(events)
          /\ StoppedEvent(q) \in stored \cup failed => TaskEvent(q, n) \notin Pending
      BY DEF IInv, Ordered
    <3>2. StoppedEvent(q) # TaskEvent(q, n)
      BY DEF StoppedEvent, TaskEvent
    <3>3. ASSUME e = TaskEvent(q, n) PROVE StoppedEvent(q) \notin Seen
      <4>1. k = "task" /\ q = r
        BY Zenon, <1>7, <3>3 DEF TaskEvent, BeatEvent, StoppedEvent
      <4>2. run[r].pool # "returned"
        BY <4>1, <1>8
      <4> QED BY SMTT(30), <4>1, <4>2 DEF IInv, Known, Emitted, StoppedEvent
    <3>4. \A i \in 1..Len(events) : events[i] \in Seen
      BY ZenonT(60), <2>3 DEF Seen, Pending
    <3>5. \A i, j \in 1..Len(events') :
            events'[i] = StoppedEvent(q) /\ events'[j] = TaskEvent(q, n) => j < i
      BY SMTT(30), <1>16, <2>1, <2>2, <3>1, <3>2, <3>3, <3>4
    <3>6. StoppedEvent(q) \in Metrics!Elements(batch) =>
            TaskEvent(q, n) \notin Metrics!Elements(events')
      BY ZenonT(60), <2>1, <3>1, <3>3 DEF Seen, Pending
    <3>7. StoppedEvent(q) \in stored \cup failed => TaskEvent(q, n) \notin Pending'
      BY <1>19, <3>1, <3>3 DEF Seen
    <3> QED BY SMTT(30), <3>1, <3>5, <3>6, <3>7
  <2> QED BY ZenonT(60), <2>4, <2>5, <2>6, <1>9, <1>10, <1>11, <1>12, <1>13, <1>14, <1>15 DEF IInv
<1> QED BY <1>5, <1>18, <1>19
-----------------------------------------------------------------------------
(* The steps of the recorder leave the process alone.                      *)
LEMMA ProcessKept ==
  ASSUME IInv, UNCHANGED <<active, woken, metrics, signalled, disc, running, run, main>>,
         faults' \in 0..MaxFaults, Metrics!RecorderTypeOK'
  PROVE  TypeOK' /\ Assigned' /\ SoleRunner' /\ Counts' /\ (Seen' = Seen => Known' /\ Kept')
<1>1. TypeOK'
  BY Zenon DEF IInv, TypeOK
<1>2. Assigned' /\ SoleRunner' /\ Counts'
  BY ZenonT(60) DEF IInv, Assigned, SoleRunner, Counts
<1>3. Seen' = Seen => Known' /\ Kept'
  BY SameRecords DEF IInv
<1> QED BY <1>1, <1>2, <1>3

(* A metric moves from the channel to the batch.                           *)
LEMMA ReceiveStep ==
  ASSUME IInv, Metrics!Receive, UNCHANGED procVars
  PROVE  IInv'
<1>0. UNCHANGED <<active, woken, metrics, signalled, disc, running, run, main, faults>>
  BY DEF procVars
<1>1. /\ events \in Seq(Event) /\ batch \in Seq(Event) /\ events # <<>>
      /\ Len(events) \in Nat /\ Len(batch) \in Nat /\ BatchSize \in Nat /\ Capacity \in Nat
      /\ Len(events) <= Capacity /\ Len(batch) <= BatchSize
  BY WorkerProcessAssumption DEF IInv, TypeOK, Metrics!RecorderTypeOK, Metrics!Receive
<1>2. PICK h \in Event : h = Head(events)
  BY <1>1, ElementsTail
<1>3. /\ events' = Tail(events) /\ batch' = Append(batch, h)
      /\ loop \in {"select", "drain"}
      /\ loop' = IF Len(batch) + 1 < BatchSize THEN loop
                 ELSE IF loop = "select" THEN "flush" ELSE "drainFlush"
      /\ UNCHANGED <<closed, stop, stored, dropped, failed>>
  BY <1>2 DEF Metrics!Receive
<1>4. /\ Metrics!Elements(events) = Metrics!Elements(events') \cup {h}
      /\ h = events[1] /\ Len(events) \in Nat \ {0}
      /\ events' \in Seq(Event) /\ Len(events') = Len(events) - 1
      /\ \A i \in 1..Len(events') : events'[i] = events[i + 1]
  BY ZenonT(60), <1>1, <1>2, <1>3, ElementsTail
<1>5. /\ Metrics!Elements(batch') = Metrics!Elements(batch) \cup {h}
      /\ batch' \in Seq(Event) /\ Len(batch') = Len(batch) + 1
      /\ \A i \in 1..Len(batch) : batch'[i] = batch[i]
      /\ batch'[Len(batch) + 1] = h
  BY SMTT(30), <1>1, <1>3, ElementsAppend
<1>6. Pending' = Pending /\ Seen' = Seen
  BY ZenonT(60), <1>3, <1>4, <1>5 DEF Pending, Seen
<1>7. Metrics!RecorderTypeOK'
  <2>1. Len(batch) < BatchSize
    BY <1>3 DEF IInv, Waits
  <2>2. loop' \in Metrics!LoopPC
    BY <1>3 DEF Metrics!LoopPC
  <2>3. Len(events') <= Capacity /\ Len(batch') <= BatchSize
    BY SMTT(30), <1>1, <1>4, <1>5, <2>1
  <2> QED BY ZenonT(60), <1>3, <1>4, <1>5, <2>2, <2>3 DEF IInv, TypeOK, Metrics!RecorderTypeOK
<1>8. TypeOK' /\ Assigned' /\ SoleRunner' /\ Counts' /\ Known' /\ Kept'
  BY ZenonT(60), <1>0, <1>6, <1>7, ProcessKept DEF IInv, TypeOK
<1>9. Waits' /\ OnlyBeats'
  <2>1. loop' \in {"select", "drain"} => Len(batch') < BatchSize /\ loop' = loop
    BY <1>1, <1>3, <1>5
  <2>2. loop' \in {"select", "drain", "flush", "drainFlush"} /\ (loop' = "drainFlush" => loop = "drain")
    BY <1>3
  <2>3. OnlyBeats'
    BY <2>2 DEF OnlyBeats
  <2> QED BY SMTT(30), <1>0, <1>3, <2>1, <2>2, <2>3 DEF IInv, Waits
<1>10. /\ \A i \in 1..Len(events') : i + 1 \in 1..Len(events) /\ i + 1 # 1
       /\ 1 \in 1..Len(events)
       /\ \A i \in 1..Len(batch') : i \in 1..Len(batch) \/ i = Len(batch) + 1
  BY <1>4, <1>5
<1>11. /\ \A i \in 1..Len(events) : events[i] \in Metrics!Elements(events)
       /\ \A i \in 1..Len(events') : events'[i] \in Metrics!Elements(events')
       /\ \A i \in 1..Len(batch) : batch[i] \in Metrics!Elements(batch)
  BY <1>1, <1>4, ElementsOf
<1>12. Distinct'
  <2>1. \A i, j \in 1..Len(events') : events'[i] = events'[j] => i = j
    <3>1. \A i, j \in 1..Len(events') : events'[i] = events'[j] => i + 1 = j + 1
      BY ZenonT(60), <1>4, <1>10 DEF IInv, Distinct
    <3> QED BY <3>1
  <2>2. \A i \in 1..Len(events') : events'[i] \notin Metrics!Elements(batch')
    BY <1>4, <1>5, <1>10 DEF IInv, Distinct
  <2> QED BY <2>1, <2>2 DEF Distinct
<1>13. h \notin Metrics!Elements(events')
  <2>1. \A i \in 1..Len(events') : events'[i] # h
    BY ZenonT(60), <1>4, <1>10 DEF IInv, Distinct
  <2> QED BY <1>4, <2>1, ElementsOf
<1>14. Ordered'
  <2> SUFFICES ASSUME NEW q \in Runner, NEW n \in 1..MaxMetrics
      PROVE  /\ \A i, j \in 1..Len(batch') :
                  batch'[i] = StoppedEvent(q) /\ batch'[j] = TaskEvent(q, n) => j < i
             /\ \A i, j \in 1..Len(events') :
                  events'[i] = StoppedEvent(q) /\ events'[j] = TaskEvent(q, n) => j < i
             /\ StoppedEvent(q) \in Metrics!Elements(batch') =>
                  TaskEvent(q, n) \notin Metrics!Elements(events')
             /\ StoppedEvent(q) \in stored \cup failed => TaskEvent(q, n) \notin Pending
    BY Zenon, <1>3, <1>6 DEF Ordered, StoppedEvent, TaskEvent
  <2>1. /\ \A i, j \in 1..Len(batch) :
             batch[i] = StoppedEvent(q) /\ batch[j] = TaskEvent(q, n) => j < i
        /\ \A i, j \in 1..Len(events) :
             events[i] = StoppedEvent(q) /\ events[j] = TaskEvent(q, n) => j < i
        /\ StoppedEvent(q) \in Metrics!Elements(batch) =>
             TaskEvent(q, n) \notin Metrics!Elements(events)
        /\ StoppedEvent(q) \in stored \cup failed => TaskEvent(q, n) \notin Pending
    BY DEF IInv, Ordered
  <2>2. StoppedEvent(q) # TaskEvent(q, n)
    BY DEF StoppedEvent, TaskEvent
  <2>3. \A i, j \in 1..Len(batch') :
          batch'[i] = StoppedEvent(q) /\ batch'[j] = TaskEvent(q, n) => j < i
    <3> SUFFICES ASSUME NEW i \in 1..Len(batch'), NEW j \in 1..Len(batch'),
                        batch'[i] = StoppedEvent(q), batch'[j] = TaskEvent(q, n)
                 PROVE  j < i
      OBVIOUS
    <3>1. CASE i = Len(batch) + 1
      <4>1. j \in 1..Len(batch)
        BY <1>5, <1>10, <2>2, <3>1
      <4> QED BY <1>1, <3>1, <4>1
    <3>2. CASE i \in 1..Len(batch) /\ j \in 1..Len(batch)
      BY ZenonT(60), <1>5, <2>1, <3>2
    <3>3. CASE i \in 1..Len(batch) /\ j = Len(batch) + 1
      <4>1. StoppedEvent(q) \in Metrics!Elements(batch) /\ h = TaskEvent(q, n)
        BY <1>5, <1>11, <3>3
      <4> QED BY ZenonT(60), <1>4, <2>1, <4>1
    <3> QED BY <1>10, <3>1, <3>2, <3>3
  <2>4. \A i, j \in 1..Len(events') :
          events'[i] = StoppedEvent(q) /\ events'[j] = TaskEvent(q, n) => j < i
    <3>1. \A i, j \in 1..Len(events') :
            events'[i] = StoppedEvent(q) /\ events'[j] = TaskEvent(q, n) => j + 1 < i + 1
      BY <1>4, <1>10, <2>1
    <3> QED BY <3>1
  <2>5. h = StoppedEvent(q) => TaskEvent(q, n) \notin Metrics!Elements(events')
    <3>0. h = StoppedEvent(q) => \A j \in 1..Len(events) : events[j] = TaskEvent(q, n) => j < 1
      BY Zenon, <1>4, <1>10, <2>1
    <3>1. h = StoppedEvent(q) => \A j \in 1..Len(events) : events[j] # TaskEvent(q, n)
      BY <1>1, <3>0
    <3>2. h = StoppedEvent(q) => TaskEvent(q, n) \notin Metrics!Elements(events)
      BY ZenonT(60), <1>1, <3>1, ElementsOf
    <3> QED BY <1>4, <3>2
  <2>6. StoppedEvent(q) \in Metrics!Elements(batch') =>
          TaskEvent(q, n) \notin Metrics!Elements(events')
    BY <1>4, <1>5, <2>1, <2>5
  <2> QED BY SMTT(30), <2>1, <2>3, <2>4, <2>6
<1> QED BY <1>8, <1>9, <1>12, <1>14 DEF IInv

(* The recorder only changes what it waits for.                            *)
LEMMA LoopSteps ==
  ASSUME IInv, Metrics!Tick \/ Metrics!StopSeen \/ Metrics!Drained, UNCHANGED procVars
  PROVE  IInv'
<1>0. UNCHANGED <<active, woken, metrics, signalled, disc, running, run, main, faults>>
  BY DEF procVars
<1>1. /\ UNCHANGED <<events, batch, closed, stop, stored, dropped, failed>>
      /\ \/ loop = "select" /\ loop' = "flush"
         \/ loop = "select" /\ loop' = "drain" /\ stop
         \/ loop = "drain" /\ loop' = "lastFlush" /\ events = <<>>
  BY Zenon DEF Metrics!Tick, Metrics!StopSeen, Metrics!Drained
<1>2. Seen' = Seen /\ Pending' = Pending
  BY <1>1 DEF Seen, Pending
<1>3. Metrics!RecorderTypeOK'
  BY ZenonT(60), <1>1 DEF IInv, TypeOK, Metrics!RecorderTypeOK, Metrics!LoopPC
<1>4. TypeOK' /\ Assigned' /\ SoleRunner' /\ Counts' /\ Known' /\ Kept'
  BY ZenonT(60), <1>0, <1>2, <1>3, ProcessKept DEF IInv, TypeOK
<1>5. Waits'
  BY ZenonT(60), <1>0, <1>1 DEF IInv, Waits
<1>7. Distinct' /\ Ordered'
  BY <1>1, <1>2 DEF IInv, Distinct, Ordered
<1>6. OnlyBeats'
  <2>1. events = <<>> => Metrics!Elements(events) = {}
    BY DEF Metrics!Elements
  <2> QED BY <1>1, <2>1 DEF OnlyBeats
<1> QED BY <1>4, <1>5, <1>6, <1>7 DEF IInv

(* A batch is written, or lost; the recorder goes on with an empty one.    *)
LEMMA FlushSteps ==
  ASSUME IInv, Metrics!Written \/ Metrics!WriteFails, faults' \in 0..MaxFaults,
         UNCHANGED <<active, woken, metrics, signalled, disc, running, run, main>>
  PROVE  IInv'
<1>1. /\ batch' = <<>> /\ UNCHANGED <<events, closed, stop, dropped>>
      /\ loop \in {"flush", "drainFlush", "lastFlush"}
      /\ loop' = CASE loop = "flush"      -> "select"
                   [] loop = "drainFlush" -> "drain"
                   [] loop = "lastFlush"  -> "done"
  BY Zenon DEF Metrics!Written, Metrics!WriteFails, Metrics!FlushReturns, Metrics!Flushing
<1>2. /\ stored' \cup failed' = stored \cup failed \cup Metrics!Elements(batch)
      /\ stored \subseteq stored' /\ failed \subseteq failed'
      /\ stored' \subseteq stored \cup Metrics!Elements(batch)
      /\ failed' \subseteq failed \cup Metrics!Elements(batch)
  <2>1. CASE Metrics!Written
    BY <2>1 DEF Metrics!Written
  <2>2. CASE Metrics!WriteFails
    BY <2>2 DEF Metrics!WriteFails
  <2> QED BY <2>1, <2>2
<1>3. Metrics!Elements(<<>>) = {} /\ Len(<<>>) = 0 /\ <<>> \in Seq(Event)
  BY DEF Metrics!Elements
<1>4. Pending' = Metrics!Elements(events)
  BY <1>1, <1>3 DEF Pending
<1>5. Seen' = Seen
  BY <1>1, <1>2, <1>4 DEF Seen, Pending
<1>6. loop' \in {"select", "drain", "done"} /\ (loop' = "done" <=> loop = "lastFlush")
      /\ (loop' = "drain" => loop = "drainFlush")
  BY <1>1
<1>7. Metrics!RecorderTypeOK'
  <2>1. Metrics!Elements(batch) \subseteq Event
    BY ZenonT(60), ElementsOf DEF IInv, TypeOK, Metrics!RecorderTypeOK
  <2>2. stored' \subseteq Event /\ failed' \subseteq Event
    BY <1>2, <2>1 DEF IInv, TypeOK, Metrics!RecorderTypeOK
  <2>3. batch' \in Seq(Event) /\ Len(batch') <= BatchSize
    BY <1>1, <1>3, WorkerProcessAssumption
  <2>4. loop' \in Metrics!LoopPC
    BY <1>6 DEF Metrics!LoopPC
  <2> QED BY Zenon, <1>1, <2>2, <2>3, <2>4 DEF IInv, TypeOK, Metrics!RecorderTypeOK
<1>8. TypeOK' /\ Assigned' /\ SoleRunner' /\ Counts' /\ Known' /\ Kept'
  BY <1>5, <1>7, ProcessKept DEF IInv
<1>9. Waits'
  <2>1. Len(batch') < BatchSize
    BY <1>1, <1>3, WorkerProcessAssumption
  <2> QED BY <1>1, <1>6, <2>1 DEF IInv, Waits
<1>10. OnlyBeats' /\ Distinct'
  BY ZenonT(60), <1>1, <1>3, <1>6 DEF IInv, OnlyBeats, Distinct
<1>11. Ordered'
  <2> SUFFICES ASSUME NEW q \in Runner, NEW n \in 1..MaxMetrics
      PROVE  /\ \A i, j \in 1..Len(events) :
                  events[i] = StoppedEvent(q) /\ events[j] = TaskEvent(q, n) => j < i
             /\ StoppedEvent(q) \in stored' \cup failed' => TaskEvent(q, n) \notin Pending'
    <3>1. 1..Len(batch') = {} /\ Metrics!Elements(batch') = {}
      BY <1>1, <1>3
    <3> QED BY ZenonT(30), <1>1, <3>1 DEF Ordered, StoppedEvent, TaskEvent
  <2>1. /\ \A i, j \in 1..Len(events) :
             events[i] = StoppedEvent(q) /\ events[j] = TaskEvent(q, n) => j < i
        /\ StoppedEvent(q) \in Metrics!Elements(batch) =>
             TaskEvent(q, n) \notin Metrics!Elements(events)
        /\ StoppedEvent(q) \in stored \cup failed => TaskEvent(q, n) \notin Pending
    BY DEF IInv, Ordered
  <2> QED BY <1>2, <1>4, <2>1 DEF Pending
<1> QED BY <1>8, <1>9, <1>10, <1>11 DEF IInv

(* main() closes the recorder and exits.                                   *)
LEMMA ShutdownSteps ==
  ASSUME IInv, Shutdown
  PROVE  IInv'
<1>1. /\ UNCHANGED <<active, woken, metrics, signalled, disc, running, run>>
      /\ UNCHANGED <<events, batch, loop, stored, dropped, failed>>
      /\ faults' \in {faults, faults + 1} /\ (faults' # faults => faults < MaxFaults)
  BY Zenon DEF Shutdown, CloseRecorder, StopRecorder, Exit, Metrics!CloseFlag,
               Metrics!CloseStop, recorder, Fault
<1>2. /\ disc.pc = "returned" /\ main' \in {"closing", "closed", "exited"} /\ closed'
      /\ stop' \in BOOLEAN /\ (stop => stop')
  BY ZenonT(30) DEF Shutdown, CloseRecorder, StopRecorder, Exit, Metrics!CloseFlag, Metrics!CloseStop,
         recorder, IInv, Waits, TypeOK, Metrics!RecorderTypeOK
<1>3. Seen' = Seen /\ Pending' = Pending
  BY <1>1 DEF Seen, Pending
<1>4. TypeOK'
  <2>1. faults' \in 0..MaxFaults
    BY <1>1, WorkerProcessAssumption DEF IInv, TypeOK
  <2>2. Metrics!RecorderTypeOK'
    BY ZenonT(60), <1>1, <1>2 DEF IInv, TypeOK, Metrics!RecorderTypeOK
  <2> QED BY ZenonT(60), <1>1, <1>2, <2>1, <2>2 DEF IInv, TypeOK
<1>5. Assigned' /\ SoleRunner' /\ Counts' /\ Known' /\ Kept'
  <2>1. Assigned' /\ SoleRunner'
    BY Zenon, <1>1 DEF IInv, Assigned, SoleRunner
  <2> QED BY <1>1, <1>3, <2>1, SameRecords DEF IInv
<1>6. Waits'
  BY ZenonT(30), <1>1, <1>2 DEF IInv, Waits
<1>7. OnlyBeats' /\ Distinct' /\ Ordered'
  BY Zenon, <1>1, <1>3 DEF IInv, OnlyBeats, Distinct, Ordered
<1> QED BY <1>4, <1>5, <1>6, <1>7 DEF IInv
-----------------------------------------------------------------------------
(* Every step of the process keeps the invariant.                          *)
LEMMA StepHolds == IInv /\ [Next]_vars => IInv'
<1> SUFFICES ASSUME IInv, [Next]_vars PROVE IInv'
  OBVIOUS
<1>1. CASE \/ \E s \in Scope : QueueWakes(s) \/ QueueEmpties(s)
           \/ Signal \/ Exited \/ UNCHANGED vars
  BY <1>1, WorldSteps
<1>2. CASE Discovery
  BY ZenonT(60), <1>2, ListAndJoin, ApplyStep, StopAllStep DEF Discovery
<1>3. ASSUME NEW r \in Runner, RunnerStep(r) PROVE IInv'
  BY <1>3, QuietSteps, CountedSteps, SendStep
     DEF RunnerStep, TaskThread, PoolThread, BeatThread
<1>4. CASE RecorderSteps
  <2>1. faults' \in 0..MaxFaults /\ UNCHANGED <<active, woken, metrics, signalled, disc, running, run, main>>
    BY <1>4 DEF RecorderSteps, procVars, IInv, TypeOK
  <2> QED BY ZenonT(60), <1>4, <2>1, ReceiveStep, LoopSteps, FlushSteps DEF RecorderSteps
<1>5. CASE RecorderFails
  <2>1. faults' \in 0..MaxFaults
    BY <1>5, WorkerProcessAssumption DEF RecorderFails, Fault, IInv, TypeOK
  <2> QED BY ZenonT(60), <1>5, <2>1, FlushSteps DEF RecorderFails
<1>6. CASE Shutdown
  BY <1>6, ShutdownSteps
<1> QED BY <1>1, <1>2, <1>3, <1>4, <1>5, <1>6 DEF Next

(* The invariant behind all the theorems below.                            *)
THEOREM Inductive == Spec => []IInv
<1>1. Init => IInv
  BY InitHolds
<1>2. IInv /\ [Next]_vars => IInv'
  BY StepHolds
<1> QED BY <1>1, <1>2, PTL DEF Spec

(* Every variable of the process and of its recorder keeps its type; the   *)
(* channel and the batch stay within their limits.                         *)
THEOREM TypeCorrect == Spec => []TypeOK
<1>1. IInv => TypeOK
  BY DEF IInv
<1> QED BY <1>1, Inductive, PTL

(* A queue has at most one runner that is not cancelled, the one discovery *)
(* remembers.                                                              *)
THEOREM SoleRunnerHolds == Spec => []SoleRunner
<1>1. IInv => SoleRunner
  BY ZenonT(60) DEF IInv
<1> QED BY <1>1, Inductive, PTL

(* No metric of a task is behind the worker.stopped of its runner.         *)
THEOREM StoppedIsLastHolds == Spec => []StoppedIsLast
<1>1. IInv => StoppedIsLast
  <2> SUFFICES ASSUME IInv PROVE StoppedIsLast
    OBVIOUS
  <2> DEFINE queue == batch \o events
  <2>1. /\ batch \in Seq(Event) /\ events \in Seq(Event)
        /\ Len(batch) \in Nat /\ Len(events) \in Nat
    BY DEF IInv, TypeOK, Metrics!RecorderTypeOK
  <2>2. /\ queue \in Seq(Event) /\ Len(queue) = Len(batch) + Len(events)
        /\ \A i \in 1..Len(queue) :
             queue[i] = IF i <= Len(batch) THEN batch[i] ELSE events[i - Len(batch)]
    BY <2>1
  <2> HIDE DEF queue
  <2>3. ASSUME NEW i \in 1..Len(queue)
        PROVE  \/ i \in 1..Len(batch) /\ queue[i] = batch[i]
               \/ /\ i - Len(batch) \in 1..Len(events) /\ queue[i] = events[i - Len(batch)]
                  /\ Len(batch) < i
    BY <2>1, <2>2
  <2>4. /\ \A i \in 1..Len(batch) : batch[i] \in Metrics!Elements(batch)
        /\ \A i \in 1..Len(events) : events[i] \in Metrics!Elements(events)
    BY <2>1, ElementsOf
  <2>5. Metrics!Elements(queue) \subseteq Pending
    <3>1. \A i \in 1..Len(queue) : queue[i] \in Pending
      BY ZenonT(60), <2>3, <2>4 DEF Pending
    <3> QED BY <2>2, <3>1, ElementsOf
  <2>6. ASSUME NEW r \in Runner, NEW n \in 1..MaxMetrics,
               NEW i \in 1..Len(queue), NEW j \in 1..Len(queue),
               queue[i] = StoppedEvent(r), queue[j] = TaskEvent(r, n)
        PROVE  j < i
    <3>1. /\ \A a, b \in 1..Len(batch) :
               batch[a] = StoppedEvent(r) /\ batch[b] = TaskEvent(r, n) => b < a
          /\ \A a, b \in 1..Len(events) :
               events[a] = StoppedEvent(r) /\ events[b] = TaskEvent(r, n) => b < a
          /\ StoppedEvent(r) \in Metrics!Elements(batch) =>
               TaskEvent(r, n) \notin Metrics!Elements(events)
      BY ZenonT(60) DEF IInv, Ordered
    <3>2. CASE i \in 1..Len(batch) /\ queue[i] = batch[i]
      BY ZenonT(60), <2>3, <2>4, <2>6, <3>1, <3>2
    <3>3. CASE /\ i - Len(batch) \in 1..Len(events) /\ queue[i] = events[i - Len(batch)]
               /\ Len(batch) < i
      <4>1. CASE j \in 1..Len(batch)
        BY <2>1, <3>3, <4>1
      <4>2. CASE j - Len(batch) \in 1..Len(events) /\ queue[j] = events[j - Len(batch)]
        <5>1. j - Len(batch) < i - Len(batch)
          BY ZenonT(30), <2>6, <3>1, <3>3, <4>2
        <5> QED BY SMTT(30), <2>1, <2>2, <5>1
      <4> QED BY <2>3, <4>1, <4>2
    <3> QED BY <2>3, <3>2, <3>3
  <2>7. \A r \in Runner : \A n \in 1..MaxMetrics :
          StoppedEvent(r) \in stored \cup failed => TaskEvent(r, n) \notin Metrics!Elements(queue)
    BY ZenonT(60), <2>5 DEF IInv, Ordered
  <2> QED BY <2>6, <2>7 DEF StoppedIsLast, queue
<1> QED BY <1>1, Inductive, PTL

(* When the process exits after the recorder is done, every metric of a    *)
(* task and every worker.stopped is written, dropped or in a failed batch. *)
THEOREM NothingLeftBehindHolds == Spec => []NothingLeftBehind
<1>1. IInv => NothingLeftBehind
  <2> SUFFICES ASSUME IInv, main = "exited", loop = "done",
                      NEW r \in Runner, run[r].pool # "off"
               PROVE  /\ StoppedEvent(r) \in stored \cup dropped \cup failed
                      /\ \A n \in 1..run[r].tasks : TaskEvent(r, n) \in stored \cup dropped \cup failed
    BY DEF NothingLeftBehind
  <2>1. run[r].pool = "returned" /\ run[r].task = "idle" /\ batch = <<>>
    BY DEF IInv, Waits
  <2>2. Metrics!Elements(batch) = {}
    BY <2>1 DEF Metrics!Elements
  <2>3. \A e \in Seen : e.kind # "beat" => e \in stored \cup dropped \cup failed
    BY ZenonT(60), <2>2 DEF IInv, OnlyBeats, Seen, Pending
  <2>4. StoppedEvent(r) \in Seen /\ \A n \in 1..run[r].tasks : TaskEvent(r, n) \in Seen
    BY <2>1 DEF IInv, Kept
  <2> QED BY ZenonT(60), <2>3, <2>4 DEF StoppedEvent, TaskEvent
<1> QED BY <1>1, Inductive, PTL
-----------------------------------------------------------------------------
(* The recorder implements the lossy log: a send records a metric nobody   *)
(* has recorded, a flush disposes of a batch as a whole, and every other   *)
(* step leaves the log as it is.                                           *)
THEOREM RecorderRefinement == Spec => RecorderIsLog
<1> DEFINE lost == dropped \cup failed
<1>1. Init => Log!Init
  BY DEF Init, Log!Init, Metrics!RecorderInit, Metrics!Elements
<1>2. ASSUME IInv, [Next]_vars
      PROVE  [Log!Next]_(Log!logVars)
  <2>1. CASE UNCHANGED recorder
    BY <2>1 DEF recorder, Log!logVars
  <2>2. ASSUME NEW r \in Runner, NEW k \in {"task", "beat", "pool"}, SendMetric(r, k)
        PROVE  Log!Next
    <3>1. PICK e \in Event : e = Recorded(r, k) /\ e \notin Seen
      BY Zenon, <1>2, <2>2, Unseen DEF SendMetric
    <3>2. Metrics!Send(e)
      BY Zenon, <2>2, <3>1 DEF SendMetric
    <3>3. /\ UNCHANGED <<stored, failed>>
          /\ \/ dropped' = dropped \cup {e} /\ Pending' = Pending
             \/ dropped' = dropped /\ Pending' = Pending \cup {e}
      BY ZenonT(60), <1>2, <3>2, SendEffect DEF IInv
    <3>4. Log!Record(e)
      BY <3>1, <3>3 DEF Log!Record, Seen, Pending
    <3> QED BY SMTT(30), <3>4 DEF Log!Next
  <2>3. ASSUME Metrics!Receive PROVE UNCHANGED Log!logVars
    <3>1. /\ events \in Seq(Event) /\ batch \in Seq(Event) /\ events # <<>>
          /\ events' = Tail(events) /\ batch' = Append(batch, Head(events))
          /\ UNCHANGED <<stored, dropped, failed>>
      BY <1>2, <2>3 DEF IInv, TypeOK, Metrics!RecorderTypeOK, Metrics!Receive
    <3>2. /\ Metrics!Elements(events) = Metrics!Elements(events') \cup {Head(events)}
          /\ Head(events) \in Event
      BY <3>1, ElementsTail
    <3>3. Metrics!Elements(batch') = Metrics!Elements(batch) \cup {Head(events)}
      BY <3>1, <3>2, ElementsAppend
    <3> QED BY ZenonT(60), <3>1, <3>2, <3>3 DEF Log!logVars
  <2>4. CASE Metrics!Tick \/ Metrics!StopSeen \/ Metrics!Drained \/ Shutdown
    <3>1. UNCHANGED <<events, batch, stored, dropped, failed>>
      BY <2>4 DEF Metrics!Tick, Metrics!StopSeen, Metrics!Drained, Shutdown, CloseRecorder,
                  StopRecorder, Exit, Metrics!CloseFlag, Metrics!CloseStop, recorder
    <3> QED BY ZenonT(60), <3>1 DEF Log!logVars
  <2>5. ASSUME Metrics!Written \/ Metrics!WriteFails PROVE [Log!Next]_(Log!logVars)
    <3> DEFINE S == Metrics!Elements(batch)
    <3>1. batch' = <<>> /\ UNCHANGED <<events, dropped>>
      BY <2>5 DEF Metrics!Written, Metrics!WriteFails, Metrics!FlushReturns
    <3>2. Metrics!Elements(batch') = {}
      BY <3>1 DEF Metrics!Elements
    <3>3. \/ stored' = stored \cup S /\ failed' = failed
          \/ stored' \in {stored, stored \cup S} /\ failed' = failed \cup S
      BY <2>5 DEF Metrics!Written, Metrics!WriteFails
    <3>4. batch # <<>> => \E f \in [1..BatchSize -> S] : S = {f[i] : i \in 1..BatchSize}
      <4>1. batch \in Seq(Event) /\ Len(batch) <= BatchSize /\ BatchSize \in Nat
        BY ZenonT(60), <1>2, WorkerProcessAssumption DEF IInv, TypeOK, Metrics!RecorderTypeOK
      <4> QED BY Zenon, <4>1, ElementsNumbered
    <3>5. Metrics!Elements(events) \cap S = {}
      <4>1. events \in Seq(Event)
        BY <1>2 DEF IInv, TypeOK, Metrics!RecorderTypeOK
      <4> QED BY <1>2, <4>1, ElementsOf DEF IInv, Distinct
    <3> HIDE DEF S
    <3>6. CASE S = {}
      BY <3>1, <3>2, <3>3, <3>6 DEF Log!logVars, S
    <3>7. CASE S # {}
      <4>1. Log!Flush(S)
        <5>1. /\ S \subseteq Pending /\ Pending' = Pending \ S
          BY <3>1, <3>2, <3>5 DEF Pending, S
        <5>2. \/ stored' = stored \cup S /\ dropped' \cup failed' = dropped \cup failed
              \/ /\ dropped' \cup failed' = (dropped \cup failed) \cup S
                 /\ stored' \in {stored, stored \cup S}
          BY <3>1, <3>3
        <5> QED BY Zenon, <5>1, <5>2 DEF Log!Flush, Pending
      <4>2. S \in Log!Batch
        <5>1. batch # <<>>
          BY <3>7 DEF S, Metrics!Elements
        <5>2. PICK f \in [1..BatchSize -> S] : S = {f[i] : i \in 1..BatchSize}
          BY <3>4, <5>1
        <5>3. f \in [1..BatchSize -> Metrics!Elements(events) \cup Metrics!Elements(batch)]
          BY <5>2 DEF S
        <5> QED BY Zenon, <5>2, <5>3 DEF Log!Batch
      <4> QED BY <4>1, <4>2 DEF Log!Next
    <3> QED BY <3>6, <3>7
  <2>6. \/ UNCHANGED recorder
        \/ \E r \in Runner, k \in {"task", "beat", "pool"} : SendMetric(r, k)
        \/ Metrics!Receive \/ Metrics!Tick \/ Metrics!StopSeen \/ Metrics!Drained
        \/ Shutdown \/ Metrics!Written \/ Metrics!WriteFails
    <3>1. CASE \/ \E s \in Scope : QueueWakes(s) \/ QueueEmpties(s)
               \/ Signal \/ Exited \/ UNCHANGED vars \/ Discovery
      BY Zenon, <3>1 DEF QueueWakes, QueueEmpties, Signal, Exited, vars, recorder,
                         Discovery, List, Apply, StopAll, Join
    <3>2. ASSUME NEW r \in Runner, RunnerStep(r)
          PROVE  UNCHANGED recorder \/ \E k \in {"task", "beat", "pool"} : SendMetric(r, k)
      BY Zenon, <3>2 DEF RunnerStep, TaskThread, PoolThread, BeatThread, TaskStarts,
                         TaskRecords, TaskReturns, PoolStops, PoolDrained, BeatUpserts, BeatChecks
    <3>3. CASE RecorderSteps \/ RecorderFails \/ Shutdown
      BY <3>3 DEF RecorderSteps, RecorderFails
    <3> QED BY <1>2, <3>1, <3>2, <3>3 DEF Next
  <2> QED BY <2>1, <2>2, <2>3, <2>4, <2>5, <2>6
<1> QED BY <1>1, <1>2, Inductive, PTL DEF Spec, RecorderIsLog, Log!Spec
=============================================================================
