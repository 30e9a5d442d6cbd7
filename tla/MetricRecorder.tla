--------------------------- MODULE MetricRecorder ---------------------------
(***************************************************************************)
(* metrics.BufferedRecorder: a bounded channel, the run() goroutine that   *)
(* moves its events into batches and the metric_events table, and Close.   *)
(* RecordMetric reads the closed flag in one step and sends in another;    *)
(* the callers keep that in their own state and call Send.                 *)
(***************************************************************************)
EXTENDS Naturals, Sequences

CONSTANTS Event,
          Capacity,    \* METRICS_BUFFER_CAPACITY
          BatchSize    \* METRICS_BATCH_SIZE

VARIABLES events,   \* the channel
          batch,    \* run(): the events taken and not written yet
          closed,   \* the flag RecordMetric reads
          stop,     \* the stop channel is closed
          loop,     \* run(): where it is
          stored,   \* Postgres: metric_events
          dropped,  \* events that met a full channel; the code counts them
          failed    \* history: events of batches whose write failed

Elements(s) == {s[i] : i \in 1..Len(s)}

(* select and drain = the two selects of run(); the others = inside flush.  *)
LoopPC == {"select", "flush", "drain", "drainFlush", "lastFlush", "done"}

RecorderTypeOK ==
  /\ events \in Seq(Event) /\ Len(events) <= Capacity
  /\ batch \in Seq(Event) /\ Len(batch) <= BatchSize
  /\ closed \in BOOLEAN /\ stop \in BOOLEAN
  /\ loop \in LoopPC
  /\ stored \subseteq Event /\ dropped \subseteq Event /\ failed \subseteq Event

RecorderInit ==
  /\ events = <<>> /\ batch = <<>>
  /\ closed = FALSE /\ stop = FALSE
  /\ loop = "select"
  /\ stored = {} /\ dropped = {} /\ failed = {}

(* The non-blocking send of RecordMetric.                                   *)
Send(e) ==
  /\ IF Len(events) < Capacity
     THEN events' = Append(events, e) /\ UNCHANGED dropped
     ELSE dropped' = dropped \cup {e} /\ UNCHANGED events
  /\ UNCHANGED <<batch, closed, stop, loop, stored, failed>>

(* An event is received, in the main select or in the drain loop.           *)
Receive ==
  /\ loop \in {"select", "drain"}
  /\ events # <<>>
  /\ batch' = Append(batch, Head(events))
  /\ events' = Tail(events)
  /\ loop' = IF Len(batch) + 1 < BatchSize THEN loop
             ELSE IF loop = "select" THEN "flush" ELSE "drainFlush"
  /\ UNCHANGED <<closed, stop, stored, dropped, failed>>

(* Mutant: the ticker writes full batches only.                             *)
TickWhenFull ==
  /\ loop = "select"
  /\ Len(batch) >= BatchSize
  /\ loop' = "flush"
  /\ UNCHANGED <<events, batch, closed, stop, stored, dropped, failed>>

(* FlushInterval: flush returns at once when there is nothing to write.     *)
Tick ==
  /\ loop = "select"
  /\ batch # <<>>
  /\ loop' = "flush"
  /\ UNCHANGED <<events, batch, closed, stop, stored, dropped, failed>>

StopSeen ==
  /\ loop = "select"
  /\ stop
  /\ loop' = "drain"
  /\ UNCHANGED <<events, batch, closed, stop, stored, dropped, failed>>

(* Mutant: run() returns on stop without draining the channel.              *)
NotDrained ==
  /\ loop = "drain"
  /\ loop' = "lastFlush"
  /\ UNCHANGED <<events, batch, closed, stop, stored, dropped, failed>>

Drained ==
  /\ loop = "drain"
  /\ events = <<>>
  /\ loop' = "lastFlush"
  /\ UNCHANGED <<events, batch, closed, stop, stored, dropped, failed>>

Flushing == {"flush", "drainFlush", "lastFlush"}

(* Mutant: flush forgets to empty the batch.                                *)
FlushKeepsBatch ==
  /\ loop' = CASE loop = "flush"      -> "select"
               [] loop = "drainFlush" -> "drain"
               [] loop = "lastFlush"  -> "done"
  /\ UNCHANGED <<events, batch, closed, stop, dropped>>

(* What flush does after AppendMetricEvents, whatever that returned.        *)
FlushReturns ==
  /\ batch' = <<>>
  /\ loop' = CASE loop = "flush"      -> "select"
               [] loop = "drainFlush" -> "drain"
               [] loop = "lastFlush"  -> "done"
  /\ UNCHANGED <<events, closed, stop, dropped>>

(* AppendMetricEvents: one implicit transaction of INSERT ... DO NOTHING.   *)
Written ==
  /\ loop \in Flushing
  /\ stored' = stored \cup Elements(batch)
  /\ FlushReturns
  /\ UNCHANGED failed

(* It returns an error, before or after the transaction committed.          *)
WriteFails ==
  /\ loop \in Flushing
  /\ batch # <<>>
  /\ stored' \in {stored, stored \cup Elements(batch)}
  /\ failed' = failed \cup Elements(batch)
  /\ FlushReturns

(* The two statements of Close's once.Do.                                   *)
CloseFlag ==
  /\ closed' = TRUE
  /\ UNCHANGED <<events, batch, stop, loop, stored, dropped, failed>>

CloseStop ==
  /\ stop' = TRUE
  /\ UNCHANGED <<events, batch, closed, loop, stored, dropped, failed>>
=============================================================================
