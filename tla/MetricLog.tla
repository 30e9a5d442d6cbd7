------------------------------ MODULE MetricLog ------------------------------
(***************************************************************************)
(* What the metric recorder promises (docs/decisions/0002): an event is    *)
(* taken or dropped when it is recorded, and an event that was taken       *)
(* leaves the process in a bounded batch that is written or lost as a      *)
(* whole.  No event leaves the log or is written that was not recorded.    *)
(* A batch given up because its write returned an error may be in the      *)
(* table nevertheless: its events are then both written and counted as     *)
(* lost, and no other event is.                                            *)
(***************************************************************************)
EXTENDS Naturals

CONSTANTS Event, BatchSize

VARIABLES pending,  \* recorded, neither written nor given up
          written,  \* in the table
          lost      \* dropped, or in a batch that failed

logVars == <<pending, written, lost>>

Init == pending = {} /\ written = {} /\ lost = {}

Record(e) ==
  /\ e \notin pending \cup written \cup lost
  /\ \/ pending' = pending \cup {e} /\ UNCHANGED lost
     \/ lost' = lost \cup {e} /\ UNCHANGED pending
  /\ UNCHANGED written

Flush(S) ==
  /\ pending' = pending \ S
  /\ \/ written' = written \cup S /\ UNCHANGED lost
     \/ lost' = lost \cup S /\ written' \in {written, written \cup S}

(* One to BatchSize of the pending events, numbered in some way.           *)
Batch == {{f[i] : i \in 1..BatchSize} : f \in [1..BatchSize -> pending]}

Next == (\E e \in Event : Record(e)) \/ (\E S \in Batch : Flush(S))

Spec == Init /\ [][Next]_logVars
=============================================================================
