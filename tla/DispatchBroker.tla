---------------------------- MODULE DispatchBroker ----------------------------
(***************************************************************************)
(* The Redis structures of one queue (internal/broker/redis), one operator *)
(* per Lua script or MULTI pipeline, each of which Redis runs atomically.  *)
(* The sorted sets are plain sets here, so that a Dequeue may return any    *)
(* pending member.  What nothing but the order of the members depends on   *)
(* is left out: the scores, the hash of priorities they are computed from  *)
(* and the sequence number.  So is the dead-letter list, which no code     *)
(* reads.                                                                  *)
(***************************************************************************)

CONSTANT Task

Queues == [pending    : SUBSET Task,
           processing : SUBSET Task,
           delayed    : SUBSET Task]

Empty == [pending |-> {}, processing |-> {}, delayed |-> {}]

Enqueue(b, t) == [b EXCEPT !.pending = @ \cup {t}]

EnqueueDelayed(b, t) == [b EXCEPT !.delayed = @ \cup {t}]

Dequeue(b, t) == [b EXCEPT !.pending = @ \ {t},
                           !.processing = @ \cup {t}]

Ack(b, t) == [b EXCEPT !.processing = @ \ {t}]

(* Nack with a positive delay, the only one nextBackoff computes.          *)
Nack(b, t) == [b EXCEPT !.processing = @ \ {t},
                        !.delayed = @ \cup {t}]

PromoteDueDelayed(b, ts) == [b EXCEPT !.delayed = @ \ ts,
                                      !.pending = @ \cup ts]

MoveToDeadLetter(b, t) == [b EXCEPT !.processing = @ \ {t},
                                    !.pending = @ \ {t},
                                    !.delayed = @ \ {t}]

Remove(b, t) == [b EXCEPT !.processing = @ \ {t},
                          !.pending = @ \ {t},
                          !.delayed = @ \ {t}]
=============================================================================
