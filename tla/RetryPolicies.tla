---------------------------- MODULE RetryPolicies ----------------------------
(* The delays between attempts: of a task (RetryPolicy of domain/job.go and *)
(* nextBackoff of engine/engine.go) and of a webhook delivery (backoff of   *)
(* usecase/webhook_delivery_worker.go). Durations are numbers of one unit;  *)
(* the multiplier of the only policy in use is 2.                           *)
EXTENDS Integers

Multiplier == 2

CONSTANTS Overflow,     \* the first number too large for a duration (2^63)
          MaxDelays     \* bound of the attempts that delays are computed for

ASSUME RetryAssumption == Overflow \in Nat \ {0} /\ MaxDelays \in Nat

(* A product of durations in two's complement.                              *)
Wrapped(x) == ((x + Overflow) % (2 * Overflow)) - Overflow

Least(x, y) == IF x < y THEN x ELSE y

(* The loop computes in floating point and returns at the first value over  *)
(* the cap, which is where every later one would end.                       *)
NextBackoff(initial, max, attempt) ==
  LET delay[i \in 0 .. attempt] ==
        IF i = 0 THEN initial ELSE Least(max, delay[i - 1] * Multiplier)
  IN  delay[attempt]

(* attempts is at most 100 (max_retries of api/validation.go), so that the  *)
(* product is far from overflow.                                            *)
nextBackoff(policy, initial, max, attempts) ==
  CASE policy = "fixed" -> initial
    [] policy = "linear" -> Least(max, attempts * initial)
    [] OTHER -> NextBackoff(initial, max, attempts)

(* Mutant: the loop doubles whatever is below the cap.                      *)
DoubledBlindly(b, max) == IF b >= max THEN b ELSE Wrapped(2 * b)

(* One round of the loop. Over half the cap the result is the cap: doubling *)
(* might overflow.                                                          *)
Doubled(b, max) ==
  IF b >= max THEN b ELSE IF b > max \div 2 THEN max ELSE Wrapped(2 * b)

backoff(initial, max, attempt) ==
  LET delay[i \in 1 .. attempt] ==
        IF i = 1 THEN initial ELSE Doubled(delay[i - 1], max)
  IN  Least(max, delay[attempt])

PowerOfTwo(n) ==
  LET power[i \in 0 .. n] == IF i = 0 THEN 1 ELSE 2 * power[i - 1]
  IN  power[n]

(* Each loop computes the closed form: the initial delay times a power of   *)
(* two, or times the attempt, and never more than the cap, whatever the     *)
(* attempt and also with a cap that doubling would carry past the width of  *)
(* a duration. With it a delay is positive, so that a Nack schedules a retry*)
(* (DispatchBroker) and no retry follows at once.                           *)
DelaysExact ==
  \A max \in 1 .. Overflow - 1 : \A initial \in 1 .. max, k \in 1 .. MaxDelays :
    /\ nextBackoff("fixed", initial, max, k) = initial
    /\ nextBackoff("linear", initial, max, k) = Least(max, initial * k)
    /\ nextBackoff("exponential", initial, max, k) =
         Least(max, initial * PowerOfTwo(k))
    /\ backoff(initial, max, k) = Least(max, initial * PowerOfTwo(k - 1))
=============================================================================
