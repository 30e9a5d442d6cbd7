----------------------------- MODULE RateLimiter -----------------------------
(* The token bucket of broker/redis/rate_limiter.go: one script, run        *)
(* atomically by Redis, with a clock reading taken by the caller before it  *)
(* sends the script. Two callers' scripts may run in the other order than   *)
(* their readings were taken.                                               *)
(* The script computes with doubles, in seconds of the epoch. The double of *)
(* a reading of the clock is the nearest of those there are: at an epoch of *)
(* 2^30 .. 2^31 seconds, Grain = 2^22 make a second. Their differences, and *)
(* the tokens, are multiples of 1/Grain that a double holds, and redis.call *)
(* writes them with all their digits: the reading is all that is rounded.   *)
(* Time and tokens are counted in 1/Grain.                                  *)
EXTENDS Integers, Sequences, FiniteSets

CONSTANTS Millis,      \* readings of the clock in a second (1000)
          Grain,       \* doubles in a second
          Expiry,      \* seconds after which an idle bucket is dropped (60)
          MaxRate,     \* bounds: tokens per second, size of the bucket,
          MaxBurst,    \* clock readings, number of calls
          MaxReading,
          MaxCalls

ASSUME RateAssumption ==
  /\ Millis \in Nat \ {0} /\ Grain \in Nat \ {0} /\ Expiry \in Nat
  /\ MaxRate \in Nat /\ MaxBurst \in Nat /\ MaxReading \in Nat /\ MaxCalls \in Nat

(* The stored hash, the answer of the last call and the time of it as far as*)
(* the readings tell: a call runs long before the expiry of its reading.    *)
Bucket == [tokens : Int, ts : Nat, allowed : BOOLEAN, at : Nat]

(* What HMGET finds of a key that does not exist.                           *)
NoBucket == [tokens |-> -1, ts |-> 0, allowed |-> FALSE, at |-> 0]

Higher(x, y) == IF x > y THEN x ELSE y
Lower(x, y) == IF x < y THEN x ELSE y

(* EXPIRE of the last call, seen by the next.                               *)
Expired(last, now) == now - last.at >= Expiry * Grain

(* Mutant: the refill is not cut at the burst.                              *)
RefilledOverfull(last, now, rate, burst) ==
  IF last = NoBucket \/ Expired(last, now)
  THEN burst * Grain
  ELSE last.tokens + Higher(0, now - last.ts) * rate

(* The refill. The clock of the caller may be behind the stored reading.    *)
Refilled(last, now, rate, burst) ==
  IF last = NoBucket \/ Expired(last, now)
  THEN burst * Grain
  ELSE Lower(burst * Grain, last.tokens + Higher(0, now - last.ts) * rate)

(* One run of the script: the reading is stored whatever the answer.        *)
Allow(last, now, rate, burst) ==
  LET tokens == Refilled(last, now, rate, burst)
  IN  [tokens |-> IF tokens >= Grain THEN tokens - Grain ELSE tokens,
       ts |-> now, allowed |-> tokens >= Grain, at |-> Higher(last.at, now)]

(* What Allow makes of a reading: float64(UnixMilli) / 1000.0, rounded to   *)
(* the nearest double.                                                      *)
Seconds(reading) == (2 * reading * Grain + Millis) \div (2 * Millis)

(* The same for the readings of a sequence of calls.                        *)
Doubles(readings) == [k \in DOMAIN readings |-> Seconds(readings[k])]

(* The runs of the script for a sequence of such times, in the order in     *)
(* which Redis receives them.                                               *)
Calls(now, rate, burst) ==
  LET calls[i \in DOMAIN now] ==
        Allow(IF i = 1 THEN NoBucket ELSE calls[i - 1], now[i], rate, burst)
  IN  calls

----------------------------------------------------------------------------
(* Calls j .. i that were allowed.                                          *)
Granted(calls, j, i) == Cardinality({k \in j .. i : calls[k].allowed})

(* The time that passes from call j to call i, as the readings tell it: the *)
(* sum of the steps forward. It is the difference of the two readings when  *)
(* the calls run in the order of their readings.                            *)
Passed(now, j, i) ==
  LET passed[k \in j .. i] ==
        IF k = j THEN 0 ELSE passed[k - 1] + Higher(0, now[k] - now[k - 1])
  IN  passed[i]

(* What the rounding can add to that time, or take from it: a grain, and one*)
(* more for every step back.                                                *)
Slack(readings, j, i) ==
  IF i = j THEN 0
  ELSE 1 + Cardinality({k \in j + 1 .. i : readings[k] < readings[k - 1]})

(* Call i is allowed a token by the window of calls j .. i: with it they do *)
(* not exceed the burst plus the rate times the time in the window, which is*)
(* counted here in 1/(Millis * Grain) seconds.                              *)
Fits(calls, rate, burst, j, i, time) ==
  (Granted(calls, j, i - 1) + 1) * (Millis * Grain)
    <= burst * (Millis * Grain) + rate * time

(* The script is exact in the times it is given: a call is allowed if, and  *)
(* only if, every window of calls that ends with it allows it. So a refused *)
(* call costs the caller nothing, an idle bucket never holds more than the  *)
(* burst, and dropping it changes nothing as long as it refills within the  *)
(* expiry, which it does for the limits of cmd/producer and cmd/worker.     *)
(* Calls that run out of the order of their readings move ts back, and the  *)
(* time between is credited twice.                                          *)
WindowsExact ==
  \A rate \in 1 .. MaxRate, burst \in 1 .. MaxBurst,
     readings \in [1 .. MaxCalls -> 0 .. MaxReading] :
    burst <= rate * Expiry =>
      LET now == Doubles(readings)
          calls == Calls(now, rate, burst)
      IN  \A i \in 1 .. MaxCalls :
            calls[i].allowed <=>
              \A j \in 1 .. i : Fits(calls, rate, burst, j, i, Millis * Passed(now, j, i))

(* Against the clock itself it is exact but for the rounding: what is       *)
(* allowed stays within every window widened by Slack grains, and what every*)
(* window allows when narrowed by as much is not refused. A token that is   *)
(* due to the millisecond may be refused.                                   *)
WindowsOnTime ==
  \A rate \in 1 .. MaxRate, burst \in 1 .. MaxBurst,
     readings \in [1 .. MaxCalls -> 0 .. MaxReading] :
    burst <= rate * Expiry =>
      LET calls == Calls(Doubles(readings), rate, burst)
          time(j, i) == Grain * Passed(readings, j, i)
          slack(j, i) == Millis * Slack(readings, j, i)
      IN  \A i \in 1 .. MaxCalls :
            /\ calls[i].allowed =>
                 \A j \in 1 .. i : Fits(calls, rate, burst, j, i, time(j, i) + slack(j, i))
            /\ (\A j \in 1 .. i : Fits(calls, rate, burst, j, i, time(j, i) - slack(j, i)))
                 => calls[i].allowed
=============================================================================
