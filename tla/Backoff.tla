------------------------------ MODULE Backoff -------------------------------
(***************************************************************************)
(* The backoff policy of the tunnel executable: cenkalti's                 *)
(* ExponentialBackOff as expBackoff configures it.  Time passes in ticks.  *)
(***************************************************************************)
EXTENDS Naturals

CONSTANTS
  DefaultInterval,               \* of the library: 500 ms
  InitialInterval, MaxInterval,  \* interval and max_interval of the configuration
  MaxElapsedTime,                \* max_time; 0: never stop trying
  Numerator, Denominator         \* of the multiplier

VARIABLES
  interval,  \* currentInterval
  elapsed    \* time since startTime, as far as it matters: see Elapse

\* NewExponentialBackOff resets the policy with the values of the library, and
\* expBackoff sets the configured ones afterwards.  The interval that the first
\* outage begins with is not bounded by MaxInterval.
Init == interval = DefaultInterval /\ elapsed = 0

Reset == interval' = InitialInterval /\ elapsed' = 0

\* A tick.  Times beyond MaxElapsedTime are all the same.
Elapse ==
  /\ elapsed' = IF elapsed > MaxElapsedTime THEN elapsed ELSE elapsed + 1
  /\ UNCHANGED interval

\* NextBackOff returns a negative value.
Stop == MaxElapsedTime # 0 /\ elapsed > MaxElapsedTime

\* (Variant: the interval is not bounded.)
IncrementedUnbounded == (interval * Numerator) \div Denominator

\* incrementCurrentInterval.
Incremented ==
  IF interval * Numerator >= MaxInterval * Denominator
  THEN MaxInterval
  ELSE (interval * Numerator) \div Denominator

\* What getRandomValueFromInterval may return: half the interval to one and a
\* half of it, rounded down, where the upper end gets one more.
Randomized == {d \in 0 .. 2 * interval + 1 : interval \div 2 <= d /\ 2 * d < 3 * interval + 2}

\* NextBackOff returns d.
NextBackOff(d) ==
  /\ ~Stop
  /\ d \in Randomized
  /\ interval' = Incremented
  /\ UNCHANGED elapsed
=============================================================================
