---------------------------- MODULE RetryBackoff ----------------------------
(***************************************************************************)
(* RetryDelay: how long a failed message waits before its next attempt.    *)
(* Durations are seconds, except that the ends of int64 nanoseconds are    *)
(* the two numbers Lowest and Highest, and what lies between 2^19 and 2^27 *)
(* minutes, all far above the cap, is one number.                          *)
(***************************************************************************)
EXTENDS Integers

retryBase == 60
retryMaxWait == 480

\* 0.2 * rand.Float64, in fiftieths.
Jitters == 0 .. 10

Highest == 2^24
Lowest == - 2^24

\* float64(retryBase) * 2^e as a Duration.  From 2^28 minutes on it is beyond
\* int64, and what the conversion yields depends on the processor.
Converted(e) ==
    CASE e < 0 -> {retryBase \div 2^(-e)}
      [] e \in 0 .. 18 -> {retryBase * 2^e}
      [] e \in 19 .. 27 -> {Highest - 1}
      [] e > 27 -> {Lowest, Highest}

Capped(base) == IF base > retryMaxWait THEN retryMaxWait ELSE base

\* int64 addition.
Wrapped(d) == IF d < Lowest THEN d + 2 * Highest ELSE d

\* Mutant of RetryDelay: the exponent of the comment.
RetryDelayByComment(n) ==
    {Wrapped(b + (b * j) \div 50) : b \in {Capped(d) : d \in Converted(n - 1)}, j \in Jitters}

\* The delays RetryDelay may return before attempt n.
RetryDelay(n) ==
    {Wrapped(b + (b * j) \div 50) : b \in {Capped(d) : d \in Converted(n - 2)}, j \in Jitters}

-----------------------------------------------------------------------------
\* Up to this attempt the conversion to int64 does not overflow.
LastSound == 29

\* The schedule of the tests: one minute before the second attempt, twice as
\* long before each next one, eight minutes at most.
Schedule[n \in 2 .. LastSound] ==
    IF n = 2 THEN 60 ELSE IF 2 * Schedule[n - 1] > 480 THEN 480 ELSE 2 * Schedule[n - 1]

\* The attempts before which the delay is the scheduled one or up to a fifth more.
OnSchedule ==
    {n \in 2 .. LastSound :
        \A d \in RetryDelay(n) : Schedule[n] <= d /\ 5 * d <= 6 * Schedule[n]}
=============================================================================
