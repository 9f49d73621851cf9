------------------------------ MODULE Interval ------------------------------
(***************************************************************************)
(* Time intervals (xtime.c): a reading of the clock with the error that    *)
(* NTP admits, and the comparisons of an earlier one with the present.     *)
(*                                                                         *)
(* A timeval is the number of its microseconds.                            *)
(***************************************************************************)
EXTENDS Integers

CONSTANTS
  Errors,   \* the values of maxerror, in microseconds
  Step,     \* the grain of time
  MaxTime   \* bound of time

ASSUME IntervalAssumption ==
  /\ Errors \subseteq Int /\ Step \in Nat \ {0} /\ MaxTime \in Nat

VARIABLES
  time,    \* the true time, that nobody knows
  stamp,   \* an interval, and the time at which TDB_time_now returned it
  answer   \* the last check: its mode, its result and when it was made

intervalVars == <<time, stamp, answer>>

abs(x) == IF x < 0 THEN -x ELSE x

IntervalTypeOK ==
  /\ time \in 0..MaxTime
  /\ stamp.earliest \in Int /\ stamp.latest \in Int /\ stamp.at \in 0..MaxTime
  /\ answer.mode \in {"none", "before", "after"} /\ answer.success \in BOOLEAN

\* TDB_time_now: maxerror counts as milliseconds, a thousand times too much
delta_None(error) == 0
delta(error) ==
  LET e == abs(error)
      sec == e \div 1000
      usec == (e % 1000) * 1000
  IN sec * 1000000 + usec

now(reading, error) ==
  [earliest |-> reading - delta(error), latest |-> reading + delta(error), at |-> time]

\* ntp_gettime: the clock is off by the admitted error at most.  The extremes
\* and the middle stand for all the readings.
Intervals == {now(time + d * abs(e), e) : d \in {-1, 0, 1}, e \in Errors}

\* TDB_time_check: both modes compare the end of the interval with the
\* earliest that it may be now.
check(mode, i, n) ==
  CASE mode = "before" -> i.latest < n.earliest
    [] mode = "after" -> n.earliest < i.latest

Pass ==
  /\ time + Step <= MaxTime
  /\ time' = time + Step
  /\ UNCHANGED <<stamp, answer>>

Now ==
  /\ stamp' \in Intervals
  /\ answer' = [mode |-> "none", success |-> FALSE, now |-> time]
  /\ UNCHANGED time

\* When ntp_gettime fails there is no answer.
Check(mode) ==
  /\ \E i \in Intervals :
       answer' = [mode |-> mode, success |-> check(mode, stamp, i), now |-> time]
  /\ UNCHANGED <<time, stamp>>

IntervalInit ==
  /\ time = 0
  /\ stamp = [earliest |-> 0, latest |-> 0, at |-> 0]
  /\ answer = [mode |-> "none", success |-> FALSE, now |-> 0]

IntervalNext == Pass \/ Now \/ \E mode \in {"before", "after"} : Check(mode)

IntervalSpec == IntervalInit /\ [][IntervalNext]_intervalVars

----------------------------------------------------------------------------
\* What is said to lie before the present was indeed taken earlier, however
\* far off the two readings of the clock were; and what is not said to lie
\* after it was not taken later.
ChecksAreSound ==
  /\ answer.mode = "before" /\ answer.success => stamp.at < answer.now
  /\ answer.mode = "after" /\ ~answer.success => stamp.at <= answer.now
=============================================================================
