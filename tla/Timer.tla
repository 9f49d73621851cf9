------------------------------- MODULE Timer -------------------------------
(***************************************************************************)
(* The timers of tomatod (src/src/tomatod/timer.c): a task that sleeps      *)
(* until all the times sent to timer_chan are over and then sends one       *)
(* alarm.  taskdelay is what Task promises of it (at least the given        *)
(* milliseconds) and timer_chan what ChannelSpec does (a bounded FIFO).     *)
(*                                                                         *)
(* The task switches only in taskdelay, and alarm_chan has room for its     *)
(* one alarm, so it is one action from one taskdelay to the next.           *)
(***************************************************************************)
EXTENDS Integers, Sequences

CONSTANTS
  Delays,       \* the milliseconds that are asked for
  Backlog,      \* TDB_TIMER_CHANNEL_BACKLOG
  Half,         \* INT_MAX + 1: half of the values of an int (2^31)
  MaxRequests,  \* bound: the requests ever made
  Lag           \* bound: how much longer than asked taskdelay may take

ASSUME TimerAssumption ==
  /\ Half \in Nat \ {0}
  /\ Delays \subseteq 0..(Half - 1)
  /\ Backlog \in Nat \ {0}
  /\ MaxRequests \in Nat /\ Lag \in Nat

Cancel == -1     \* the message of TDB_timer_cancel

\* A definition with a suffix, as in pass_ClearsAll, is the definition that
\* follows it with a mistake: the properties are tested against it.

VARIABLES
  chan,       \* the buffer of timer_chan
  t,          \* timer->t
  pc,         \* the timer's task: "none", "ready", "sleep", "done", "freed"
  left,       \* what is left of its taskdelay, negative when it is late
  elapsed,    \* the milliseconds since it called taskdelay
  alarms,     \* alarm_chan->nbuf
  requests,   \* the calls of TDB_timer_reset and TDB_timer_cancel so far
  owed        \* what is left of the longest time that was asked for

vars == <<chan, t, pc, left, elapsed, alarms, requests, owed>>

TypeOK ==
  /\ chan \in Seq(Delays \cup {Cancel}) /\ Len(chan) <= Backlog
  /\ t \in Seq(Int)
  /\ pc \in {"none", "ready", "sleep", "done", "freed"}
  /\ left \in Int /\ elapsed \in Nat /\ alarms \in Nat
  /\ requests \in Nat /\ owed \in Nat

----------------------------------------------------------------------------
\* What an unsigned int (the argument and the result of taskdelay) and an int
\* (a time of the list, and what is subtracted from it) make of a number
unsigned(n) == n % (2 * Half)
signed(n)   == unsigned(n + Half) - Half

\* chansendp(timer_chan): it blocks its caller while the buffer is full
send(m) ==
  /\ requests < MaxRequests /\ Len(chan) < Backlog
  /\ requests' = requests + 1
  /\ chan' = Append(chan, m)

request(ms) ==
  /\ send(ms)
  /\ owed' = IF ms > owed THEN ms ELSE owed

start ==
  /\ pc = "none"
  /\ \E ms \in Delays : request(ms)
  /\ pc' = "ready"
  /\ UNCHANGED <<t, left, elapsed, alarms>>

reset ==
  /\ pc # "none"
  /\ \E ms \in Delays : request(ms)
  /\ UNCHANGED <<t, pc, left, elapsed, alarms>>

cancel ==
  /\ pc # "none"
  /\ send(Cancel)
  /\ UNCHANGED <<t, pc, left, elapsed, alarms, owed>>

----------------------------------------------------------------------------
pass_NotCounted(times, e) == times

pass_ClearsAll(times, e) ==
  IF times[1] - e < 0 THEN <<>> ELSE [i \in DOMAIN times |-> times[i] - e]

\* One time of the list is counted down, and when it is over the FIRST of
\* the list is erased, which moves the others under the iterator.
visit(s, i, e) ==
  LET v == signed(s[i] - e)
      r == [s EXCEPT ![i] = v]
  IN IF i > Len(s) THEN s ELSE IF v < 0 THEN Tail(r) ELSE r

\* for(ele_time ...): each time in turn loses e milliseconds.
pass(times, e) ==
  LET after[i \in 0..Len(times)] == IF i = 0 THEN times ELSE visit(after[i - 1], i, e)
  IN after[Len(times)]

\* for(;;), up to the next taskdelay: the messages are received, then the
\* task sleeps for the first of the times or, when there is none, sends the
\* alarm and exits.  After a cancel it goes on with the memory it has freed.
loop(times) ==
  IF \E k \in DOMAIN chan : chan[k] = Cancel
  THEN /\ pc' = "freed"
       /\ UNCHANGED <<chan, t, left, elapsed, alarms>>
  ELSE /\ t' = times \o chan
       /\ chan' = <<>>
       /\ elapsed' = 0
       /\ IF t' # <<>>
          THEN pc' = "sleep" /\ left' = unsigned(Head(t')) /\ UNCHANGED alarms
          ELSE pc' = "done" /\ left' = 0 /\ alarms' = alarms + 1

task ==
  /\ \/ pc = "ready" /\ loop(t)
     \/ pc = "sleep" /\ left <= 0 /\ loop(pass(t, signed(elapsed)))
  /\ UNCHANGED <<requests, owed>>

\* A millisecond passes.
Tick ==
  /\ owed > 0 \/ pc = "sleep"
  /\ pc = "sleep" => left > -Lag
  /\ owed' = IF owed > 0 THEN owed - 1 ELSE 0
  /\ IF pc = "sleep" THEN left' = left - 1 /\ elapsed' = elapsed + 1
     ELSE UNCHANGED <<left, elapsed>>
  /\ UNCHANGED <<chan, t, pc, alarms, requests>>

Init ==
  /\ chan = <<>> /\ t = <<>>
  /\ pc = "none"
  /\ left = 0 /\ elapsed = 0
  /\ alarms = 0 /\ requests = 0 /\ owed = 0

Next == start \/ reset \/ cancel \/ task \/ Tick

Fairness == WF_vars(task) /\ WF_vars(Tick)

Spec == Init /\ [][Next]_vars /\ Fairness

----------------------------------------------------------------------------
\* The alarm is never early: when it is sent, every time that was asked for
\* is over since it was, however the times were interleaved with the sleeps
\* and whichever of them the pass over timer->t skipped or erased.
AlarmNotEarly ==
  [][alarms' > alarms => owed = 0]_vars

\* A timer that is started sends its alarm, unless it is canceled.
AlarmComes ==
  pc = "ready" ~> (alarms = 1 \/ \E k \in DOMAIN chan : chan[k] = Cancel)

\* A reset appends its milliseconds to the timer's task ("Appending `%d' ms to
\* this timer task", timer.c 81): the task never sleeps longer than a time
\* that was appended.
SleepsAsAsked ==
  pc = "sleep" => \E ms \in Delays : left <= ms
=============================================================================
