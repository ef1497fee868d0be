---------------------------- MODULE SystemClock ----------------------------
(***************************************************************************)
(* The system clock of the HAL and what is built on it: the tick counter   *)
(* and the list of alarms (alt_tick.c, alt_alarm_start.c, alt_llist.h) that *)
(* the timer's interrupt drives, the two waits of transfer.c that count    *)
(* milliseconds by it, and the time of day.  All words are Word wide.      *)
(*                                                                         *)
(* alt_tick runs with interrupts off, and alt_alarm_start and              *)
(* alt_alarm_stop switch them off, so that only the callbacks act between  *)
(* the steps of a tick.  The three clients share nothing but the counter,  *)
(* which they only read, and are looked at one at a time.                  *)
(***************************************************************************)
EXTENDS Integers

CONSTANTS
  Alarms, Waits, Periods,   \* see AlarmClock
  Head,                     \* alt_alarm_list, the head of the list
  Word,                     \* 2^32
  TickRate,                 \* ticks per second
  Thousand,                 \* milliseconds per second
  SettleTime,               \* the 200 milliseconds of SETTLE
  XferTimeout,              \* USB_XFER_TIMEOUT
  US,                       \* ALT_US, microseconds per second
  Times,                    \* the times of day that are set
  Clients                   \* bound: the clients that a run looks at

ASSUME SystemClockAssumption ==
  /\ Head \notin Alarms
  /\ Word \in Nat /\ Word > 1
  /\ Waits \subseteq 0 .. Word - 2 /\ Periods \subseteq 0 .. Word - 1
  /\ TickRate \in Nat \ {0} /\ Thousand \in Nat \ {0}
  /\ US \in Nat \ {0} /\ US % TickRate = 0
  /\ SettleTime \in Nat /\ XferTimeout \in Nat
  /\ \A ms \in {SettleTime, XferTimeout} :    \* what the milliseconds leave of a word
       (Word - 1) \div TickRate + ms < Word
  /\ Times \subseteq [sec : Nat, usec : 0 .. US - 1]
  /\ Clients \subseteq {"alarms", "waits", "day"}

VARIABLES
  client,
  rate,                  \* _alt_tick_rate, zero until the timer is initialised
  nticks,                \* _alt_nticks
  next, previous,        \* the links of the list head and of the alarms
  time, rollover,        \* the fields of the alarms
  pc, alarm, following,  \* alt_tick: its place, and its alarm and next
  wait, deadline, waited,  \* a wait in milliseconds; history: its ticks, Word at most
  resettime, setAt, set    \* the time of day; history: the last setting and its tick

listVars == <<next, previous, time, rollover>>
tickVars == <<pc, alarm, following>>
waitVars == <<wait, deadline, waited>>
dayVars == <<resettime, setAt, set>>
vars == <<client, rate, nticks, listVars, tickVars, waitVars, dayVars>>

Nodes == Alarms \union {Head}
----------------------------------------------------------------------------
(* alt_llist.h *)

\* alt_llist_insert: entry becomes the first of the list.
alt_llist_insert(entry) ==
  LET first == next[Head]
  IN  /\ next' = [next EXCEPT ![entry] = first, ![Head] = entry]
      /\ previous' = [previous EXCEPT ![entry] = Head, ![first] = entry]

\* alt_llist_remove: entry leaves its list and points to itself.
alt_llist_remove(entry) ==
  /\ next' = [[next EXCEPT ![previous[entry]] = next[entry]] EXCEPT ![entry] = entry]
  /\ previous' = [[previous EXCEPT ![next[entry]] = previous[entry]] EXCEPT ![entry] = entry]

InList(a) == next[a] # a
----------------------------------------------------------------------------
(* The alarms *)

\* alt_avalon_timer_sc_init: the clock rate is known from here on.
TimerInit == /\ rate = 0
             /\ rate' = TickRate
             /\ UNCHANGED <<client, nticks, listVars, tickVars, waitVars, dayVars>>

\* The counter's value n ticks after t.
Due(t, n) == (t + n) % Word

\* The ticks until alt_tick calls an alarm of its list.
LeftOf(a) == IF rollover[a] /\ nticks # 0 THEN time[a] + Word - nticks ELSE time[a] - nticks

\* alt_alarm_start, which fails before the clock runs.  Who starts an alarm has to
\* see that it is not running: the list would be broken.  A callback may start its own
\* alarm again once it has stopped it.
AlarmStart(a) ==
  /\ client = "alarms"
  /\ rate # 0
  /\ pc \in {"run", "callback"}
  /\ ~InList(a)
  /\ \E n \in Waits :
       LET due == Due(nticks, n + 1)
       IN  /\ time' = [time EXCEPT ![a] = due]
           /\ rollover' = [rollover EXCEPT ![a] = due < nticks]
  /\ alt_llist_insert(a)
  /\ UNCHANGED <<client, rate, nticks, tickVars, waitVars, dayVars>>

\* alt_alarm_stop, from the program or from a callback.  A callback must not stop the
\* alarm that follows its own: alt_tick has noted it already and would go on from it.
AlarmStop(a) ==
  /\ client = "alarms"
  /\ pc = "run" \/ (pc = "callback" /\ a # following)
  /\ alt_llist_remove(a)
  /\ UNCHANGED <<client, rate, nticks, time, rollover, tickVars, waitVars, dayVars>>

\* The timer's interrupt: alt_tick counts and turns to the first alarm.
Tick ==
  /\ pc = "run"
  /\ rate # 0
  /\ nticks' = (nticks + 1) % Word
  /\ pc' = "loop"
  /\ alarm' = next[Head]
  /\ waited' = IF wait = "none" \/ waited = Word THEN waited ELSE waited + 1
  /\ UNCHANGED <<client, rate, listVars, following, wait, deadline, dayVars>>

\* Mutant: the flag is never cleared.
ClearedNever(a) == rollover[a]

\* The flag of an alarm for after the roll-over, once the counter has rolled over.
Cleared(a) == rollover[a] /\ nticks # 0

\* One alarm is looked at; its callback is called if it is due.
Visit ==
  /\ pc = "loop"
  /\ alarm # Head
  /\ rollover' = [rollover EXCEPT ![alarm] = Cleared(alarm)]
  /\ IF time[alarm] <= nticks /\ ~Cleared(alarm)
     THEN pc' = "callback" /\ following' = next[alarm] /\ UNCHANGED alarm
     ELSE alarm' = next[alarm] /\ UNCHANGED <<pc, following>>
  /\ UNCHANGED <<client, rate, nticks, next, previous, time, waitVars, dayVars>>

\* The callback returns the ticks to its next call; zero ends the alarm.  If it has started
\* its own alarm again they come on top, and it has to see that a word holds the sum.
CallbackReturns ==
  /\ pc = "callback"
  /\ pc' = "loop"
  /\ alarm' = following /\ following' = Head
  /\ \E k \in Periods :
       IF k = 0 THEN alt_llist_remove(alarm) /\ UNCHANGED <<time, rollover>>
       ELSE LET due == Due(time[alarm], k)
            IN  /\ InList(alarm) => LeftOf(alarm) + k < Word
                /\ time' = [time EXCEPT ![alarm] = due]
                /\ rollover' = [rollover EXCEPT ![alarm] = @ \/ due < nticks]
                /\ UNCHANGED <<next, previous>>
  /\ UNCHANGED <<client, rate, nticks, waitVars, dayVars>>

TickDone ==
  /\ pc = "loop"
  /\ alarm = Head
  /\ pc' = "run"
  /\ UNCHANGED <<client, rate, nticks, listVars, alarm, following, waitVars, dayVars>>
----------------------------------------------------------------------------
(* The waits of USB_Task and XferDispatchPkt *)

Millis == ((nticks * Thousand) % Word) \div rate
MaxMillis == (Word - 1) \div TickRate

WaitFor(kind, ms) ==
  /\ client = "waits"
  /\ pc = "run" /\ rate # 0
  /\ wait = "none"
  /\ wait' = kind
  /\ deadline' = (Millis + ms) % Word
  /\ waited' = 0
  /\ UNCHANGED <<client, rate, nticks, listVars, tickVars, dayVars>>

\* Mutants: the comparison lets the last millisecond count in full; the settle time
\* is added a second time.
IsOverEarly == Millis >= deadline
IsOverTwice == Millis > deadline + (IF wait = "settle" THEN SettleTime ELSE 0)

\* SETTLE goes on when now > usb_delay; XferDispatchPkt waits while now < timeout.
IsOver == IF wait = "settle" THEN Millis > deadline ELSE Millis >= deadline

EndWait == /\ wait' = "none"
           /\ deadline' = 0 /\ waited' = 0
           /\ UNCHANGED <<client, rate, nticks, listVars, tickVars, dayVars>>

Expire == pc = "run" /\ wait # "none" /\ IsOver /\ EndWait

\* The chip raises HXFRDNIRQ and the program sees it.
Answered == pc = "run" /\ wait = "xfer" /\ EndWait
----------------------------------------------------------------------------
(* The time of day *)

\* settimeofday: the product of ticks and microseconds is a 32-bit one.
settimeofday(t) ==
  /\ client = "day"
  /\ pc = "run" /\ rate # 0
  /\ resettime' = [sec |-> t.sec - nticks \div rate,
                   usec |-> t.usec - (((nticks * (US \div rate)) % Word) % US)]
  /\ set' = t /\ setAt' = nticks
  /\ UNCHANGED <<client, rate, nticks, listVars, tickVars, waitVars>>

\* Mutant: no borrow from the seconds.
GetWithoutBorrow ==
  LET sec == resettime.sec + nticks \div rate
      usec == resettime.usec + ((nticks * (US \div rate)) % US)
  IN  IF usec >= US THEN [sec |-> sec + 1, usec |-> usec - US]
      ELSE [sec |-> sec, usec |-> usec]

\* gettimeofday: here the product has 64 bits.
gettimeofday ==
  LET sec == resettime.sec + nticks \div rate
      usec == resettime.usec + ((nticks * (US \div rate)) % US)
  IN  IF usec < 0 THEN (IF sec <= 0 THEN [sec |-> 0, usec |-> 0]
                        ELSE [sec |-> sec - 1, usec |-> usec + US])
      ELSE IF usec >= US THEN [sec |-> sec + 1, usec |-> usec - US]
      ELSE [sec |-> sec, usec |-> usec]
----------------------------------------------------------------------------
\* An alarm that was never started points to itself here, as a stopped one does; in the
\* code its links are null until it is started.
Init ==
  /\ client \in Clients
  /\ rate = 0 /\ nticks = 0
  /\ next = [n \in Nodes |-> n] /\ previous = [n \in Nodes |-> n]
  /\ time = [a \in Alarms |-> 0] /\ rollover = [a \in Alarms |-> FALSE]
  /\ pc = "run" /\ alarm = Head /\ following = Head
  /\ wait = "none" /\ deadline = 0 /\ waited = 0
  /\ resettime = [sec |-> 0, usec |-> 0] /\ setAt = 0 /\ set = [sec |-> 0, usec |-> 0]

Loop == Visit \/ CallbackReturns \/ TickDone
Next == \/ TimerInit \/ Tick \/ Loop
        \/ \E a \in Alarms : AlarmStart(a) \/ AlarmStop(a)
        \/ WaitFor("settle", SettleTime) \/ WaitFor("xfer", XferTimeout) \/ Expire \/ Answered
        \/ \E t \in Times : settimeofday(t)

\* The timer is initialised and ticks for ever, a tick is processed to its end, and
\* the program looks at the clock again and again, so that it does not miss for
\* ever the times at which a wait is over.
Spec == Init /\ [][Next]_vars /\ WF_vars(TimerInit \/ Tick \/ Loop) /\ SF_vars(Expire)
----------------------------------------------------------------------------
(* Properties *)

\* The ticks each alarm has to wait, and whose callback runs.
Left == [a \in Alarms |-> IF ~InList(a) THEN -1 ELSE LeftOf(a)]

\* Every alarm runs on its tick, none early, none late, none forgotten, also when
\* its time lies beyond the roll-over of the counter.
Running == IF pc = "callback" THEN alarm ELSE Head
Clock == INSTANCE AlarmClock WITH left <- Left, running <- Running, None <- Head
AlarmSpec == Clock!Spec

\* No wait is cut short by the wrap of the milliseconds.
NeverCutShort ==
  [][Expire => waited * Thousand > (IF wait = "settle" THEN SettleTime
                                    ELSE XferTimeout - 1) * TickRate]_vars

\* The wait for a settle time that ends before the milliseconds wrap comes to an end; the
\* wait for a later one need not.
SettleEnds == (wait = "settle" /\ deadline < MaxMillis) ~> wait = "none"

\* The time of day is the one last set and the time since, however the seconds and
\* microseconds were split; as long as ticks times microseconds fit 32 bits when it
\* is set, and until the counter wraps.
DayIsKept ==
  rate # 0 /\ setAt * (US \div rate) < Word /\ nticks >= setAt =>
    /\ gettimeofday.usec \in 0 .. US - 1
    /\ gettimeofday.sec * US + gettimeofday.usec
         = set.sec * US + set.usec + (nticks - setAt) * (US \div rate)
=============================================================================
