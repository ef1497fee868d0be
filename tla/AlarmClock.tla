----------------------------- MODULE AlarmClock -----------------------------
(***************************************************************************)
(* What the users of the system clock may rely on.  A running alarm counts *)
(* down the ticks it was asked to wait.  When none are left its callback   *)
(* runs, before the next tick; the ticks it returns are those to its next  *)
(* call, or more of them if it has started its own alarm again, and none   *)
(* end the alarm.                                                          *)
(***************************************************************************)
EXTENDS Integers

CONSTANTS
  Alarms,
  Waits,      \* the delays an alarm is started with
  Periods,    \* the delays a callback returns; 0 ends the alarm
  None        \* no alarm

Idle == -1

VARIABLES
  left,       \* the ticks until an alarm's callback runs
  running     \* the alarm whose callback runs
vars == <<left, running>>

Init == left = [a \in Alarms |-> Idle] /\ running = None

Start(a) == /\ left[a] = Idle
            /\ \E n \in Waits : left' = [left EXCEPT ![a] = n + 1]
            /\ UNCHANGED running

Stop(a) == /\ left' = [left EXCEPT ![a] = Idle]
           /\ UNCHANGED running

Tick == /\ running = None
        /\ \A a \in Alarms : left[a] # 0
        /\ left' = [a \in Alarms |-> IF left[a] = Idle THEN Idle ELSE left[a] - 1]
        /\ UNCHANGED running

Call(a) == /\ running = None
           /\ left[a] = 0
           /\ running' = a
           /\ UNCHANGED left

Return == /\ running # None
          /\ running' = None
          /\ \E k \in Periods :
               left' = [left EXCEPT ![running] = IF k = 0 \/ @ = Idle THEN Idle ELSE @ + k]

Next == Tick \/ Return \/ \E a \in Alarms : Start(a) \/ Stop(a) \/ Call(a)

Spec == Init /\ [][Next]_vars /\ WF_vars(Return) /\ \A a \in Alarms : WF_vars(Call(a))
=============================================================================
