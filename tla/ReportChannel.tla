--------------------------- MODULE ReportChannel ---------------------------
(***************************************************************************)
(* What the game may rely on: the reports a keyboard makes reach the two   *)
(* key registers one by one, in order, none twice and none left out while  *)
(* the keyboard stays plugged in; and of any two reports the second        *)
(* register shows the first one's key before the first register shows the  *)
(* second one's.  Reports are numbered.                                    *)
(***************************************************************************)
EXTENDS Naturals

VARIABLES
  produced,   \* the last report the keyboard made
  taken,      \* the last report that reached the registers, or was given up
  keycode,    \* the report whose first key is in KEYCODE
  keycode2    \* the report whose second key is in KEYCODE2
vars == <<produced, taken, keycode, keycode2>>

Init == produced = 0 /\ taken = 0 /\ keycode = 0 /\ keycode2 = 0

Type == /\ produced' = produced + 1
        /\ UNCHANGED <<taken, keycode, keycode2>>

First == /\ taken < produced
         /\ keycode2 = keycode
         /\ keycode' = taken + 1
         /\ taken' = taken + 1
         /\ UNCHANGED <<produced, keycode2>>

Second == /\ keycode2' = keycode
          /\ UNCHANGED <<produced, taken, keycode>>

\* The keyboard is pulled out: what it had not sent is gone.
Replug == /\ taken' = produced
          /\ UNCHANGED <<produced, keycode, keycode2>>

Next == Type \/ First \/ Second \/ Replug

Spec == Init /\ [][Next]_vars
=============================================================================
