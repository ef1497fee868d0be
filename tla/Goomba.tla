------------------------------- MODULE Goomba -------------------------------
(***************************************************************************)
(* goomba.sv: the enemy's life (goomba), its patrol (gsm) and its position *)
(* (goombaPos).  All three are clocked by vs, which does not rise while    *)
(* Reset is held (VgaTiming), and have an asynchronous reset.  Whether     *)
(* Mario stomps it in a frame is an input, killGoomba.                     *)
(***************************************************************************)
EXTENDS Integers

CONSTANTS Ball_X_Center, Ball_X_Min, Ball_X_Max    \* parameters of goombaPos

STILL == 96    \* counter limits of gsm
WALK == 32
WIDTH == 16
Travel == WALK + 1

ASSUME GoombaAssumption ==
  /\ Ball_X_Min \in 0 .. 511
  /\ Ball_X_Max \in 0 .. 1023
  /\ Ball_X_Center \in 0 .. 511
  /\ Ball_X_Center - Travel > Ball_X_Min            \* the patrol does not
  /\ Ball_X_Center + WIDTH + 1 < Ball_X_Max         \* meet an edge

VARIABLES
  Reset,
  isAlive,                 \* goomba: ON or OFF
  curr_state, counter,     \* gsm
  Ball_X_Pos, Ball_Y_Pos   \* goombaPos, 10 bits each
vars == <<Reset, isAlive, curr_state, counter, Ball_X_Pos, Ball_Y_Pos>>

Ball_Y_Center == 432
Grave == 700

----------------------------------------------------------------------------
(* The patrol state machine *)

States == {"STILL1", "LEFT", "STILL2", "RIGHT"}
SuccessorStuck(s) == IF s = "STILL1" THEN "LEFT" ELSE "STILL2"    \* mutant: no way back
Successor(s) == CASE s = "STILL1" -> "LEFT"  [] s = "LEFT" -> "STILL2"
                  [] s = "STILL2" -> "RIGHT" [] OTHER -> "STILL1"

Limit(s) == IF s \in {"LEFT", "RIGHT"} THEN WALK ELSE STILL

gsm ==
  IF counter < Limit(curr_state)
    THEN counter' = counter + 1 /\ UNCHANGED curr_state
    ELSE counter' = 0 /\ curr_state' = Successor(curr_state)

\* X_Velocity in 10 bits.
new_velocity == CASE curr_state = "LEFT" -> 1023 [] curr_state = "RIGHT" -> 1 [] OTHER -> 0

----------------------------------------------------------------------------
(* The position *)

Signed(n) == IF n < 512 THEN n ELSE n - 1024

Ball_X_Motion ==
  IF \/ (Ball_X_Pos + new_velocity + WIDTH) % 1024 >= Ball_X_Max
     \/ Signed((Ball_X_Pos + new_velocity) % 1024) <= Signed(Ball_X_Min)
    THEN 0 ELSE new_velocity

goombaPos ==
  IF isAlive
    THEN /\ Ball_X_Pos' = (Ball_X_Pos + Ball_X_Motion) % 1024
         /\ Ball_Y_Pos' = Ball_Y_Center
    ELSE Ball_X_Pos' = Grave /\ Ball_Y_Pos' = Grave

goombaRevives(killGoomba) == isAlive' = ~killGoomba    \* mutant: OFF can be left
goomba(killGoomba) == isAlive' = (isAlive /\ ~killGoomba)

----------------------------------------------------------------------------
(* The steps *)

\* A rising edge of vs: every register takes its next value at once.
Frame(killGoomba) ==
  /\ ~Reset
  /\ goomba(killGoomba)
  /\ gsm
  /\ goombaPos
  /\ UNCHANGED Reset

Registers0 ==
  /\ isAlive' = TRUE
  /\ curr_state' = "STILL1" /\ counter' = 0
  /\ Ball_X_Pos' = Ball_X_Center /\ Ball_Y_Pos' = Ball_Y_Center

PressReset == ~Reset /\ Reset' = TRUE /\ Registers0
ReleaseReset ==
  /\ Reset /\ Reset' = FALSE
  /\ UNCHANGED <<isAlive, curr_state, counter, Ball_X_Pos, Ball_Y_Pos>>

\* The game is started with the reset button.
Init ==
  /\ Reset = TRUE
  /\ isAlive = TRUE
  /\ curr_state = "STILL1" /\ counter = 0
  /\ Ball_X_Pos = Ball_X_Center /\ Ball_Y_Pos = Ball_Y_Center

Tick == \E killGoomba \in BOOLEAN : Frame(killGoomba)
Next == Tick \/ PressReset \/ ReleaseReset

Spec == Init /\ [][Next]_vars /\ WF_vars(Tick)

----------------------------------------------------------------------------
(* Properties *)

\* The type invariant.
TypeOK ==
  /\ Reset \in BOOLEAN /\ isAlive \in BOOLEAN
  /\ curr_state \in States
  /\ counter \in 0 .. Limit(curr_state)
  /\ Ball_X_Pos \in 0 .. 1023
  /\ Ball_Y_Pos \in {Ball_Y_Center, Grave}

\* The Goomba does not look at the level: it keeps clear of the blocks in columns 24
\* and 30 of its row only because it walks exactly as far back as it walked away.
Column(n) == n * 16 .. n * 16 + 15
StaysBetweenBlocks ==
  isAlive => \A n \in {24, 30} : Ball_X_Pos .. Ball_X_Pos + WIDTH - 1 \cap Column(n) = {}

\* A living Goomba keeps walking from one end of its patrol to the other.
Disturbed == Reset \/ ~isAlive
KeepsPatrolling ==
  /\ []<>(Disturbed \/ Ball_X_Pos = Ball_X_Center)
  /\ []<>(Disturbed \/ Ball_X_Pos = Ball_X_Center - Travel)

\* goomba.sv implements Patrol.
Enemy == INSTANCE Patrol WITH
  Lo <- Ball_X_Center - Travel, Hi <- Ball_X_Center, x <- Ball_X_Pos
PatrolSpec == Enemy!Spec
=============================================================================
