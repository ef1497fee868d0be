-------------------------------- MODULE Game --------------------------------
(***************************************************************************)
(* The game: Mario's registers (ball.sv) and jump machine (jump.sv), the   *)
(* state of the game (gamestate.sv), the mushroom (mushroom.sv) and        *)
(* Mario's growth (super_mario.sv), with the Goomba as Patrol promises it. *)
(* Two clocks meet here.  The registers of Mario, the jump and the Goomba  *)
(* step at the rising edge of vs; the game, the mushroom and the growth    *)
(* are clocked at 50 MHz and sample, all through the frame, events that    *)
(* are worked out from the registers and whatever the keys are just then.  *)
(* The level is in neither: Color_Mapper.sv writes its cells as the beam   *)
(* passes them, and not while the start screen is shown.                   *)
(***************************************************************************)
EXTENDS Motion

CONSTANTS Lo, Hi,       \* the patrol of the Goomba
          KeyPairs,     \* the values of the two key registers
          OffGrid       \* the possible values of offGrid

ASSUME GameAssumption ==
  /\ Lo \in Nat /\ Hi \in Nat /\ Lo <= Hi
  /\ KeyPairs \subseteq Keys \X Keys
  /\ Ball_X_Center \notin 112 .. 127    \* Mario does not start over the pit

VARIABLES
  Ball_X_Pos, Ball_Y_Pos,
  jump_state,           \* 0 is GROUND, n is JUMPn
  game_state,
  mushroom_on, superMario,
  isAlive, GoomX,
  sampled,              \* the 50 MHz machines have seen this frame
  grid, mushroom_grid,  \* the cells that are set
  beam                  \* the last row of cells the beam has painted in this frame
level == <<grid, mushroom_grid, beam>>
vars == <<Ball_X_Pos, Ball_Y_Pos, jump_state, game_state, mushroom_on, superMario,
          isAlive, GoomX, sampled, level>>

Grave == 700
GoomY == IF GoomX = Grave THEN Grave ELSE 432

----------------------------------------------------------------------------
(* jump.sv *)

Y_Velocity == <<-10, -8, -8, -7, -7, -6, -5, -5, -4, -4, -3, -3, -2, -2, 1, 1, 2, 4, 4, 6>>

NextJump(in) ==
  IF ~current_jumping(in) THEN 0
  ELSE IF jump_state = 0 THEN (IF pressed(in, "W") THEN 1 ELSE 15)
  ELSE IF jump_state = 20 THEN 20 ELSE jump_state + 1

----------------------------------------------------------------------------
(* What ball.sv sees in a frame *)

\* Only here can a corner fall outside the arrays.
NearTheRim == Ball_Y_Pos < 16 \/ Ball_Y_Pos + 38 >= 480
Inputs == [x : {Ball_X_Pos}, y : {Ball_Y_Pos}, big : {superMario},
           velocity : {IF jump_state = 0 THEN 0 ELSE Y_Velocity[jump_state]},
           keycode : {k[1] : k \in KeyPairs}, keycode2 : {k[2] : k \in KeyPairs},
           goomX : {GoomX}, goomY : {GoomY},
           arrays : {[grid |-> grid, mushroom |-> mushroom_grid, peach |-> PeachGrid]},
           offGrid : IF NearTheRim THEN OffGrid ELSE {{}}]
Seen == {in \in Inputs : <<in.keycode, in.keycode2>> \in KeyPairs}

----------------------------------------------------------------------------
(* The 50 MHz machines *)

startScreen == game_state = "START"

NextGame(in, m) ==
  CASE game_state = "START" -> IF pressed(in, "Enter") THEN "ON" ELSE "START"
    [] game_state = "ON" -> IF m.peach THEN "WIN"
                            ELSE IF initGameOver(in, m) THEN "OFF" ELSE "ON"
    [] game_state = "WIN" -> IF initGameOver(in, m) THEN "OFF" ELSE "WIN"
    [] game_state = "OFF" -> "OFF"

Sample(in) ==
  LET m == Move(in)
  IN  /\ game_state' = NextGame(in, m)
      /\ mushroom_on' = (mushroom_on /\ ~m.collision)
      /\ superMario' = (superMario \/ m.collision)
      /\ sampled' = TRUE
      /\ UNCHANGED <<Ball_X_Pos, Ball_Y_Pos, jump_state, isAlive, GoomX, level>>

----------------------------------------------------------------------------
(* The beam paints the level *)

\* Bound: Mario's motion is not followed into the game-over screen.
NotOver == game_state # "OFF"

Playing == game_state \in {"ON", "WIN"}
Top == -1
Bottom == 30
Rows == {c[1] : c \in Grid \cup MushroomGrid}

HiddenRow(c) == Ball_Y_Pos <= 16 * c[1] + 15 /\ 16 * c[1] <= Ball_Y_Pos + height(superMario)  \* mutant

\* Mario is painted over all of the cell, which then stays as it is.
Hidden(c) ==
  /\ Ball_X_Pos = 16 * c[2]
  /\ Ball_Y_Pos <= 16 * c[1] /\ 16 * (c[1] + 1) <= Ball_Y_Pos + height(superMario)

MushroomShown == IF mushroom_on THEN MushroomGrid ELSE {}
Painted(old, shown, row) ==
  {c \in old \cup shown : IF c[1] = row /\ ~Hidden(c) THEN c \in shown ELSE c \in old}

\* The rows still to come in this frame where the beam makes a difference, or could when
\* the game starts.
Due == {row \in Rows :
          /\ row > beam
          /\ \/ startScreen
             \/ Painted(grid, Grid, row) # grid
             \/ Painted(mushroom_grid, MushroomShown, row) # mushroom_grid}

\* The beam passes the next of them, or reaches the bottom.
Paint ==
  /\ sampled /\ NotOver /\ beam # Bottom
  /\ beam' \in IF Due = {} THEN {Bottom} ELSE {row \in Due : \A other \in Due : row <= other}
  /\ grid' = IF Playing THEN Painted(grid, Grid, beam') ELSE grid
  /\ mushroom_grid' = IF Playing THEN Painted(mushroom_grid, MushroomShown, beam')
                      ELSE mushroom_grid
  /\ UNCHANGED <<Ball_X_Pos, Ball_Y_Pos, jump_state, game_state, mushroom_on, superMario,
                 isAlive, GoomX, sampled>>

----------------------------------------------------------------------------
(* The rising edge of vs *)

GoombaUnburied(killGoomba) ==    \* mutant: the dead body stays where it is
  IF isAlive
    THEN isAlive' = ~killGoomba /\ GoomX' \in {GoomX - 1, GoomX, GoomX + 1} \cap Lo .. Hi
    ELSE UNCHANGED <<isAlive, GoomX>>
Goomba(killGoomba) ==
  IF isAlive
    THEN isAlive' = ~killGoomba /\ GoomX' \in {GoomX - 1, GoomX, GoomX + 1} \cap Lo .. Hi
    ELSE GoomX' = Grave /\ UNCHANGED isAlive

Frame(in) ==
  LET m == Move(in)
  IN  /\ sampled /\ NotOver
      /\ startScreen \/ beam = Bottom
      /\ Ball_X_Pos' = IF startScreen THEN Ball_X_Center ELSE Bits(in.x + m.x)
      /\ Ball_Y_Pos' = IF startScreen THEN Ball_Y_Center(in.big) ELSE Bits(in.y + m.y)
      /\ jump_state' = NextJump(in)
      /\ Goomba(m.killGoomba)
      /\ sampled' = FALSE /\ beam' = Top
      /\ UNCHANGED <<game_state, mushroom_on, superMario, grid, mushroom_grid>>

----------------------------------------------------------------------------

\* The reset button, held for many cycles of the 50 MHz clock but for no edge of vs:
\* the jump machine, whose reset is synchronous to vs, keeps its state.  The beam starts
\* over; what it has painted stays.
Reset ==
  /\ Ball_X_Pos' = Ball_X_Center /\ Ball_Y_Pos' = Ball_Y_Center(FALSE)
  /\ game_state' = "START"
  /\ mushroom_on' = TRUE /\ superMario' = FALSE
  /\ isAlive' = TRUE /\ GoomX' = Hi
  /\ sampled' = FALSE /\ beam' = Top
  /\ UNCHANGED <<jump_state, grid, mushroom_grid>>

Init ==
  /\ Ball_X_Pos = Ball_X_Center /\ Ball_Y_Pos = Ball_Y_Center(FALSE)
  /\ jump_state = 0
  /\ game_state = "START"
  /\ mushroom_on = TRUE /\ superMario = FALSE
  /\ isAlive = TRUE /\ GoomX = Hi
  /\ sampled = FALSE
  /\ grid = {} /\ mushroom_grid = {} /\ beam = Top

Next == Reset \/ Paint \/ \E in \in Seen : Sample(in) \/ Frame(in)
Spec == Init /\ [][Next]_vars

----------------------------------------------------------------------------
(* What makes the level of the code a safe one.  Only the proofs use it: the *)
(* runs take parts of the level.                                             *)

Bumps == Grid \cup PeachGrid
LastColumn == (Ball_X_Max - width) \div 16

PlainLevel ==
  /\ OffGrid \subseteq {{}}
  \* No jump reaches the top of the picture, and the ground is no cell.
  /\ \A c \in Bumps : c[1] \in 12 .. 27
  \* The pit is open, and Mario fits between a cell and the left edge.
  /\ \A c \in Bumps : c[2] \notin {7, 8} /\ 16 * (c[2] - 1) >= Ball_X_Min
  \* There is no ground and no cell to stand on beside those of the last column.
  /\ \A c \in Bumps : c[2] = LastColumn =>
       /\ c[1] < 25
       /\ \A s \in Grid : s[2] \in LastColumn - 1 .. LastColumn + 1 =>
            c[1] \notin s[1] - 3 .. s[1] - 1
  \* No cell lies on the ground near the mushroom.
  /\ \A s \in Grid, g \in MushroomGrid : s[1] = 27 => s[2] \notin g[2] - 2 .. g[2] + 2
  \* The Goomba is far from the pit, from the mushroom, and from cells at its head.
  /\ Hi < Grave
  /\ Hi < 65 \/ Lo > 176
  /\ \A g \in MushroomGrid : Hi < 16 * g[2] - 49 \/ Lo > 16 * g[2] + 49
  /\ \A c \in Bumps : c[1] = 26 => 16 * c[2] + 31 < Lo \/ 16 * c[2] > Hi + 31

\* Nothing is at the place where Mario starts, nor within his first two steps.
ClearStart ==
  \A c \in Grid \cup MushroomGrid \cup PeachGrid :
    16 * c[2] < Ball_X_Center - 17 \/ 16 * c[2] > Ball_X_Center + 18

----------------------------------------------------------------------------
(* Properties *)

\* The type invariant.
TypeOK ==
  /\ Ball_X_Pos \in 0 .. 1023 /\ Ball_Y_Pos \in 0 .. 1023
  /\ jump_state \in 0 .. 20
  /\ game_state \in {"START", "ON", "OFF", "WIN"}
  /\ mushroom_on \in BOOLEAN /\ superMario \in BOOLEAN /\ isAlive \in BOOLEAN
  /\ GoomX \in Lo .. Hi \cup {Grave}
  /\ sampled \in BOOLEAN
  /\ grid \subseteq Grid /\ mushroom_grid \subseteq MushroomGrid
  /\ beam \in Rows \cup {Top, Bottom}

Feet == Ball_Y_Pos + height(superMario)

\* The collisions push Mario sideways by up to a cell, without a look at the edges: they
\* never push him out of the picture.
InWorld == Ball_X_Pos \in Ball_X_Min .. Ball_X_Max - width

\* Mario is below the floor only over the pit, or in the frame in which he has grown and
\* his feet are a cell below the place where they stood.
FeetOnFloor ==
  Playing => \/ Feet <= Ball_Y_Max
             \/ Ball_X_Pos \in 112 - width + 1 .. 143
             \/ superMario /\ sampled /\ Feet = Ball_Y_Max + 16

\* The reset does not reach the jump machine.  What is left in it is never acted on,
\* because a Mario at the start stands on the ground whatever the keys are.
StaleJumpIsHarmless == startScreen => \A in \in Seen : ~current_jumping(in)

\* A fall below the picture is seen before the next frame is worked out from it.
FallSeen == sampled /\ Ball_Y_Pos >= 479 => game_state # "ON"

\* A fall into the pit ends the play: between its walls nothing holds Mario up, not what
\* is read outside the arrays either, whatever the keys are, and the end is seen in time.
InPit == Ball_X_Pos \in 112 .. 143 - width /\ Feet > Ball_Y_Max
FallEndsPlay == /\ FallSeen
                /\ Playing /\ InPit => \A in \in Seen : Signed(Move(in).y) > 0

\* A stomped Goomba is still in its place for a frame.  In that frame it cannot end the
\* game any more, on any keys: Mario is then in the air, where contact does not count.
StompIsSafe ==
  ~isAlive /\ GoomX # Grave => \A in \in Seen : ~Move(in).touched

\* The contact is tested near Mario's head, so that the Goomba never harms the grown one.
GrownIsImmune == superMario /\ Playing => \A in \in Seen : ~Move(in).touched

\* The level is not there yet when the game starts, and its first frame may begin in the
\* middle of the picture: Mario is nowhere near what is missing.
PaintedInTime ==
  Playing /\ grid # Grid =>
    \A in \in Seen :
      Move(in) = Move([in EXCEPT !.arrays.grid = Grid, !.arrays.mushroom = MushroomShown])
=============================================================================
