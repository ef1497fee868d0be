------------------------------- MODULE Motion -------------------------------
(***************************************************************************)
(* The combinational part of ball.sv: from Mario's registers, the keys and *)
(* the Goomba's place it works out the motion of the next frame and the    *)
(* events it causes.  All arithmetic is on 10-bit registers.  The inputs   *)
(* come as a record                                                        *)
(*   [x, y, big, velocity, keycode, keycode2, goomX, goomY, arrays, offGrid] *)
(* where arrays holds the cells that are set in each of the three arrays,  *)
(* and offGrid the arrays that read 1 outside their 30 x 40 cells: the     *)
(* code indexes them below the screen, and a build returns anything.       *)
(***************************************************************************)
EXTENDS Integers

CONSTANTS
  Ball_X_Center, Ball_X_Min, Ball_X_Max,    \* parameters of ball
  Grid,           \* the solid cells <<row, column>>, as Color_Mapper.sv paints them
  MushroomGrid,   \* the cells of the mushroom
  PeachGrid       \* the cells of the princess

ASSUME MotionAssumption ==
  /\ Ball_X_Max \in 16 .. 639
  /\ Ball_X_Min \in 1 .. Ball_X_Max - 16
  /\ Ball_X_Center \in Ball_X_Min .. Ball_X_Max - 16
  /\ Grid \subseteq (0 .. 29) \X (0 .. 39)
  /\ MushroomGrid \subseteq (0 .. 29) \X (0 .. 39)
  /\ PeachGrid \subseteq (0 .. 29) \X (0 .. 39)

Ball_Y_Max == 448
width == 16
height(big) == IF big THEN 32 ELSE 16
CenterOffByOne(big) == 447 - height(big)    \* mutant
Ball_Y_Center(big) == 448 - height(big)

Bits(n) == n % 1024
Signed(n) == IF n < 512 THEN n ELSE n - 1024

Keys == {"none", "A", "D", "W", "S", "Enter"}
pressed(in, key) == in.keycode = key \/ in.keycode2 = key

----------------------------------------------------------------------------
(* The edges and the grid *)

AtLeftLate(in) == in.x < Ball_X_Min    \* mutant
AtLeft(in) == in.x <= Ball_X_Min
AtRight(in) == Bits(in.x + width) >= Ball_X_Max

Cell(y, x) == <<Bits(y) \div 16, Bits(x) \div 16>>

\* An index keeps 5 bits of the row and 6 of the column.
Index(cell) == <<cell[1] % 32, cell[2]>>
Inside(cell) == cell[1] < 30 /\ cell[2] < 40
Reads(a, cell, in) ==
  LET at == Index(cell) IN IF Inside(at) THEN at \in in.arrays[a] ELSE a \in in.offGrid

\* The four corners of Mario moved by m, and the row below the upper one, in cells.
Corners(in, m) ==
  LET top == in.y + m.y   bottom == in.y + height(in.big) + m.y
      left == in.x + m.x  right == in.x + width + m.x
  IN  [tl |-> Cell(top, left), tr |-> Cell(top, right),
       bl |-> Cell(bottom, left), br |-> Cell(bottom, right),
       ml |-> Cell(top + 16, left), mr |-> Cell(top + 16, right)]

Hits(a, c, in) == [k \in DOMAIN c |-> Reads(a, c[k], in)]

\* The motions that put Mario beside, under or upon a cell.
Under(in, cell) == Bits(cell[1] * 16 + 16 - in.y)
Upon(in, cell) == Bits(cell[1] * 16 - in.y - height(in.big))
RightOf(in, cell) == Bits(cell[2] * 16 + 16 - in.x)
LeftOf(in, cell) == Bits(cell[2] * 16 - in.x - width)

----------------------------------------------------------------------------
(* The floor, with a pit from 112 to 143 *)

FloorAt == Nat \ (112 .. 143)
FloorInAir == FloorAt \ (192 .. 223)    \* a gap that only this test has
Below(in, my) == Bits(my + in.y + height(in.big)) >= Ball_Y_Max
OnFloor(in, my, floor) == Below(in, my) /\ {in.x, in.x + width} \cap floor # {}
ClampLittle(in, my, floor) ==    \* mutant: the growth is forgotten
  IF OnFloor(in, my, floor) THEN Bits(Ball_Y_Max - in.y - 16) ELSE my
Clamp(in, my, floor) ==
  IF OnFloor(in, my, floor) THEN Bits(Ball_Y_Max - in.y - height(in.big)) ELSE my

current_jumping(in) ==
  LET h == Hits("grid", Corners(in, [x |-> 0, y |-> 0]), in)
  IN  ~(OnFloor(in, 0, FloorAt) \/ h.bl \/ h.br)

----------------------------------------------------------------------------
(* In the air *)

AirWish(in) ==
  LET fall == Clamp(in, Bits(in.velocity), FloorInAir)
  IN  [y |-> IF (pressed(in, "A") \/ pressed(in, "D")) /\ Signed(in.y) <= 0 THEN 0 ELSE fall,
       x |-> IF pressed(in, "D") THEN (IF AtRight(in) THEN 0 ELSE 1)
             ELSE IF pressed(in, "A") /\ ~AtLeft(in) THEN 1023 ELSE 0]

\* Later tests override earlier ones.
AirBump(h, c, in, my) ==
  CASE h.br -> Upon(in, c.br)
    [] ~h.br /\ h.tr -> Under(in, c.tr)
    [] ~h.br /\ ~h.tr /\ h.bl -> Upon(in, c.bl)
    [] ~h.br /\ ~h.tr /\ ~h.bl /\ h.tl -> Under(in, c.tl)
    [] OTHER -> my

\* Mario's foot comes down on the Goomba.
Stomps(in, m) ==
  LET bottom == Bits(in.y + height(in.big))
  IN  /\ \E foot \in {in.x, in.x + width} :
           Bits(foot + m.x) >= in.goomX /\ Bits(foot + m.x) < Bits(in.goomX + width)
      /\ bottom < in.goomY /\ Bits(bottom + m.y) >= in.goomY

InAir(in) ==
  LET wish == AirWish(in)
      c == Corners(in, wish)
      my == AirBump(Hits("grid", c, in), c, in, wish.y)
  IN  [x |-> wish.x, y |-> AirBump(Hits("peach", c, in), c, in, my),
       killGoomba |-> Stomps(in, [x |-> wish.x, y |-> my]),
       collision |-> FALSE, peach |-> FALSE, touched |-> FALSE]

----------------------------------------------------------------------------
(* On the ground *)

\* The first key decides, the second one may turn a step or a jump into both.
GroundWish(in) ==
  LET k1 == in.keycode   k2 == in.keycode2
      dx == CASE k1 = "A" /\ k2 # "D" -> -1
              [] k1 = "D" /\ k2 # "A" -> 1
              [] k1 = "W" /\ k2 = "A" -> -1
              [] k1 = "W" /\ k2 = "D" -> 1
              [] OTHER -> 0
      up == k1 = "W" \/ (dx # 0 /\ k2 = "W")
      stopped == CASE dx = -1 -> AtLeft(in)
                   [] dx = 1 -> AtRight(in)
                   [] OTHER -> Signed(in.y) <= 0
  IN  IF stopped THEN [x |-> 0, y |-> 0]
      ELSE [x |-> Bits(dx), y |-> IF up THEN Bits(-10) ELSE 0]

\* A collision is resolved upwards when only the feet meet the cells (on_block),
\* and sideways otherwise.
OnBlock(h) == (h.bl /\ ~h.tl) \/ (h.br /\ ~h.tl /\ ~h.bl /\ ~h.tr)

Bump(h, c, in, m) ==
  IF OnBlock(h)
    THEN [x |-> IF h.tr THEN LeftOf(in, c.tr) ELSE m.x,
          y |-> Upon(in, c.bl)]
    ELSE IF h.bl \/ (h.tl /\ ~h.br) THEN [x |-> RightOf(in, c.tl), y |-> 0]
    ELSE IF h.br \/ h.tr THEN [x |-> LeftOf(in, c.tr), y |-> 0]
    ELSE m

\* The middle of the grown Mario.
BumpMiddle(h, c, in, m) ==
  IF OnBlock(h)
    THEN [m EXCEPT !.x = IF h.ml THEN RightOf(in, c.ml)
                         ELSE IF h.mr THEN LeftOf(in, c.mr) ELSE m.x]
    ELSE IF h.bl \/ (h.ml /\ ~h.br) THEN [x |-> RightOf(in, c.ml), y |-> 0]
    ELSE IF h.br \/ h.mr THEN [x |-> LeftOf(in, c.mr), y |-> 0]
    ELSE m

\* Mario walks into the Goomba; the vertical test is in 32 bits.
ChestAtFeet(in, m) == in.y + height(in.big) - 2 + m.y    \* mutant
Chest(in, m) == in.y + 2 + m.y
Touches(in, m) ==
  /\ \E side \in {in.x, in.x + width} :
       Bits(side + m.x) >= in.goomX /\ Bits(side + m.x) <= Bits(in.goomX + width)
  /\ Chest(in, m) >= in.goomY /\ Chest(in, m) <= in.goomY + height(in.big)

OnGround(in) ==
  LET wish == GroundWish(in)
      c == Corners(in, wish)
      h == Hits("grid", c, in)
      p == Hits("peach", c, in)
      mush == Hits("mushroom", c, in)
      m1 == Bump(h, c, in, wish)
      m2 == Bump(p, c, in, m1)
      m3 == IF in.big THEN BumpMiddle(h, c, in, m2) ELSE m2
  IN  [x |-> m3.x, y |-> m3.y, killGoomba |-> FALSE,
       collision |-> \E k \in {"tl", "tr", "bl", "br"} : mush[k],
       peach |-> \E k \in {"tl", "tr", "bl", "br"} : p[k],
       touched |-> Touches(in, m3)]

----------------------------------------------------------------------------

\* The motion and the events of a frame.
Move(in) ==
  LET m == IF current_jumping(in) THEN InAir(in) ELSE OnGround(in)
  IN  [m EXCEPT !.y = Clamp(in, m.y, FloorAt)]
GameOverLate(in, m) == in.y >= 495 \/ m.touched    \* mutant
initGameOver(in, m) == in.y >= 479 \/ m.touched
=============================================================================
