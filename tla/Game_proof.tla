----------------------------- MODULE Game_proof -----------------------------
(***************************************************************************)
(* Proofs about Game.  For every level, patrol, set of keys and every      *)
(* value read outside the arrays: the types, the harmless jump machine     *)
(* after a reset, and that a fall below the picture is seen.  For every    *)
(* level that is plain, as the whole level of Color_Mapper.sv is (MCGame): *)
(* where Mario can be, that a fall into the pit ends the play, and what    *)
(* the Goomba can do to him.  For every level that is clear where he       *)
(* starts: that it is painted in time.                                     *)
(***************************************************************************)
EXTENDS Game, TLAPS

----------------------------------------------------------------------------
(* The operators of Motion *)

\* A register of 10 bits holds 0 to 1023.
LEMMA BitsType == ASSUME NEW n \in Int PROVE Bits(n) \in 0 .. 1023
  BY SMT DEF Bits

\* It is an integer.
LEMMA BitsInt == ASSUME NEW n \in Int PROVE Bits(n) \in Int
  BY SMT DEF Bits

\* The indices of a cell are integers.
LEMMA CellType ==
  ASSUME NEW y \in Int, NEW x \in Int
  PROVE  Cell(y, x)[1] \in Int /\ Cell(y, x)[2] \in Int
  <1>1. Bits(y) \in 0 .. 1023 /\ Bits(x) \in 0 .. 1023
    <2>1. \A i \in Int : Bits(i) \in 0 .. 1023  BY BitsType, SMTT(30)
    <2> QED  BY <2>1, SMTT(30)
  <1>2. Bits(y) \div 16 \in Int /\ Bits(x) \div 16 \in Int  BY <1>1, SMTT(30)
  <1> QED  BY <1>2 DEF Cell

\* What the frame works from.
Input(in) ==
  /\ in.x \in Int /\ in.y \in Int
  /\ in.big \in BOOLEAN
  /\ in.velocity \in Int

IsCell(cell) == cell[1] \in Int /\ cell[2] \in Int
IsCorners(c) ==
  /\ IsCell(c.tl) /\ IsCell(c.tr) /\ IsCell(c.bl) /\ IsCell(c.br)
  /\ IsCell(c.ml) /\ IsCell(c.mr)
IsMotion(m) == "x" \in DOMAIN m /\ "y" \in DOMAIN m /\ m.x \in Int /\ m.y \in Int

\* Mario is 16 or 32 pixels high.
LEMMA HeightType ==
  ASSUME NEW big \in BOOLEAN
  PROVE  height(big) \in {16, 32} /\ height(big) \in Int
  BY DEF height

\* The numbers of an input are integers.
LEMMA InputType ==
  ASSUME NEW in, Input(in)
  PROVE  /\ in.x \in Int /\ in.y \in Int
         /\ height(in.big) \in Int
         /\ in.velocity \in Int
  <1>1. in.x \in Int /\ in.y \in Int /\ in.velocity \in Int  BY DEF Input
  <1>2. in.big \in BOOLEAN  BY DEF Input
  <1>3. height(in.big) \in Int  BY <1>2, HeightType
  <1> QED  BY <1>1, <1>3

\* The corners of Mario, moved by a motion, are cells.
LEMMA CornersType ==
  ASSUME NEW in, Input(in), NEW m, IsMotion(m)
  PROVE  IsCorners(Corners(in, m))
  <1> DEFINE top == in.y + m.y
             bottom == in.y + height(in.big) + m.y
             left == in.x + m.x
             right == in.x + width + m.x
  <1>1. in.x \in Int /\ in.y \in Int /\ height(in.big) \in Int  BY InputType
  <1>0. m.x \in Int /\ m.y \in Int  BY DEF IsMotion
  <1>2. /\ top \in Int /\ bottom \in Int /\ left \in Int /\ right \in Int
        /\ top + 16 \in Int
    BY <1>1, <1>0 DEF width
  <1> HIDE DEF top, bottom, left, right
  <1>3. /\ IsCell(Cell(top, left)) /\ IsCell(Cell(top, right))
        /\ IsCell(Cell(bottom, left)) /\ IsCell(Cell(bottom, right))
        /\ IsCell(Cell(top + 16, left)) /\ IsCell(Cell(top + 16, right))
    BY <1>2, CellType DEF IsCell
  <1> QED  BY <1>3 DEF IsCorners, Corners, top, bottom, left, right

\* Every corrected motion fits its register.
LEMMA PlacedType ==
  ASSUME NEW in, Input(in), NEW cell, IsCell(cell)
  PROVE  /\ Under(in, cell) \in Int /\ Upon(in, cell) \in Int
         /\ RightOf(in, cell) \in Int /\ LeftOf(in, cell) \in Int
  <1> DEFINE up == cell[1] * 16 + 16 - in.y
             down == cell[1] * 16 - in.y - height(in.big)
             after == cell[2] * 16 + 16 - in.x
             before == cell[2] * 16 - in.x - width
  <1>1. in.x \in Int /\ in.y \in Int /\ height(in.big) \in Int  BY InputType
  <1>0. cell[1] \in Int /\ cell[2] \in Int  BY DEF IsCell
  <1>2. up \in Int /\ down \in Int /\ after \in Int /\ before \in Int
    BY <1>1, <1>0 DEF width
  <1> HIDE DEF up, down, after, before
  <1>3. /\ Bits(up) \in Int /\ Bits(down) \in Int
        /\ Bits(after) \in Int /\ Bits(before) \in Int
    BY <1>2, BitsInt
  <1> QED  BY <1>3 DEF Under, Upon, RightOf, LeftOf, up, down, after, before

\* The floor keeps a vertical motion an integer.
LEMMA ClampType ==
  ASSUME NEW in, Input(in), NEW my \in Int, NEW floor
  PROVE  Clamp(in, my, floor) \in Int
  <1> DEFINE room == Ball_Y_Max - in.y - height(in.big)
  <1>1. in.y \in Int /\ height(in.big) \in Int  BY InputType
  <1>2. room \in Int  BY <1>1 DEF Ball_Y_Max
  <1> HIDE DEF room
  <1>3. Bits(room) \in Int  BY <1>2, BitsInt
  <1> QED  BY <1>3 DEF Clamp, room

\* What Mario wants in the air is a motion.
LEMMA AirWishType ==
  ASSUME NEW in, Input(in)
  PROVE  IsMotion(AirWish(in))
  <1> DEFINE fall == Clamp(in, Bits(in.velocity), FloorInAir)
  <1>1. Bits(in.velocity) \in Int  BY InputType, BitsInt
  <1>2. fall \in Int  BY <1>1, ClampType
  <1> HIDE DEF fall
  <1> DEFINE my == IF (pressed(in, "A") \/ pressed(in, "D")) /\ Signed(in.y) <= 0
                     THEN 0 ELSE fall
             mx == IF pressed(in, "D") THEN (IF AtRight(in) THEN 0 ELSE 1)
                   ELSE IF pressed(in, "A") /\ ~AtLeft(in) THEN 1023 ELSE 0
  <1>3. my \in Int /\ mx \in Int  BY <1>2
  <1>4. AirWish(in) = [y |-> my, x |-> mx]  BY DEF AirWish, fall
  <1> HIDE DEF my, mx
  <1> QED  BY <1>3, <1>4 DEF IsMotion

\* So is what the cells leave of it, vertically.
LEMMA AirBumpType ==
  ASSUME NEW in, Input(in), NEW h, NEW c, IsCorners(c), NEW my \in Int
  PROVE  AirBump(h, c, in, my) \in Int
  <1>1. /\ Upon(in, c.br) \in Int /\ Under(in, c.tr) \in Int
        /\ Upon(in, c.bl) \in Int /\ Under(in, c.tl) \in Int
    BY PlacedType DEF IsCorners
  <1> QED  BY <1>1 DEF AirBump

\* The motion in the air.
LEMMA InAirType ==
  ASSUME NEW in, Input(in)
  PROVE  IsMotion(InAir(in))
  <1> DEFINE wish == AirWish(in)
             c == Corners(in, wish)
             my == AirBump(Hits("grid", c, in), c, in, wish.y)
             my2 == AirBump(Hits("peach", c, in), c, in, my)
  <1>1. IsMotion(wish)  BY AirWishType
  <1>2. IsCorners(c)  BY <1>1, CornersType
  <1>3. my \in Int
    <2> HIDE DEF c, wish
    <2>1. wish.y \in Int  BY <1>1 DEF IsMotion
    <2> QED  BY <1>2, <2>1, AirBumpType
  <1>4. my2 \in Int
    <2> HIDE DEF c, my
    <2> QED  BY <1>2, <1>3, AirBumpType
  <1>5. wish.x \in Int  BY <1>1 DEF IsMotion
  <1>6. InAir(in) =
          [x |-> wish.x, y |-> my2, killGoomba |-> InAir(in).killGoomba,
           collision |-> FALSE, peach |-> FALSE, touched |-> FALSE]
    BY DEF InAir
  <1> HIDE DEF wish, my2
  <1> QED  BY <1>4, <1>5, <1>6 DEF IsMotion

\* What the keys ask for on the ground is a motion.
LEMMA GroundWishType ==
  ASSUME NEW in
  PROVE  IsMotion(GroundWish(in))
  <1> DEFINE k1 == in.keycode
             k2 == in.keycode2
             dx == CASE k1 = "A" /\ k2 # "D" -> -1
                     [] k1 = "D" /\ k2 # "A" -> 1
                     [] k1 = "W" /\ k2 = "A" -> -1
                     [] k1 = "W" /\ k2 = "D" -> 1
                     [] OTHER -> 0
             up == k1 = "W" \/ (dx # 0 /\ k2 = "W")
             stopped == CASE dx = -1 -> AtLeft(in)
                          [] dx = 1 -> AtRight(in)
                          [] OTHER -> Signed(in.y) <= 0
  <1>1. dx \in Int  OBVIOUS
  <1>2. GroundWish(in) = IF stopped THEN [x |-> 0, y |-> 0]
                         ELSE [x |-> Bits(dx), y |-> IF up THEN Bits(-10) ELSE 0]
    BY DEF GroundWish
  <1> HIDE DEF dx, up, stopped
  <1>3. Bits(dx) \in Int /\ Bits(-10) \in Int  BY <1>1, BitsInt
  <1> QED  BY <1>2, <1>3 DEF IsMotion

\* A collision on the ground turns a motion into a motion.
LEMMA BumpType ==
  ASSUME NEW in, Input(in), NEW h, NEW c, IsCorners(c), NEW m, IsMotion(m)
  PROVE  IsMotion(Bump(h, c, in, m))
  <1>1. /\ LeftOf(in, c.tr) \in Int /\ Upon(in, c.bl) \in Int
        /\ RightOf(in, c.tl) \in Int
    BY PlacedType DEF IsCorners
  <1> QED  BY <1>1 DEF Bump, IsMotion

\* So does a collision of the grown Mario's middle.
LEMMA BumpMiddleType ==
  ASSUME NEW in, Input(in), NEW h, NEW c, IsCorners(c), NEW m, IsMotion(m)
  PROVE  IsMotion(BumpMiddle(h, c, in, m))
  <1>1. /\ RightOf(in, c.ml) \in Int /\ LeftOf(in, c.ml) \in Int
        /\ RightOf(in, c.mr) \in Int /\ LeftOf(in, c.mr) \in Int
    BY PlacedType DEF IsCorners
  <1>2. ASSUME NEW v \in Int PROVE IsMotion([m EXCEPT !.x = v])
    BY DEF IsMotion
  <1>3. ASSUME NEW v \in Int PROVE IsMotion([x |-> v, y |-> 0])
    BY DEF IsMotion
  <1>4. m.x \in Int  BY DEF IsMotion
  <1> QED  BY <1>1, <1>2, <1>3, <1>4 DEF BumpMiddle

\* The motion on the ground.
LEMMA OnGroundType ==
  ASSUME NEW in, Input(in)
  PROVE  IsMotion(OnGround(in))
  <1> DEFINE wish == GroundWish(in)
             c == Corners(in, wish)
             h == Hits("grid", c, in)
             p == Hits("peach", c, in)
             m1 == Bump(h, c, in, wish)
             m2 == Bump(p, c, in, m1)
             m3 == IF in.big THEN BumpMiddle(h, c, in, m2) ELSE m2
  <1>1. IsMotion(wish)  BY GroundWishType
  <1>2. IsCorners(c)
    <2> HIDE DEF wish
    <2> QED  BY <1>1, CornersType
  <1>3. IsMotion(m1)
    <2> HIDE DEF wish, c, h
    <2> QED  BY <1>1, <1>2, BumpType
  <1>4. IsMotion(m2)
    <2> HIDE DEF c, p, m1
    <2> QED  BY <1>2, <1>3, BumpType
  <1>5. IsMotion(m3)
    <2> HIDE DEF c, h, m2
    <2>1. IsMotion(BumpMiddle(h, c, in, m2))  BY <1>2, <1>4, BumpMiddleType
    <2> QED  BY <1>4, <2>1
  <1>6. OnGround(in) =
          [x |-> m3.x, y |-> m3.y, killGoomba |-> FALSE,
           collision |-> OnGround(in).collision, peach |-> OnGround(in).peach,
           touched |-> OnGround(in).touched]
    BY DEF OnGround
  <1> HIDE DEF m3
  <1> QED  BY <1>5, <1>6 DEF IsMotion

\* The motion of a frame.
LEMMA MoveType ==
  ASSUME NEW in, Input(in)
  PROVE  Move(in).x \in Int /\ Move(in).y \in Int
  <1> DEFINE m == IF current_jumping(in) THEN InAir(in) ELSE OnGround(in)
  <1>1. IsMotion(m)  BY InAirType, OnGroundType
  <1>2. Move(in) = [m EXCEPT !.y = Clamp(in, m.y, FloorAt)]  BY DEF Move
  <1> HIDE DEF m
  <1>3. Clamp(in, m.y, FloorAt) \in Int  BY <1>1, ClampType DEF IsMotion
  <1> QED  BY <1>1, <1>2, <1>3 DEF IsMotion

----------------------------------------------------------------------------
(* The invariant: until the game starts, Mario stands at his place, and if *)
(* he has grown there, his feet may be a cell below the floor.             *)

AtStart ==
  /\ Ball_X_Pos = Ball_X_Center
  /\ Ball_Y_Pos = 432 \/ (superMario /\ Ball_Y_Pos = 416)

IInv == TypeOK /\ (startScreen => AtStart) /\ FallSeen

\* Mario's place is within the registers.
LEMMA StartPlace == Ball_X_Center \in 0 .. 1023 /\ Ball_X_Center \notin 112 .. 127
  BY MotionAssumption, GameAssumption

\* The invariant holds when the game is switched on.
LEMMA InitIInv == Init => IInv
  <1> SUFFICES ASSUME Init PROVE IInv  OBVIOUS
  <1>1. Ball_Y_Pos = 432 /\ sampled = FALSE  BY DEF Init, Ball_Y_Center, height
  <1>2. GoomX \in Lo .. Hi  BY GameAssumption DEF Init
  <1>3. Ball_X_Pos \in 0 .. 1023  BY StartPlace DEF Init
  <1>4. TypeOK
    <2>0. jump_state = 0  BY DEF Init
    <2>1. Ball_Y_Pos \in 0 .. 1023 /\ jump_state \in 0 .. 20  BY <1>1, <2>0
    <2>2. GoomX \in Lo .. Hi \cup {Grave}  BY <1>2
    <2>3. /\ game_state = "START" /\ mushroom_on = TRUE /\ superMario = FALSE
          /\ isAlive = TRUE /\ sampled = FALSE
      BY DEF Init
    <2>4. grid = {} /\ mushroom_grid = {} /\ beam = Top  BY DEF Init
    <2> QED  BY <1>3, <2>1, <2>2, <2>3, <2>4, ZenonT(60) DEF TypeOK
  <1>5. AtStart  BY <1>1 DEF Init, AtStart
  <1> QED  BY <1>1, <1>4, <1>5 DEF IInv, FallSeen

\* What the frame sees are the registers.
LEMMA SeenType ==
  ASSUME IInv, NEW in \in Seen
  PROVE  /\ Input(in)
         /\ in.x = Ball_X_Pos /\ in.y = Ball_Y_Pos /\ in.big = superMario
  <1> DEFINE speed == IF jump_state = 0 THEN 0 ELSE Y_Velocity[jump_state]
  <1>1. speed \in Int
    <2>1. jump_state \in 0 .. 20  BY DEF IInv, TypeOK
    <2>2. \A n \in 1 .. 20 : Y_Velocity[n] \in Int  BY DEF Y_Velocity
    <2> QED  BY <2>1, <2>2
  <1> HIDE DEF speed
  <1>2. /\ in.x = Ball_X_Pos /\ in.y = Ball_Y_Pos /\ in.big = superMario
        /\ in.velocity = speed
    BY DEF Seen, Inputs, speed
  <1>3. Ball_X_Pos \in Int /\ Ball_Y_Pos \in Int /\ superMario \in BOOLEAN
    BY DEF IInv, TypeOK
  <1> QED  BY <1>1, <1>2, <1>3 DEF Input

\* A Mario who has not started is on the ground, whatever the rest of the frame is.
LEMMA StartOnGround ==
  ASSUME IInv, startScreen, NEW in \in Seen
  PROVE  ~current_jumping(in)
  <1>1. in.x = Ball_X_Center /\ in.y = Ball_Y_Pos /\ in.big = superMario
    BY SeenType DEF IInv, AtStart
  <1>2. Ball_Y_Pos + height(superMario) \in {448, 464}
    BY DEF IInv, TypeOK, AtStart, height
  <1>3. Below(in, 0)
    <2> DEFINE feet == Ball_Y_Pos + height(superMario)
    <2>1. Bits(feet) = feet  BY <1>2, SMT DEF Bits
    <2>2. 0 + in.y + height(in.big) = feet
      <3>1. Ball_Y_Pos \in Int /\ height(superMario) \in Int
        BY HeightType DEF IInv, TypeOK
      <3> QED  BY <1>1, <3>1
    <2> HIDE DEF feet
    <2>3. feet >= 448  BY <1>2 DEF feet
    <2> QED  BY <2>1, <2>2, <2>3 DEF Below, Ball_Y_Max
  <1>4. in.x \in FloorAt \/ in.x + width \in FloorAt
    <2> QED  BY <1>1, StartPlace DEF FloorAt, width
  <1>5. OnFloor(in, 0, FloorAt)  BY <1>3, <1>4 DEF OnFloor
  <1> QED  BY <1>5 DEF current_jumping

----------------------------------------------------------------------------
(* The steps *)

\* The machines at 50 MHz preserve it.
LEMMA SampleIInv ==
  ASSUME IInv, NEW in \in Seen, Sample(in)
  PROVE  IInv'
  <1> DEFINE m == Move(in)
  <1>1. /\ game_state' = NextGame(in, m)
        /\ mushroom_on' = (mushroom_on /\ ~m.collision)
        /\ superMario' = (superMario \/ m.collision)
        /\ sampled' = TRUE
        /\ UNCHANGED <<Ball_X_Pos, Ball_Y_Pos, jump_state, isAlive, GoomX,
                       grid, mushroom_grid, beam>>
    BY DEF Sample, level
  <1> HIDE DEF m
  <1>2. game_state' \in {"START", "ON", "OFF", "WIN"}
    BY <1>1 DEF IInv, TypeOK, NextGame
  <1>3. TypeOK'
    <2>1. mushroom_on' \in BOOLEAN /\ superMario' \in BOOLEAN /\ sampled' \in BOOLEAN
      BY <1>1
    <2> QED  BY <1>1, <1>2, <2>1 DEF IInv, TypeOK
  <1>4. (startScreen => AtStart)'
    <2>1. game_state' = "START" => game_state = "START"
      BY <1>1 DEF IInv, TypeOK, NextGame
    <2>2. superMario => superMario'  BY <1>1
    <2> QED  BY <1>1, <2>1, <2>2 DEF IInv, startScreen, AtStart
  <1>5. FallSeen'
    <2> SUFFICES ASSUME Ball_Y_Pos >= 479 PROVE game_state' # "ON"
      BY <1>1 DEF FallSeen
    <2>1. in.y = Ball_Y_Pos  BY SeenType
    <2>2. initGameOver(in, m)  BY <2>1 DEF initGameOver
    <2>3. game_state # "START"
      BY DEF IInv, TypeOK, startScreen, AtStart
    <2> QED  BY <1>1, <2>2, <2>3 DEF IInv, TypeOK, NextGame
  <1> QED  BY <1>3, <1>4, <1>5 DEF IInv

\* The edge of vs preserves it.
LEMMA FrameIInv ==
  ASSUME IInv, NEW in \in Seen, Frame(in)
  PROVE  IInv'
  <1> DEFINE m == Move(in)
  <1>1. /\ Ball_X_Pos' = IF startScreen THEN Ball_X_Center ELSE Bits(in.x + m.x)
        /\ Ball_Y_Pos' = IF startScreen THEN Ball_Y_Center(in.big) ELSE Bits(in.y + m.y)
        /\ jump_state' = NextJump(in)
        /\ Goomba(m.killGoomba)
        /\ sampled' = FALSE
        /\ beam' = Top
        /\ UNCHANGED <<game_state, mushroom_on, superMario, grid, mushroom_grid>>
    BY DEF Frame
  <1>2. m.x \in Int /\ m.y \in Int  BY SeenType, MoveType
  <1> HIDE DEF m
  <1>3. in.x \in Int /\ in.y \in Int /\ in.big = superMario
    BY SeenType, InputType
  <1>4. Ball_Y_Center(in.big) = IF superMario THEN 416 ELSE 432
    BY <1>3 DEF Ball_Y_Center, height
  <1>5. Ball_X_Pos' \in 0 .. 1023 /\ Ball_Y_Pos' \in 0 .. 1023
    <2>1. in.x + m.x \in Int /\ in.y + m.y \in Int  BY <1>2, <1>3
    <2>2. Bits(in.x + m.x) \in 0 .. 1023 /\ Bits(in.y + m.y) \in 0 .. 1023
      BY <2>1, BitsType, SMTT(30)
    <2>3. Ball_Y_Center(in.big) \in 0 .. 1023  BY <1>4
    <2> QED  BY <1>1, <2>2, <2>3, StartPlace
  <1>6. jump_state' \in 0 .. 20  BY <1>1 DEF IInv, TypeOK, NextJump
  <1>7. isAlive' \in BOOLEAN /\ GoomX' \in Lo .. Hi \cup {Grave}
    BY <1>1, ZenonT(60) DEF IInv, TypeOK, Goomba
  <1>8. TypeOK'  BY <1>1, <1>5, <1>6, <1>7, ZenonT(60) DEF IInv, TypeOK
  <1>9. (startScreen => AtStart)'
    BY <1>1, <1>4 DEF startScreen, AtStart
  <1> QED  BY <1>1, <1>8, <1>9 DEF IInv, FallSeen

\* The reset button establishes what it needs of it.
LEMMA ResetIInv ==
  ASSUME IInv, Reset
  PROVE  IInv'
  <1>1. /\ Ball_X_Pos' = Ball_X_Center /\ Ball_Y_Pos' = 432
        /\ game_state' = "START" /\ sampled' = FALSE
        /\ mushroom_on' = TRUE /\ superMario' = FALSE /\ isAlive' = TRUE
        /\ GoomX' \in Lo .. Hi
        /\ jump_state' = jump_state
        /\ beam' = Top /\ UNCHANGED <<grid, mushroom_grid>>
    BY GameAssumption DEF Reset, Ball_Y_Center, height
  <1>2. TypeOK'
    <2>1. Ball_X_Pos' \in 0 .. 1023 /\ Ball_Y_Pos' \in 0 .. 1023  BY <1>1, StartPlace
    <2>2. GoomX' \in Lo .. Hi \cup {Grave}  BY <1>1
    <2>3. jump_state' \in 0 .. 20  BY <1>1 DEF IInv, TypeOK
    <2>4. /\ grid' \subseteq Grid /\ mushroom_grid' \subseteq MushroomGrid
          /\ beam' \in Rows \cup {Top, Bottom}
      BY <1>1 DEF IInv, TypeOK
    <2> QED  BY <1>1, <2>1, <2>2, <2>3, <2>4 DEF TypeOK
  <1> QED  BY <1>1, <1>2 DEF IInv, AtStart, FallSeen

\* What is painted are cells that were set or are shown.
LEMMA PaintedType ==
  ASSUME NEW all, NEW old \in SUBSET all, NEW shown \in SUBSET all, NEW row
  PROVE  Painted(old, shown, row) \subseteq all
  BY DEF Painted

\* The beam preserves it: it moves on to a row of the level or to the bottom, and sets no
\* cell that is not of the level.
LEMMA PaintIInv ==
  ASSUME IInv, Paint
  PROVE  IInv'
  <1>1. /\ beam' \in IF Due = {} THEN {Bottom}
                    ELSE {row \in Due : \A other \in Due : row <= other}
        /\ grid' = IF Playing THEN Painted(grid, Grid, beam') ELSE grid
        /\ mushroom_grid' = IF Playing THEN Painted(mushroom_grid, MushroomShown, beam')
                            ELSE mushroom_grid
        /\ UNCHANGED <<Ball_X_Pos, Ball_Y_Pos, jump_state, game_state, mushroom_on,
                       superMario, isAlive, GoomX, sampled>>
    BY DEF Paint
  <1>2. beam' \in Rows \cup {Top, Bottom}
    <2>1. Due \subseteq Rows  BY DEF Due
    <2> QED  BY <1>1, <2>1
  <1>3. grid' \subseteq Grid
    <2>1. grid \subseteq Grid  BY DEF IInv, TypeOK
    <2> QED  BY <1>1, <2>1, PaintedType
  <1>4. mushroom_grid' \subseteq MushroomGrid
    <2>1. mushroom_grid \subseteq MushroomGrid  BY DEF IInv, TypeOK
    <2>2. MushroomShown \subseteq MushroomGrid  BY DEF MushroomShown
    <2> QED  BY <1>1, <2>1, <2>2, PaintedType
  <1>5. TypeOK'  BY <1>1, <1>2, <1>3, <1>4 DEF IInv, TypeOK
  <1> QED  BY <1>1, <1>5 DEF IInv, startScreen, AtStart, FallSeen

\* Every step preserves it.
LEMMA StepIInv == IInv /\ [Next]_vars => IInv'
  <1> SUFFICES ASSUME IInv, [Next]_vars PROVE IInv'  OBVIOUS
  <1>1. CASE Reset  BY <1>1, ResetIInv
  <1>2. ASSUME NEW in \in Seen, Sample(in) PROVE IInv'  BY <1>2, SampleIInv
  <1>3. ASSUME NEW in \in Seen, Frame(in) PROVE IInv'  BY <1>3, FrameIInv
  <1>4. CASE Paint  BY <1>4, PaintIInv
  <1>5. CASE UNCHANGED vars
    <2>1. /\ UNCHANGED <<Ball_X_Pos, Ball_Y_Pos, jump_state, game_state, mushroom_on,
                         superMario, isAlive, GoomX, sampled>>
          /\ UNCHANGED <<grid, mushroom_grid, beam>>
      BY <1>5 DEF vars, level
    <2> QED  BY <2>1 DEF IInv, TypeOK, startScreen, AtStart, FallSeen
  <1> QED  BY <1>1, <1>2, <1>3, <1>4, <1>5 DEF Next

\* The invariant holds in every state of the game.
THEOREM Invariance == Spec => []IInv
  BY InitIInv, StepIInv, PTL DEF Spec

----------------------------------------------------------------------------
(* The results *)

\* The registers of the game keep their types (ball.sv, jump.sv, gamestate.sv): every
\* position fits 10 bits, the jump machine stays in its 21 states, and only cells of the
\* level are ever set (Color_Mapper.sv).
THEOREM TypeCorrect == Spec => []TypeOK
  <1>1. IInv => TypeOK  BY DEF IInv
  <1> QED  BY <1>1, Invariance, PTL

\* A Mario who falls below line 479 has ended the play before the next frame is worked
\* out, whatever is read outside the arrays.
THEOREM FallAlwaysSeen == Spec => []FallSeen
  <1>1. IInv => FallSeen  BY DEF IInv
  <1> QED  BY <1>1, Invariance, PTL

\* The jump machine, which no reset reaches, is not acted on before the game starts.
THEOREM StaleJumpAlwaysHarmless == Spec => []StaleJumpIsHarmless
  <1>1. IInv => StaleJumpIsHarmless  BY StartOnGround DEF StaleJumpIsHarmless
  <1> QED  BY <1>1, Invariance, PTL

----------------------------------------------------------------------------
(* Motion in a plain level *)

\* The place of Mario after a motion, when the sum fits the register.
LEMMA Added ==
  ASSUME NEW a \in Int, NEW b \in Int, a + b \in 0 .. 1023
  PROVE  Bits(a + Bits(b)) = a + b
  BY SMT DEF Bits

\* What Mario sees when all that is read outside the arrays is 0.
SafeInput(in) ==
  /\ in.x \in Ball_X_Min .. Ball_X_Max - width
  /\ in.y \in 0 .. 484
  /\ in.big \in BOOLEAN
  /\ in.velocity \in -10 .. 6 /\ in.y + in.velocity >= 0
  /\ in.arrays.grid \subseteq Grid
  /\ in.arrays.peach \subseteq PeachGrid
  /\ in.arrays.mushroom \subseteq MushroomGrid
  /\ in.offGrid = {}

\* The edges are on the screen.
LEMMA Edges ==
  /\ Ball_X_Min \in Int /\ Ball_X_Max \in Int
  /\ Ball_X_Min >= 1 /\ Ball_X_Max <= 639
  BY MotionAssumption

\* The numbers in what Mario sees, with their ranges.
LEMMA SafeNumbers ==
  ASSUME NEW in, SafeInput(in)
  PROVE  /\ in.x \in Int /\ in.x \in 1 .. 623 /\ in.y \in Int /\ in.y \in 0 .. 484
         /\ height(in.big) \in {16, 32} /\ height(in.big) \in Int
         /\ in.velocity \in Int
  <1>1. in.x \in Int /\ in.x \in 1 .. 623  BY Edges, SMTT(30) DEF SafeInput, width
  <1>2. height(in.big) \in {16, 32}  BY DEF SafeInput, height
  <1> QED  BY <1>1, <1>2 DEF SafeInput

\* The same numbers under names of their own: x, y, his height and his speed.
Numbers(in, x, y, h, s) ==
  /\ in.x = x /\ in.y = y /\ height(in.big) = h /\ in.velocity = s
  /\ x \in 1 .. 623 /\ x >= Ball_X_Min /\ x <= Ball_X_Max - 16
  /\ y \in 0 .. 484 /\ h \in {16, 32} /\ s \in -10 .. 6 /\ y + s >= 0

\* They exist.
LEMMA InputNumbers ==
  ASSUME NEW in, SafeInput(in)
  PROVE  \E x, y, h, s \in Int : Numbers(in, x, y, h, s)
  <1>1. /\ in.x \in 1 .. 623 /\ in.y \in 0 .. 484 /\ height(in.big) \in {16, 32}
        /\ in.velocity \in -10 .. 6 /\ in.y + in.velocity >= 0
        /\ in.x \in Ball_X_Min .. Ball_X_Max - 16
    BY SafeNumbers DEF SafeInput, width
  <1> DEFINE x == in.x
             y == in.y
             h == height(in.big)
             s == in.velocity
  <1>2. /\ x \in 1 .. 623 /\ y \in 0 .. 484 /\ h \in {16, 32} /\ s \in -10 .. 6
        /\ x \in Ball_X_Min .. Ball_X_Max - 16 /\ y + s >= 0
    BY <1>1
  <1>3. in.x = x /\ in.y = y /\ height(in.big) = h /\ in.velocity = s  OBVIOUS
  <1>4. x \in Int /\ y \in Int /\ h \in Int /\ s \in Int  BY <1>2
  <1> HIDE DEF x, y, h, s
  <1>5. Numbers(in, x, y, h, s)  BY <1>2, <1>3, Edges DEF Numbers
  <1> QED  BY <1>4, <1>5

\* Nothing is read outside the arrays, and inside them only cells of the level.
LEMMA ReadIs ==
  ASSUME NEW in, SafeInput(in), NEW cell
  PROVE  /\ Reads("grid", cell, in) => Index(cell) \in Grid
         /\ Reads("peach", cell, in) => Index(cell) \in PeachGrid
         /\ Reads("mushroom", cell, in) => Index(cell) \in MushroomGrid
  <1>1. in.arrays.grid = in.arrays["grid"] /\ in.arrays.peach = in.arrays["peach"]
        /\ in.arrays.mushroom = in.arrays["mushroom"]
    OBVIOUS
  <1> QED  BY <1>1 DEF Reads, SafeInput

\* The corners of Hits are read one by one.
LEMMA HitsAre ==
  ASSUME NEW in, NEW m, NEW a
  PROVE  LET c == Corners(in, m)
             h == Hits(a, c, in)
         IN  /\ h.tl = Reads(a, c.tl, in) /\ h.tr = Reads(a, c.tr, in)
             /\ h.bl = Reads(a, c.bl, in) /\ h.br = Reads(a, c.br, in)
             /\ h.ml = Reads(a, c.ml, in) /\ h.mr = Reads(a, c.mr, in)
  BY DEF Hits, Corners

Row(t) == t \div 16
Column(s) == s \div 16

\* What is set in a row on the screen, or just below it, is no cell that the index has cut.
LEMMA RowReadIs ==
  ASSUME PlainLevel, NEW in, SafeInput(in), NEW t \in 0 .. 640, NEW k
  PROVE  /\ Reads("grid", <<Row(t), k>>, in) => <<Row(t), k>> \in Grid
         /\ Reads("peach", <<Row(t), k>>, in) => <<Row(t), k>> \in PeachGrid
  <1>1. Row(t) \in 0 .. 40  BY DEF Row
  <1>2. Index(<<Row(t), k>>) = <<Row(t) % 32, k>>  BY DEF Index
  <1>3. <<Row(t) % 32, k>> \in Bumps => Row(t) % 32 \in 12 .. 27  BY DEF PlainLevel
  <1>4. <<Row(t) % 32, k>> \in Bumps => Row(t) % 32 = Row(t)  BY <1>1, <1>3
  <1> QED  BY <1>2, <1>4, ReadIs DEF Bumps

\* The place of the upper left corner, and of the feet, after a motion.
Placed(in, d, v, X, T, B) ==
  X = in.x + d /\ T = in.y + v /\ B = in.y + height(in.big) + v

\* The corners are cells of the rows at T and B, of column L and the next one.
Around(c, L, T, B) ==
  /\ T \in 0 .. 600 /\ B \in 0 .. 640
  /\ c.tl = <<Row(T), L>> /\ c.tr = <<Row(T), L + 1>>
  /\ c.bl = <<Row(B), L>> /\ c.br = <<Row(B), L + 1>>
  /\ c.ml = <<Row(T + 16), L>> /\ c.mr = <<Row(T + 16), L + 1>>

\* The corners of a Mario who stays on the screen, in cells.
LEMMA CornersAre ==
  ASSUME NEW in, SafeInput(in), NEW m, NEW d \in Int, NEW v \in Int,
         m.x = Bits(d), m.y = Bits(v),
         in.x + d \in 0 .. 900, in.y + v \in 0 .. 600,
         NEW c, c = Corners(in, m)
  PROVE  \E X, T, B \in Int : Placed(in, d, v, X, T, B) /\ Around(c, Column(X), T, B)
  <1>0. PICK x, y, h, s \in Int : Numbers(in, x, y, h, s)  BY InputNumbers
  <1>1. /\ in.x = x /\ in.y = y /\ height(in.big) = h
        /\ x \in 1 .. 623 /\ y \in 0 .. 484 /\ h \in {16, 32}
    BY <1>0 DEF Numbers
  <1> DEFINE X == x + d
             T == y + v
             B == y + h + v
  <1>2. X \in Int /\ T \in Int /\ B \in Int  OBVIOUS
  <1>3. /\ Bits(x + Bits(d)) = X /\ Bits(x + width + Bits(d)) = X + 16
        /\ Bits(y + Bits(v)) = T /\ Bits(y + h + Bits(v)) = B
        /\ Bits(y + Bits(v) + 16) = T + 16
    BY <1>1 DEF Bits, width
  <1>4. Column(X + 16) = Column(X) + 1  BY DEF Column
  <1>5. X = in.x + d /\ T = in.y + v /\ B = in.y + height(in.big) + v  BY <1>1
  <1>11. T \in 0 .. 600 /\ B \in 0 .. 640  BY <1>1
  <1> HIDE DEF X, T, B
  <1>6. c = [tl |-> Cell(y + Bits(v), x + Bits(d)),
             tr |-> Cell(y + Bits(v), x + width + Bits(d)),
             bl |-> Cell(y + h + Bits(v), x + Bits(d)),
             br |-> Cell(y + h + Bits(v), x + width + Bits(d)),
             ml |-> Cell(y + Bits(v) + 16, x + Bits(d)),
             mr |-> Cell(y + Bits(v) + 16, x + width + Bits(d))]
    BY <1>1 DEF Corners
  <1>7. /\ Cell(y + Bits(v), x + Bits(d)) = <<Row(T), Column(X)>>
        /\ Cell(y + Bits(v), x + width + Bits(d)) = <<Row(T), Column(X + 16)>>
        /\ Cell(y + h + Bits(v), x + Bits(d)) = <<Row(B), Column(X)>>
        /\ Cell(y + h + Bits(v), x + width + Bits(d)) = <<Row(B), Column(X + 16)>>
        /\ Cell(y + Bits(v) + 16, x + Bits(d)) = <<Row(T + 16), Column(X)>>
        /\ Cell(y + Bits(v) + 16, x + width + Bits(d)) = <<Row(T + 16), Column(X + 16)>>
    BY <1>3 DEF Cell, Row, Column
  <1>8. /\ c.tl = <<Row(T), Column(X)>> /\ c.tr = <<Row(T), Column(X) + 1>>
        /\ c.bl = <<Row(B), Column(X)>> /\ c.br = <<Row(B), Column(X) + 1>>
        /\ c.ml = <<Row(T + 16), Column(X)>> /\ c.mr = <<Row(T + 16), Column(X) + 1>>
    BY <1>4, <1>6, <1>7
  <1>9. Around(c, Column(X), T, B)  BY <1>8, <1>11 DEF Around
  <1>10. Placed(in, d, v, X, T, B)  BY <1>5 DEF Placed
  <1> QED  BY <1>2, <1>9, <1>10

\* On the ground the keys ask for a step to a side that is open, and for a jump.
LEMMA GroundWishIs ==
  ASSUME NEW in, SafeInput(in)
  PROVE  \E d \in -1 .. 1, v \in {0, -10} :
           /\ GroundWish(in).x = Bits(d) /\ GroundWish(in).y = Bits(v)
           /\ in.x + d \in Ball_X_Min .. Ball_X_Max - 16
  <1>0. PICK x, y, h, s \in Int : Numbers(in, x, y, h, s)  BY InputNumbers
  <1>1. in.x = x /\ x \in 1 .. 623 /\ x \in Ball_X_Min .. Ball_X_Max - 16
    BY <1>0, Edges DEF Numbers
  <1> DEFINE k1 == in.keycode
             k2 == in.keycode2
             dx == CASE k1 = "A" /\ k2 # "D" -> -1
                     [] k1 = "D" /\ k2 # "A" -> 1
                     [] k1 = "W" /\ k2 = "A" -> -1
                     [] k1 = "W" /\ k2 = "D" -> 1
                     [] OTHER -> 0
             up == k1 = "W" \/ (dx # 0 /\ k2 = "W")
             stopped == CASE dx = -1 -> AtLeft(in)
                          [] dx = 1 -> AtRight(in)
                          [] OTHER -> Signed(in.y) <= 0
             rise == IF up THEN -10 ELSE 0
  <1>2. dx \in {-1, 0, 1} /\ rise \in {0, -10}  OBVIOUS
  <1>3. GroundWish(in) = IF stopped THEN [x |-> 0, y |-> 0]
                         ELSE [x |-> Bits(dx), y |-> IF up THEN Bits(-10) ELSE 0]
    BY DEF GroundWish
  <1>4. /\ AtLeft(in) <=> x <= Ball_X_Min
        /\ AtRight(in) <=> x + 16 >= Ball_X_Max
    BY <1>1, Edges DEF AtLeft, AtRight, Bits, width
  <1>5. Bits(0) = 0  BY DEF Bits
  <1>6. CASE stopped
    BY <1>1, <1>3, <1>5, <1>6
  <1>7. CASE ~stopped
    <2>1. GroundWish(in).x = Bits(dx) /\ GroundWish(in).y = Bits(rise)  BY <1>3, <1>5, <1>7
    <2>2. x + dx \in Ball_X_Min .. Ball_X_Max - 16
      <3>1. CASE dx = -1  BY <1>1, <1>4, <1>7, <3>1, Edges
      <3>2. CASE dx = 1  BY <1>1, <1>4, <1>7, <3>2, Edges
      <3>3. CASE dx = 0  BY <1>1, <3>3
      <3> QED  BY <1>2, <3>1, <3>2, <3>3
    <2> HIDE DEF dx, rise
    <2>3. dx \in -1 .. 1  BY <1>2
    <2> QED  BY <1>1, <1>2, <2>1, <2>2, <2>3
  <1> QED  BY <1>6, <1>7

\* Where a motion puts Mario's feet upon a cell, beside a cell to his right, to his left.
Landed(in, w) == \E r \in 12 .. 27 : in.y + height(in.big) + w = 16 * r
PushedLeft(in, L, d) == in.x + d = 16 * L /\ \E r \in 12 .. 27 : <<r, L + 1>> \in Bumps
PushedRight(in, L, T, d) ==
  /\ in.x + d = 16 * L + 16
  /\ <<Row(T), L>> \in Bumps \/ (in.big /\ <<Row(T + 16), L>> \in Bumps)

\* What the cells leave of the wish (e, v): sideways it or a push, vertically it, a halt
\* or a landing.
Way(in, L, T, e, v, m) ==
  \E d, w \in Int :
    /\ m.x = Bits(d) /\ m.y = Bits(w)
    /\ d = e \/ PushedLeft(in, L, d) \/ PushedRight(in, L, T, d)
    /\ w = v \/ w = 0 \/ Landed(in, w)

\* What is hit is there.
HitBumps(h, c) ==
  /\ h.tl => c.tl \in Bumps
  /\ h.tr => c.tr \in Bumps
  /\ h.bl => c.bl \in Bumps
  /\ h.br => c.br \in Bumps
  /\ h.ml => c.ml \in Bumps
  /\ h.mr => c.mr \in Bumps

\* A cell is in the rows 12 to 27.
LEMMA BumpRow == ASSUME PlainLevel, NEW r, NEW k, <<r, k>> \in Bumps PROVE r \in 12 .. 27
  BY DEF PlainLevel

\* The collision of the corners leaves such a way.
LEMMA BumpIs ==
  ASSUME PlainLevel, NEW in, SafeInput(in),
         NEW L \in Int, NEW T \in Int, NEW B \in Int, NEW e \in Int, NEW v \in Int,
         NEW c, Around(c, L, T, B), NEW h, HitBumps(h, c),
         NEW m, Way(in, L, T, e, v, m)
  PROVE  Way(in, L, T, e, v, Bump(h, c, in, m))
  <1>1. PICK d0 \in Int, w0 \in Int :
          /\ m.x = Bits(d0) /\ m.y = Bits(w0)
          /\ d0 = e \/ PushedLeft(in, L, d0) \/ PushedRight(in, L, T, d0)
          /\ w0 = v \/ w0 = 0 \/ Landed(in, w0)
    BY DEF Way
  <1>2. in.x \in Int /\ in.y \in Int /\ height(in.big) \in Int  BY SafeNumbers
  <1> DEFINE right == L * 16 + 16 - in.x
             left == (L + 1) * 16 - in.x - width
             land == Row(B) * 16 - in.y - height(in.big)
  <1>3. right \in Int /\ left \in Int  BY <1>2 DEF width
  <1>4. RightOf(in, c.tl) = Bits(right) /\ LeftOf(in, c.tr) = Bits(left)
    BY DEF RightOf, LeftOf, Around
  <1>5. Upon(in, c.bl) = Bits(land)  BY DEF Upon, Around
  <1>6. h.tr \/ h.br => PushedLeft(in, L, left)
    <2>1. in.x + left = 16 * L  BY <1>2 DEF width
    <2>0. c.tr = <<Row(T), L + 1>> /\ c.br = <<Row(B), L + 1>>  BY DEF Around
    <2>2. h.tr \/ h.br => \E r \in 12 .. 27 : <<r, L + 1>> \in Bumps
      BY <2>0, BumpRow DEF HitBumps
    <2> QED  BY <2>1, <2>2 DEF PushedLeft
  <1>7. h.tl => PushedRight(in, L, T, right)
    <2>1. in.x + right = 16 * L + 16  BY <1>2
    <2> QED  BY <2>1 DEF PushedRight, HitBumps, Around
  <1>8. OnBlock(h) => land \in Int /\ Landed(in, land)
    <2> SUFFICES ASSUME OnBlock(h) PROVE land \in Int /\ Landed(in, land)  OBVIOUS
    <2>1. Row(B) \in 12 .. 27  BY BumpRow DEF OnBlock, HitBumps, Around
    <2>2. in.y + height(in.big) + land = 16 * Row(B)  BY <1>2, <2>1
    <2> QED  BY <1>2, <2>1, <2>2 DEF Landed
  <1>9. Bits(0) = 0  BY DEF Bits
  <1> HIDE DEF right, left, land
  <1>10. CASE OnBlock(h)
    <2>1. Bump(h, c, in, m).y = Bits(land)  BY <1>5, <1>10 DEF Bump
    <2>2. Bump(h, c, in, m).x = IF h.tr THEN Bits(left) ELSE Bits(d0)
      BY <1>1, <1>4, <1>10 DEF Bump
    <2> QED  BY <1>1, <1>3, <1>6, <1>8, <1>10, <2>1, <2>2 DEF Way
  <1>11. CASE ~OnBlock(h) /\ (h.bl \/ (h.tl /\ ~h.br))
    <2>1. h.tl  BY <1>11 DEF OnBlock
    <2>2. Bump(h, c, in, m).x = Bits(right) /\ Bump(h, c, in, m).y = Bits(0)
      BY <1>4, <1>9, <1>11 DEF Bump
    <2> QED  BY <1>3, <1>7, <2>1, <2>2 DEF Way
  <1>12. CASE ~OnBlock(h) /\ ~(h.bl \/ (h.tl /\ ~h.br)) /\ (h.br \/ h.tr)
    <2>2. Bump(h, c, in, m).x = Bits(left) /\ Bump(h, c, in, m).y = Bits(0)
      BY <1>4, <1>9, <1>12 DEF Bump
    <2> QED  BY <1>3, <1>6, <1>12, <2>2 DEF Way
  <1>13. CASE ~OnBlock(h) /\ ~(h.bl \/ (h.tl /\ ~h.br)) /\ ~(h.br \/ h.tr)
    <2>1. Bump(h, c, in, m) = m  BY <1>13 DEF Bump
    <2> QED  BY <2>1
  <1> QED  BY <1>10, <1>11, <1>12, <1>13

\* So does the collision of the grown Mario's middle.
LEMMA BumpMiddleIs ==
  ASSUME PlainLevel, NEW in, SafeInput(in), in.big,
         NEW L \in Int, NEW T \in Int, NEW B \in Int, NEW e \in Int, NEW v \in Int,
         NEW c, Around(c, L, T, B), NEW h, HitBumps(h, c),
         NEW m, Way(in, L, T, e, v, m)
  PROVE  Way(in, L, T, e, v, BumpMiddle(h, c, in, m))
  <1>1. PICK d0 \in Int, w0 \in Int :
          /\ m.x = Bits(d0) /\ m.y = Bits(w0)
          /\ d0 = e \/ PushedLeft(in, L, d0) \/ PushedRight(in, L, T, d0)
          /\ w0 = v \/ w0 = 0 \/ Landed(in, w0)
    BY DEF Way
  <1>2. in.x \in Int  BY SafeNumbers
  <1> DEFINE right == L * 16 + 16 - in.x
             left == (L + 1) * 16 - in.x - width
  <1>3. right \in Int /\ left \in Int  BY <1>2 DEF width
  <1>4. RightOf(in, c.ml) = Bits(right) /\ LeftOf(in, c.mr) = Bits(left)
    BY DEF RightOf, LeftOf, Around
  <1>6. h.mr \/ h.br => PushedLeft(in, L, left)
    <2>1. in.x + left = 16 * L  BY <1>2 DEF width
    <2>0. c.mr = <<Row(T + 16), L + 1>> /\ c.br = <<Row(B), L + 1>>  BY DEF Around
    <2>2. h.mr \/ h.br => \E r \in 12 .. 27 : <<r, L + 1>> \in Bumps
      BY <2>0, BumpRow DEF HitBumps
    <2> QED  BY <2>1, <2>2 DEF PushedLeft
  <1>7. h.ml \/ h.tl => PushedRight(in, L, T, right)
    <2>1. in.x + right = 16 * L + 16  BY <1>2
    <2> QED  BY <2>1 DEF PushedRight, HitBumps, Around
  <1>9. Bits(0) = 0  BY DEF Bits
  <1> HIDE DEF right, left
  <1>10. CASE OnBlock(h)
    <2> DEFINE x == IF h.ml THEN Bits(right) ELSE IF h.mr THEN Bits(left) ELSE Bits(d0)
    <2>1. BumpMiddle(h, c, in, m) = [m EXCEPT !.x = x]
      BY <1>1, <1>4, <1>10 DEF BumpMiddle
    <2>2. PICK d \in Int :
            x = Bits(d) /\ (d = e \/ PushedLeft(in, L, d) \/ PushedRight(in, L, T, d))
      BY <1>1, <1>3, <1>6, <1>7
    <2> HIDE DEF x
    <2>3. BumpMiddle(h, c, in, m).y = m.y  BY <2>1
    <2>4. BumpMiddle(h, c, in, m).x \in {x, m.x}  BY <2>1
    <2> QED  BY <1>1, <2>2, <2>3, <2>4 DEF Way
  <1>11. CASE ~OnBlock(h) /\ (h.bl \/ (h.ml /\ ~h.br))
    <2>1. h.tl \/ h.ml  BY <1>11 DEF OnBlock
    <2>2. BumpMiddle(h, c, in, m).x = Bits(right) /\ BumpMiddle(h, c, in, m).y = Bits(0)
      BY <1>4, <1>9, <1>11 DEF BumpMiddle
    <2> QED  BY <1>3, <1>7, <2>1, <2>2 DEF Way
  <1>12. CASE ~OnBlock(h) /\ ~(h.bl \/ (h.ml /\ ~h.br)) /\ (h.br \/ h.mr)
    <2>2. BumpMiddle(h, c, in, m).x = Bits(left) /\ BumpMiddle(h, c, in, m).y = Bits(0)
      BY <1>4, <1>9, <1>12 DEF BumpMiddle
    <2> QED  BY <1>3, <1>6, <1>12, <2>2 DEF Way
  <1>13. CASE ~OnBlock(h) /\ ~(h.bl \/ (h.ml /\ ~h.br)) /\ ~(h.br \/ h.mr)
    <2>1. BumpMiddle(h, c, in, m) = m  BY <1>13 DEF BumpMiddle
    <2> QED  BY <2>1
  <1> QED  BY <1>10, <1>11, <1>12, <1>13

\* In a plain level all that is hit is there.
LEMMA HitBumpsAre ==
  ASSUME PlainLevel, NEW in, SafeInput(in), NEW m, NEW c, c = Corners(in, m),
         NEW L \in Int, NEW T \in Int, NEW B \in Int, Around(c, L, T, B)
  PROVE  /\ HitBumps(Hits("grid", c, in), c)
         /\ HitBumps(Hits("peach", c, in), c)
  <1>1. T \in 0 .. 640 /\ B \in 0 .. 640 /\ T + 16 \in 0 .. 640  BY DEF Around
  <1>2. ASSUME NEW cell \in {c.tl, c.tr, c.bl, c.br, c.ml, c.mr}
        PROVE  /\ Reads("grid", cell, in) => cell \in Bumps
               /\ Reads("peach", cell, in) => cell \in Bumps
    <2>1. PICK t \in {T, B, T + 16}, k \in {L, L + 1} : cell = <<Row(t), k>>  BY DEF Around
    <2>2. t \in 0 .. 640  BY <1>1
    <2> QED  BY <2>1, <2>2, RowReadIs DEF Bumps
  <1> QED  BY <1>2, HitsAre DEF HitBumps

\* What Mario does on the ground.
GroundMotion(in, e, v, X, T, B, L) ==
  /\ e \in -1 .. 1 /\ v \in {0, -10}
  /\ X \in Ball_X_Min .. Ball_X_Max - 16 /\ L = Column(X)
  /\ Placed(in, e, v, X, T, B)
  /\ Way(in, L, T, e, v, OnGround(in))
  /\ OnGround(in).killGoomba = FALSE
  /\ OnGround(in).collision => \E g \in MushroomGrid : g[2] \in {L, L + 1}
  /\ OnGround(in).peach => Row(T) \in 12 .. 27 \/ Row(B) \in 12 .. 27
  /\ OnGround(in).touched = Touches(in, OnGround(in))

\* This is what Mario does on the ground.
LEMMA OnGroundIs ==
  ASSUME PlainLevel, NEW in, SafeInput(in), in.y >= 10
  PROVE  \E e, v, X, T, B, L \in Int : GroundMotion(in, e, v, X, T, B, L)
  <1> DEFINE wish == GroundWish(in)
             c == Corners(in, wish)
             h == Hits("grid", c, in)
             p == Hits("peach", c, in)
             mush == Hits("mushroom", c, in)
             m1 == Bump(h, c, in, wish)
             m2 == Bump(p, c, in, m1)
             m3 == IF in.big THEN BumpMiddle(h, c, in, m2) ELSE m2
  <1>1. PICK e \in -1 .. 1, v \in {0, -10} :
           /\ wish.x = Bits(e) /\ wish.y = Bits(v)
           /\ in.x + e \in Ball_X_Min .. Ball_X_Max - 16
    BY GroundWishIs
  <1>2. PICK X, T, B \in Int : Placed(in, e, v, X, T, B) /\ Around(c, Column(X), T, B)
    <2>1. PICK x, y, h0, s \in Int : Numbers(in, x, y, h0, s)  BY InputNumbers
    <2>2. in.x = x /\ in.y = y /\ x \in 1 .. 623 /\ y \in 10 .. 484  BY <2>1 DEF Numbers
    <2>3. in.x + e \in 0 .. 900 /\ in.y + v \in 0 .. 600  BY <2>2
    <2>4. e \in Int /\ v \in Int  OBVIOUS
    <2> HIDE DEF c, wish
    <2>5. c = Corners(in, wish)  BY DEF c
    <2> QED  BY <1>1, <2>3, <2>4, <2>5, CornersAre
  <1> DEFINE L == Column(X)
  <1>0. X \in Ball_X_Min .. Ball_X_Max - 16  BY <1>1, <1>2 DEF Placed
  <1>3. L \in Int  BY <1>0, Edges DEF Column
  <1>4. Around(c, L, T, B)  BY <1>2
  <1>5. HitBumps(h, c) /\ HitBumps(p, c)
    <2> HIDE DEF L, wish
    <2> QED  BY <1>3, <1>4, HitBumpsAre
  <1>6. Way(in, L, T, e, v, wish)  BY <1>1 DEF Way
  <1>7. Way(in, L, T, e, v, m1)
    <2> HIDE DEF wish, c, h, L
    <2> QED  BY <1>3, <1>4, <1>5, <1>6, BumpIs
  <1>8. Way(in, L, T, e, v, m2)
    <2> HIDE DEF c, p, m1, L
    <2> QED  BY <1>3, <1>4, <1>5, <1>7, BumpIs
  <1>9. Way(in, L, T, e, v, m3)
    <2> HIDE DEF c, h, m2, L
    <2>1. in.big => Way(in, L, T, e, v, BumpMiddle(h, c, in, m2))
      BY <1>3, <1>4, <1>5, <1>8, BumpMiddleIs
    <2> QED  BY <1>8, <2>1
  <1>10. OnGround(in) =
           [x |-> m3.x, y |-> m3.y, killGoomba |-> FALSE,
            collision |-> \E k \in {"tl", "tr", "bl", "br"} : mush[k],
            peach |-> \E k \in {"tl", "tr", "bl", "br"} : p[k],
            touched |-> Touches(in, m3)]
    BY DEF OnGround
  <1>11. OnGround(in).collision => \E g \in MushroomGrid : g[2] \in {L, L + 1}
    <2> SUFFICES ASSUME mush.tl \/ mush.tr \/ mush.bl \/ mush.br
                 PROVE  \E g \in MushroomGrid : g[2] \in {L, L + 1}
      BY <1>10
    <2>1. \E cell \in {c.tl, c.tr, c.bl, c.br} : Index(cell) \in MushroomGrid
      BY ReadIs, HitsAre
    <2>2. \A cell \in {c.tl, c.tr, c.bl, c.br} : Index(cell)[2] \in {L, L + 1}
      BY <1>4 DEF Around, Index
    <2> QED  BY <2>1, <2>2
  <1>12. OnGround(in).peach => Row(T) \in 12 .. 27 \/ Row(B) \in 12 .. 27
    <2> SUFFICES ASSUME p.tl \/ p.tr \/ p.bl \/ p.br
                 PROVE  Row(T) \in 12 .. 27 \/ Row(B) \in 12 .. 27
      BY <1>10
    <2>1. \/ c.tl \in Bumps \/ c.tr \in Bumps \/ c.bl \in Bumps \/ c.br \in Bumps
      BY <1>5 DEF HitBumps
    <2> QED  BY <1>4, <2>1, BumpRow DEF Around
  <1>13. OnGround(in).touched = Touches(in, OnGround(in))
    <2> HIDE DEF m3
    <2> QED  BY <1>10 DEF Touches, Chest
  <1>14. Way(in, L, T, e, v, OnGround(in))
    <2> HIDE DEF m3
    <2> QED  BY <1>9, <1>10 DEF Way
  <1>15. OnGround(in).killGoomba = FALSE  BY <1>10
  <1>16. L = Column(X)  OBVIOUS
  <1> HIDE DEF L
  <1>17. GroundMotion(in, e, v, X, T, B, L)
    BY <1>0, <1>2, <1>11, <1>12, <1>13, <1>14, <1>15, <1>16 DEF GroundMotion
  <1>18. e \in Int /\ v \in Int  OBVIOUS
  <1> QED  BY <1>3, <1>17, <1>18

\* How far he wants to fall, or to rise.  Nothing stops him between the walls of the pit.
Fall(in, v) ==
  /\ \/ v = 0
     \/ v = in.velocity
     \/ in.y + height(in.big) + v = Ball_Y_Max /\ v <= in.velocity
  /\ in.x \in 112 .. 127 /\ in.y > 0 => v = in.velocity

\* In the air the keys move him by a pixel to a side that is open.
LEMMA AirWishIs ==
  ASSUME NEW in, SafeInput(in)
  PROVE  \E d \in -1 .. 1, v \in Int :
           /\ AirWish(in).x = Bits(d) /\ AirWish(in).y = Bits(v)
           /\ in.x + d \in Ball_X_Min .. Ball_X_Max - 16
           /\ Fall(in, v)
  <1>0. PICK x, y, h, s \in Int : Numbers(in, x, y, h, s)  BY InputNumbers
  <1>1. /\ in.x = x /\ x \in 1 .. 623 /\ x \in Ball_X_Min .. Ball_X_Max - 16
        /\ in.y = y /\ y \in 0 .. 484 /\ height(in.big) = h /\ h \in {16, 32}
        /\ in.velocity = s /\ s \in -10 .. 6 /\ y + s >= 0
    BY <1>0, Edges DEF Numbers
  <1> DEFINE fall == Clamp(in, Bits(in.velocity), FloorInAir)
             level0 == (pressed(in, "A") \/ pressed(in, "D")) /\ Signed(in.y) <= 0
             dx == IF pressed(in, "D") THEN (IF AtRight(in) THEN 0 ELSE 1)
                   ELSE IF pressed(in, "A") /\ ~AtLeft(in) THEN -1 ELSE 0
  <1>2. \E v \in Int : fall = Bits(v) /\ Fall(in, v)
    <2>0. OnFloor(in, Bits(in.velocity), FloorInAir) => x \notin 112 .. 127
      BY <1>1 DEF OnFloor, FloorInAir, FloorAt, width
    <2>1. CASE ~OnFloor(in, Bits(in.velocity), FloorInAir)
      <3>1. fall = Bits(s)  BY <1>1, <2>1 DEF Clamp
      <3>2. Fall(in, s)  BY <1>1 DEF Fall
      <3> QED  BY <3>1, <3>2
    <2>2. CASE OnFloor(in, Bits(in.velocity), FloorInAir)
      <3> DEFINE v == Ball_Y_Max - y - h
      <3>1. fall = Bits(v)  BY <1>1, <2>2 DEF Clamp
      <3>2. Bits(Bits(s) + y + h) >= 448  BY <1>1, <2>2 DEF OnFloor, Below, Ball_Y_Max
      <3>3. y + h + s >= 448  BY <1>1, <3>2 DEF Bits
      <3>4. v \in Int /\ y + h + v = Ball_Y_Max /\ v <= s  BY <1>1, <3>3 DEF Ball_Y_Max
      <3>5. Fall(in, v)  BY <1>1, <2>0, <2>2, <3>4 DEF Fall
      <3> HIDE DEF v
      <3> QED  BY <3>1, <3>4, <3>5
    <2> QED  BY <2>1, <2>2
  <1>3. AirWish(in).y = IF level0 THEN 0 ELSE fall  BY DEF AirWish
  <1>4. PICK v \in Int : AirWish(in).y = Bits(v) /\ Fall(in, v)
    <2>1. level0 => Bits(0) = 0 /\ Fall(in, 0)
      <3>1. Signed(y) <= 0 => ~(y > 0)  BY <1>1 DEF Signed
      <3> QED  BY <1>1, <3>1 DEF Bits, Fall
    <2> HIDE DEF fall, level0
    <2> QED  BY <1>2, <1>3, <2>1
  <1>5. AirWish(in).x = Bits(dx)
    <2>0. \A i \in Int : i + 1 = 0 => Bits(i) = 1023  BY DEF Bits
    <2>1. Bits(-1) = 1023  BY <2>0
    <2>3. Bits(0) = 0 /\ Bits(1) = 1  BY DEF Bits
    <2>2. AirWish(in).x = IF pressed(in, "D") THEN (IF AtRight(in) THEN 0 ELSE 1)
                          ELSE IF pressed(in, "A") /\ ~AtLeft(in) THEN 1023 ELSE 0
      BY DEF AirWish
    <2> QED  BY <2>1, <2>2, <2>3
  <1>6. /\ AtLeft(in) <=> x <= Ball_X_Min
        /\ AtRight(in) <=> x + 16 >= Ball_X_Max
    BY <1>1, Edges DEF AtLeft, AtRight, Bits, width
  <1>7. dx \in -1 .. 1 /\ x + dx \in Ball_X_Min .. Ball_X_Max - 16
    BY <1>1, <1>6, Edges
  <1> HIDE DEF dx
  <1> QED  BY <1>1, <1>4, <1>5, <1>7

\* Where a motion puts Mario's head under a cell.
Headed(in, L, T, w) ==
  /\ in.y + w = 16 * Row(T) + 16
  /\ Row(T) \in 12 .. 27
  /\ <<Row(T), L>> \in Bumps \/ <<Row(T), L + 1>> \in Bumps

\* What the cells leave of the fall v.
AirWay(in, L, T, v, w) ==
  w = v \/ (Landed(in, w) /\ w > v - 16) \/ Headed(in, L, T, w)

\* The collision of the corners leaves such a fall.
LEMMA AirBumpIs ==
  ASSUME PlainLevel, NEW in, SafeInput(in),
         NEW L \in Int, NEW T \in Int, NEW B \in Int, NEW v \in Int,
         B = in.y + height(in.big) + v,
         NEW c, Around(c, L, T, B), NEW h, HitBumps(h, c),
         NEW w0 \in Int, AirWay(in, L, T, v, w0)
  PROVE  \E w \in Int : AirBump(h, c, in, Bits(w0)) = Bits(w) /\ AirWay(in, L, T, v, w)
  <1>2. in.y \in Int /\ height(in.big) \in Int  BY SafeNumbers
  <1> DEFINE land == Row(B) * 16 - in.y - height(in.big)
             head == Row(T) * 16 + 16 - in.y
  <1>3. /\ Upon(in, c.br) = Bits(land) /\ Upon(in, c.bl) = Bits(land)
        /\ Under(in, c.tr) = Bits(head) /\ Under(in, c.tl) = Bits(head)
    BY DEF Upon, Under, Around
  <1>4. h.bl \/ h.br => land \in Int /\ AirWay(in, L, T, v, land)
    <2> SUFFICES ASSUME h.bl \/ h.br
                 PROVE  land \in Int /\ Landed(in, land) /\ land > v - 16
      BY DEF AirWay
    <2>1. Row(B) \in 12 .. 27  BY BumpRow DEF HitBumps, Around
    <2>2. in.y + height(in.big) + land = 16 * Row(B)  BY <1>2, <2>1
    <2>3. land \in Int  BY <1>2, <2>1
    <2> HIDE DEF land
    <2>4. 16 * Row(B) > B - 16  BY DEF Row
    <2>5. land > v - 16  BY <1>2, <2>1, <2>2, <2>3, <2>4
    <2> QED  BY <1>2, <2>1, <2>2, <2>3, <2>5 DEF Landed
  <1>5. h.tl \/ h.tr => head \in Int /\ AirWay(in, L, T, v, head)
    <2> SUFFICES ASSUME h.tl \/ h.tr PROVE head \in Int /\ Headed(in, L, T, head)  BY DEF AirWay
    <2>1. Row(T) \in 12 .. 27  BY BumpRow DEF HitBumps, Around
    <2>2. in.y + head = 16 * Row(T) + 16  BY <1>2, <2>1
    <2>3. <<Row(T), L>> \in Bumps \/ <<Row(T), L + 1>> \in Bumps  BY DEF HitBumps, Around
    <2> QED  BY <1>2, <2>1, <2>2, <2>3 DEF Headed
  <1> HIDE DEF land, head
  <1>6. AirBump(h, c, in, Bits(w0)) =
          IF h.br THEN Bits(land) ELSE IF h.tr THEN Bits(head)
          ELSE IF h.bl THEN Bits(land) ELSE IF h.tl THEN Bits(head) ELSE Bits(w0)
    BY <1>3 DEF AirBump
  <1> QED  BY <1>4, <1>5, <1>6

\* What Mario does in the air.
AirMotion(in, d, v, w, X, T, B, L) ==
  /\ d \in -1 .. 1
  /\ X \in Ball_X_Min .. Ball_X_Max - 16 /\ L = Column(X)
  /\ Placed(in, d, v, X, T, B)
  /\ Fall(in, v)
  /\ InAir(in).x = Bits(d) /\ InAir(in).y = Bits(w)
  /\ AirWay(in, L, T, v, w)
  /\ InAir(in).collision = FALSE /\ InAir(in).peach = FALSE
  /\ InAir(in).touched = FALSE
  /\ InAir(in).killGoomba => \E m : m.x = Bits(d) /\ Stomps(in, m)

\* This is it.
LEMMA InAirIs ==
  ASSUME PlainLevel, NEW in, SafeInput(in)
  PROVE  \E d, v, w, X, T, B, L \in Int : AirMotion(in, d, v, w, X, T, B, L)
  <1> DEFINE wish == AirWish(in)
             c == Corners(in, wish)
             h == Hits("grid", c, in)
             p == Hits("peach", c, in)
             my == AirBump(h, c, in, wish.y)
             my2 == AirBump(p, c, in, my)
  <1>1. PICK d \in -1 .. 1, v \in Int :
           /\ wish.x = Bits(d) /\ wish.y = Bits(v)
           /\ in.x + d \in Ball_X_Min .. Ball_X_Max - 16
           /\ Fall(in, v)
    BY AirWishIs
  <1>2. PICK X, T, B \in Int : Placed(in, d, v, X, T, B) /\ Around(c, Column(X), T, B)
    <2>1. PICK x, y, h0, s \in Int : Numbers(in, x, y, h0, s)  BY InputNumbers
    <2>2. /\ in.x = x /\ in.y = y /\ x \in 1 .. 623 /\ y \in 0 .. 484 /\ height(in.big) = h0
          /\ h0 \in {16, 32} /\ in.velocity = s /\ s \in -10 .. 6 /\ y + s >= 0
      BY <2>1 DEF Numbers
    <2>3. in.x + d \in 0 .. 900 /\ in.y + v \in 0 .. 600
      BY <1>1, <2>2 DEF Fall, Ball_Y_Max
    <2>4. d \in Int  OBVIOUS
    <2> HIDE DEF c, wish
    <2>5. c = Corners(in, wish)  BY DEF c
    <2> QED  BY <1>1, <2>3, <2>4, <2>5, CornersAre
  <1> DEFINE L == Column(X)
  <1>3. X \in Ball_X_Min .. Ball_X_Max - 16  BY <1>1, <1>2 DEF Placed
  <1>4. L \in Int  BY <1>3, Edges DEF Column
  <1>5. HitBumps(h, c) /\ HitBumps(p, c)
    <2>1. Around(c, L, T, B)  BY <1>2
    <2> HIDE DEF L, wish
    <2> QED  BY <1>4, <2>1, HitBumpsAre
  <1>14. B = in.y + height(in.big) + v  BY <1>2 DEF Placed
  <1>6. PICK w0 \in Int : my = Bits(w0) /\ AirWay(in, L, T, v, w0)
    <2>1. AirWay(in, L, T, v, v)  BY DEF AirWay
    <2> HIDE DEF c, h, L
    <2> QED  BY <1>1, <1>2, <1>4, <1>5, <1>14, <2>1, AirBumpIs DEF L
  <1>7. PICK w \in Int : my2 = Bits(w) /\ AirWay(in, L, T, v, w)
    <2> HIDE DEF c, p, my, L
    <2> QED  BY <1>2, <1>4, <1>5, <1>6, <1>14, AirBumpIs DEF L
  <1>8. InAir(in) = [x |-> wish.x, y |-> my2, killGoomba |-> Stomps(in, [x |-> wish.x, y |-> my]),
                     collision |-> FALSE, peach |-> FALSE, touched |-> FALSE]
    BY DEF InAir
  <1>9. InAir(in).killGoomba => \E m : m.x = Bits(d) /\ Stomps(in, m)
    <2> DEFINE m == [x |-> wish.x, y |-> my]
    <2>1. m.x = Bits(d)  BY <1>1
    <2>2. InAir(in).killGoomba = Stomps(in, m)  BY <1>8
    <2> HIDE DEF m
    <2> QED  BY <2>1, <2>2
  <1>10. /\ InAir(in).x = Bits(d) /\ InAir(in).y = Bits(w)
         /\ InAir(in).collision = FALSE /\ InAir(in).peach = FALSE
         /\ InAir(in).touched = FALSE
    <2> HIDE DEF wish, my2
    <2> QED  BY <1>1, <1>7, <1>8
  <1>11. L = Column(X)  OBVIOUS
  <1> HIDE DEF L, my, my2, p, h, c, wish
  <1>12. AirMotion(in, d, v, w, X, T, B, L)
    BY <1>1, <1>2, <1>3, <1>7, <1>9, <1>10, <1>11 DEF AirMotion
  <1>13. d \in Int  OBVIOUS
  <1> QED  BY <1>4, <1>12, <1>13

\* The floor at 448 stops every fall outside the pit.
LEMMA ClampIs ==
  ASSUME NEW in, SafeInput(in), NEW w \in Int, in.y + w \in 0 .. 900
  PROVE  \E u \in Int :
           /\ Clamp(in, Bits(w), FloorAt) = Bits(u)
           /\ \/ u = w /\ (in.y + height(in.big) + w < 448 \/ in.x \in 112 .. 127)
              \/ /\ in.y + height(in.big) + w >= 448 /\ in.y + height(in.big) + u = 448
                 /\ in.x \notin 112 .. 127
  <1>0. PICK x, y, h, s \in Int : Numbers(in, x, y, h, s)  BY InputNumbers
  <1>1. /\ in.x = x /\ x \in 1 .. 623
        /\ in.y = y /\ y \in 0 .. 484 /\ height(in.big) = h /\ h \in {16, 32}
    BY <1>0 DEF Numbers
  <1>2. CASE OnFloor(in, Bits(w), FloorAt)
    <2> DEFINE u == Ball_Y_Max - y - h
    <2>1. Clamp(in, Bits(w), FloorAt) = Bits(u)  BY <1>1, <1>2 DEF Clamp
    <2>2. u \in Int /\ y + h + u = 448  BY <1>1 DEF Ball_Y_Max
    <2>3. Bits(Bits(w) + y + h) >= 448  BY <1>1, <1>2 DEF OnFloor, Below, Ball_Y_Max
    <2>4. y + h + w >= 448  BY <1>1, <2>3 DEF Bits
    <2>5. x \notin 112 .. 127  BY <1>1, <1>2 DEF OnFloor, FloorAt, width
    <2> HIDE DEF u
    <2> QED  BY <1>1, <2>1, <2>2, <2>4, <2>5
  <1>3. CASE ~OnFloor(in, Bits(w), FloorAt)
    <2>1. Clamp(in, Bits(w), FloorAt) = Bits(w)  BY <1>3 DEF Clamp
    <2>2. y + h + w < 448 \/ x \in 112 .. 127
      <3>1. CASE ~Below(in, Bits(w))
        <4>1. ~(Bits(Bits(w) + y + h) >= 448)  BY <1>1, <3>1 DEF Below, Ball_Y_Max
        <4>2. y + h + w < 448  BY <1>1, <4>1 DEF Bits
        <4> QED  BY <4>2
      <3>2. CASE {in.x, in.x + width} \cap FloorAt = {}
        <4>1. x \notin FloorAt /\ x + 16 \notin FloorAt  BY <1>1, <3>2 DEF width
        <4>2. x \in 112 .. 143 /\ x + 16 \in 112 .. 143  BY <1>1, <4>1 DEF FloorAt
        <4> QED  BY <1>1, <4>2
      <3> QED  BY <1>3, <3>1, <3>2 DEF OnFloor
    <2> QED  BY <1>1, <2>1, <2>2
  <1> QED  BY <1>2, <1>3

\* A cell that Mario stands on.
StandsOn(in, r, k) ==
  /\ <<r, k>> \in Grid
  /\ in.y + height(in.big) \in 16 * r .. 16 * r + 15
  /\ k \in {Column(in.x), Column(in.x) + 1}

\* A Mario who does not jump stands on the floor or on a cell.
LEMMA Standing ==
  ASSUME PlainLevel, NEW in, SafeInput(in), ~current_jumping(in)
  PROVE  \/ in.y + height(in.big) >= 448 /\ in.x \notin 112 .. 127
         \/ \E r \in 12 .. 27, k \in Int : StandsOn(in, r, k)
  <1>0. PICK x, y, h, s \in Int : Numbers(in, x, y, h, s)  BY InputNumbers
  <1>1. /\ in.x = x /\ x \in 1 .. 623
        /\ in.y = y /\ y \in 0 .. 484 /\ height(in.big) = h /\ h \in {16, 32}
    BY <1>0 DEF Numbers
  <1> DEFINE m == [x |-> 0, y |-> 0]
             c == Corners(in, m)
             hits == Hits("grid", c, in)
  <1>2. OnFloor(in, 0, FloorAt) \/ hits.bl \/ hits.br  BY DEF current_jumping
  <1>3. CASE OnFloor(in, 0, FloorAt)
    <2>1. Bits(0 + y + h) >= 448  BY <1>1, <1>3 DEF OnFloor, Below, Ball_Y_Max
    <2>2. y + h >= 448  BY <1>1, <2>1 DEF Bits
    <2>3. x \notin 112 .. 127  BY <1>1, <1>3 DEF OnFloor, FloorAt, width
    <2> QED  BY <1>1, <2>2, <2>3
  <1>4. CASE hits.bl \/ hits.br
    <2>1. PICK X, T, B \in Int : Placed(in, 0, 0, X, T, B) /\ Around(c, Column(X), T, B)
      <3>1. m.x = Bits(0) /\ m.y = Bits(0)  BY DEF Bits
      <3>2. in.x + 0 \in 0 .. 900 /\ in.y + 0 \in 0 .. 600  BY <1>1
      <3> HIDE DEF m, c
      <3>3. c = Corners(in, m)  BY DEF c
      <3> QED  BY <3>1, <3>2, <3>3, CornersAre
    <2>2. X = x /\ B = y + h  BY <1>1, <2>1 DEF Placed
    <2>3. Reads("grid", c.bl, in) \/ Reads("grid", c.br, in)  BY <1>4, HitsAre
    <2>9. /\ B \in 0 .. 640
          /\ c.bl = <<Row(B), Column(x)>> /\ c.br = <<Row(B), Column(x) + 1>>
      BY <2>1, <2>2 DEF Around
    <2>4. PICK k \in {Column(x), Column(x) + 1} : <<Row(B), k>> \in Grid
      BY <2>3, <2>9, RowReadIs
    <2>5. k \in Int  BY <1>1 DEF Column
    <2>6. Row(B) \in 12 .. 27  BY <2>4, BumpRow DEF Bumps
    <2>7. B \in 16 * Row(B) .. 16 * Row(B) + 15
      <3>1. B \in 0 .. 531  BY <1>1, <2>2
      <3> QED  BY <2>6, <3>1 DEF Row
    <2>8. StandsOn(in, Row(B), k)  BY <1>1, <2>2, <2>4, <2>7 DEF StandsOn
    <2> QED  BY <2>5, <2>6, <2>8
  <1> QED  BY <1>2, <1>3, <1>4

\* No cell is over the pit, nor closer to the left edge than Mario is wide.
LEMMA BumpColumn ==
  ASSUME PlainLevel, NEW r, NEW k, <<r, k>> \in Bumps
  PROVE  /\ r \in 12 .. 27 /\ k \in Int
         /\ k # 7 /\ k # 8 /\ 16 * (k - 1) >= Ball_X_Min
  <1>1. k \in Int  BY MotionAssumption DEF Bumps
  <1> QED  BY <1>1 DEF PlainLevel

\* Beside the cells of the last column there is nothing to stand on.
LEMMA LastBump ==
  ASSUME PlainLevel, NEW r, NEW k, <<r, k>> \in Bumps, k = LastColumn
  PROVE  /\ r < 25
         /\ \A s \in Grid : s[2] \in k - 1 .. k + 1 => r \notin s[1] - 3 .. s[1] - 1
  BY DEF PlainLevel

\* No collision pushes Mario over an edge, and from over the pit none takes him far.
LEMMA Sideways ==
  ASSUME PlainLevel, NEW in, SafeInput(in), ~current_jumping(in),
         NEW e \in -1 .. 1, NEW v \in {0, -10},
         NEW X \in Int, NEW T \in Int, NEW B \in Int, NEW L \in Int,
         X \in Ball_X_Min .. Ball_X_Max - 16, L = Column(X), Placed(in, e, v, X, T, B),
         NEW d \in Int, d = e \/ PushedLeft(in, L, d) \/ PushedRight(in, L, T, d)
  PROVE  /\ in.x + d \in Ball_X_Min .. Ball_X_Max - 16
         /\ in.x + d \in in.x - 16 .. in.x + 17
         /\ in.x \in 112 .. 127 => in.x + d \in 97 .. 143
  <1>0. PICK x, y, h, s \in Int : Numbers(in, x, y, h, s)  BY InputNumbers
  <1>1. /\ in.x = x /\ x \in 1 .. 623 /\ x \in Ball_X_Min .. Ball_X_Max - 16
        /\ in.y = y /\ y \in 0 .. 484 /\ height(in.big) = h /\ h \in {16, 32}
    BY <1>0, Edges DEF Numbers
  <1>2. X = x + e /\ T = y + v  BY <1>1 DEF Placed
  <1>3. 16 * L <= X /\ X <= 16 * L + 15  BY <1>1, <1>2 DEF Column
  <1>4. CASE d = e  BY <1>1, <1>2, <1>4
  <1>5. CASE PushedLeft(in, L, d)
    <2>1. x + d = 16 * L  BY <1>1, <1>5 DEF PushedLeft
    <2>2. PICK r \in 12 .. 27 : <<r, L + 1>> \in Bumps  BY <1>5 DEF PushedLeft
    <2>3. L + 1 # 7 /\ L + 1 # 8 /\ 16 * (L + 1 - 1) >= Ball_X_Min  BY <2>2, BumpColumn
    <2> QED  BY <1>1, <1>2, <1>3, <2>1, <2>3, Edges
  <1>6. CASE PushedRight(in, L, T, d)
    <2>1. x + d = 16 * L + 16  BY <1>1, <1>6 DEF PushedRight
    <2>2. PICK r \in {Row(T), Row(T + 16)} :
             <<r, L>> \in Bumps /\ (r = Row(T) \/ (r = Row(T + 16) /\ in.big))
      BY <1>6 DEF PushedRight
    <2>3. r \in 12 .. 27 /\ L # 7 /\ L # 8  BY <2>2, BumpColumn
    <2>4. 16 * L + 16 <= Ball_X_Max - 16
      <3> SUFFICES ASSUME 16 * L + 16 > Ball_X_Max - 16 PROVE FALSE  BY Edges
      <3>1. L = LastColumn  BY <1>1, <1>2, <1>3, Edges DEF LastColumn, width
      <3>2. r < 25  BY <2>2, <3>1, LastBump
      <3>3. in.big => h = 32  BY <1>1 DEF height
      <3>4. y + h < 448
        <4> SUFFICES ASSUME y + h >= 448 PROVE FALSE  BY <1>1
        <4>1. T \in 400 .. 484 /\ T + 16 \in 400 .. 500  BY <1>1, <1>2
        <4>2. Row(T) >= 25 /\ Row(T + 16) >= 25  BY <4>1 DEF Row
        <4> QED  BY <2>2, <2>3, <3>2, <4>2
      <3>5. PICK q \in 12 .. 27, k \in Int : StandsOn(in, q, k)  BY <1>1, <3>4, Standing
      <3>6. /\ <<q, k>> \in Grid
            /\ y + h \in 16 * q .. 16 * q + 15
            /\ k \in {Column(x), Column(x) + 1}
        BY <1>1, <3>5 DEF StandsOn
      <3>7. k \in L - 1 .. L + 1
        BY <1>1, <1>2, <1>3, <3>6, Edges, SMT DEF Column
      <3>8. r \notin q - 3 .. q - 1
        <4>1. \A cell \in Grid : cell[2] \in L - 1 .. L + 1 => r \notin cell[1] - 3 .. cell[1] - 1
          BY <2>2, <3>1, LastBump
        <4> QED  BY <3>6, <3>7, <4>1
      <3>9. T \in 0 .. 484 /\ T + 16 \in 0 .. 500  BY <1>1, <1>2, <3>6
      <3>10. Row(T) \in q - 3 .. q - 1  BY <1>1, <1>2, <3>6, <3>9 DEF Row
      <3>11. in.big => Row(T + 16) \in q - 3 .. q - 1  BY <1>1, <1>2, <3>3, <3>6, <3>9 DEF Row
      <3> QED  BY <2>2, <3>8, <3>10, <3>11
    <2> QED  BY <1>1, <1>2, <1>3, <2>1, <2>3, <2>4, Edges
  <1> QED  BY <1>4, <1>5, <1>6

\* What a frame does to Mario: he is moved d to the right and u down.
Moved(in, d, u) ==
  /\ Move(in).x = Bits(d) /\ Move(in).y = Bits(u)
  /\ in.x + d \in Ball_X_Min .. Ball_X_Max - 16
  /\ in.x + d \in in.x - 16 .. in.x + 17
  /\ in.y + u \in 0 .. 484
  /\ \/ in.y + height(in.big) + u <= 448
     \/ in.x + d \in 97 .. 143

\* A frame's motion is that in the air or on the ground, stopped by the floor.
LEMMA MoveIs ==
  ASSUME NEW in, NEW m, m = IF current_jumping(in) THEN InAir(in) ELSE OnGround(in)
  PROVE  /\ Move(in).x = m.x
         /\ Move(in).y = Clamp(in, m.y, FloorAt)
         /\ Move(in).killGoomba = m.killGoomba
         /\ Move(in).collision = m.collision
         /\ Move(in).peach = m.peach
         /\ Move(in).touched = m.touched
  <1>1. /\ \A k \in DOMAIN m \ {"y"} : Move(in)[k] = m[k]
        /\ "y" \in DOMAIN m => Move(in).y = Clamp(in, m.y, FloorAt)
        /\ DOMAIN m = {"x", "y", "killGoomba", "collision", "peach", "touched"}
    BY DEF Move, InAir, OnGround
  <1> QED  BY <1>1

\* A Mario who stands is not at the top of the picture.
LEMMA StandingHigh ==
  ASSUME PlainLevel, NEW in, SafeInput(in), ~current_jumping(in)
  PROVE  in.y + height(in.big) >= 192 /\ in.y >= 10
  <1>0. PICK x, y, h, s \in Int : Numbers(in, x, y, h, s)  BY InputNumbers
  <1>1. in.y = y /\ y \in 0 .. 484 /\ height(in.big) = h /\ h \in {16, 32}
    BY <1>0 DEF Numbers
  <1>2. CASE in.y + height(in.big) >= 448  BY <1>1, <1>2
  <1>3. ASSUME NEW r \in 12 .. 27, NEW k \in Int, StandsOn(in, r, k)
        PROVE  in.y + height(in.big) >= 192 /\ in.y >= 10
    <2>1. y + h \in 16 * r .. 16 * r + 15  BY <1>1, <1>3 DEF StandsOn
    <2> QED  BY <1>1, <2>1
  <1> QED  BY <1>2, <1>3, Standing

\* A frame on the ground: Mario keeps well below the top, and on the floor, and stomps
\* nothing.
LEMMA MoveGround ==
  ASSUME PlainLevel, NEW in, SafeInput(in), ~current_jumping(in), in.y <= 478
  PROVE  \E d, u \in Int :
           /\ Moved(in, d, u)
           /\ in.y + height(in.big) + u \in 182 .. 448
           /\ Move(in).killGoomba = FALSE
  <1>0. PICK x, y, h, s \in Int : Numbers(in, x, y, h, s)  BY InputNumbers
  <1>1. /\ in.x = x /\ x \in 1 .. 623
        /\ in.y = y /\ y \in 0 .. 478 /\ height(in.big) = h /\ h \in {16, 32}
    BY <1>0 DEF Numbers
  <1>2. y + h >= 192 /\ y >= 10  BY <1>1, StandingHigh
  <1>13. PICK e, v, X, T, B, L \in Int : GroundMotion(in, e, v, X, T, B, L)
    BY <1>1, <1>2, OnGroundIs
  <1>3. /\ e \in -1 .. 1 /\ v \in {0, -10}
        /\ X \in Ball_X_Min .. Ball_X_Max - 16 /\ L = Column(X)
        /\ Placed(in, e, v, X, T, B)
        /\ Way(in, L, T, e, v, OnGround(in))
        /\ OnGround(in).killGoomba = FALSE
    BY <1>13 DEF GroundMotion
  <1>4. PICK d, w \in Int :
           /\ OnGround(in).x = Bits(d) /\ OnGround(in).y = Bits(w)
           /\ d = e \/ PushedLeft(in, L, d) \/ PushedRight(in, L, T, d)
           /\ w = v \/ w = 0 \/ Landed(in, w)
    BY <1>3 DEF Way
  <1>5. /\ in.x + d \in Ball_X_Min .. Ball_X_Max - 16
        /\ in.x + d \in in.x - 16 .. in.x + 17
        /\ in.x \in 112 .. 127 => in.x + d \in 97 .. 143
    BY <1>3, <1>4, Sideways
  <1>6. y + w \in 0 .. 484 /\ y + h + w >= 182
    <2>1. CASE w = v \/ w = 0  BY <1>1, <1>2, <1>3, <2>1
    <2>2. CASE Landed(in, w)
      <3>1. PICK r \in 12 .. 27 : y + h + w = 16 * r  BY <1>1, <2>2 DEF Landed
      <3> QED  BY <1>1, <3>1
    <2> QED  BY <1>4, <2>1, <2>2
  <1>7. PICK u \in Int :
           /\ Clamp(in, Bits(w), FloorAt) = Bits(u)
           /\ \/ u = w /\ (in.y + height(in.big) + w < 448 \/ in.x \in 112 .. 127)
              \/ /\ in.y + height(in.big) + w >= 448 /\ in.y + height(in.big) + u = 448
                 /\ in.x \notin 112 .. 127
    <2>1. in.y + w \in 0 .. 900  BY <1>1, <1>6
    <2> QED  BY <2>1, ClampIs
  <1>8. /\ Move(in).x = Bits(d) /\ Move(in).y = Bits(u)
        /\ Move(in).killGoomba = FALSE
    BY <1>3, <1>4, <1>7, MoveIs
  <1>9. y + u \in 0 .. 484 /\ y + h + u >= 182  BY <1>1, <1>6, <1>7
  <1>12. y + h + u <= 448
    <2>1. CASE x \notin 112 .. 127  BY <1>1, <1>7, <2>1
    <2>2. CASE x \in 112 .. 127
      <3>1. PICK r \in 12 .. 27, k \in Int : StandsOn(in, r, k)  BY <1>1, <2>2, Standing
      <3>2. y + h <= 447  BY <1>1, <3>1 DEF StandsOn
      <3>3. y + h + w <= 447
        <4>1. CASE w = v \/ w = 0  BY <1>1, <1>3, <3>2, <4>1
        <4>2. CASE Landed(in, w)  BY <1>1, <4>2 DEF Landed
        <4> QED  BY <1>4, <4>1, <4>2
      <3> QED  BY <1>1, <1>7, <3>3
    <2> QED  BY <2>1, <2>2
  <1>10. in.y + height(in.big) + u <= 448 \/ in.x + d \in 97 .. 143
    BY <1>1, <1>5, <1>7
  <1>11. Moved(in, d, u)  BY <1>1, <1>5, <1>8, <1>9, <1>10 DEF Moved
  <1> QED  BY <1>1, <1>8, <1>9, <1>11, <1>12

\* A Mario who is in the air below the floor is between the walls of the pit.
LEMMA AirborneOverPit ==
  ASSUME NEW in, SafeInput(in), current_jumping(in), in.y + height(in.big) >= 448
  PROVE  in.x \in 112 .. 127
  <1>0. PICK x, y, h, s \in Int : Numbers(in, x, y, h, s)  BY InputNumbers
  <1>1. /\ in.x = x /\ x \in 1 .. 623
        /\ in.y = y /\ y \in 0 .. 484 /\ height(in.big) = h /\ h \in {16, 32}
    BY <1>0 DEF Numbers
  <1>2. Bits(0 + y + h) >= 448  BY <1>1 DEF Bits
  <1>3. Below(in, 0)  BY <1>1, <1>2 DEF Below, Ball_Y_Max
  <1>4. {in.x, in.x + width} \cap FloorAt = {}  BY <1>3 DEF current_jumping, OnFloor
  <1>5. x \notin FloorAt /\ x + 16 \notin FloorAt  BY <1>1, <1>4 DEF width
  <1> QED  BY <1>1, <1>5 DEF FloorAt

\* A frame in the air: he rises no faster than his jump says, or is well below the top.
\* He enters the pit only as he falls.
LEMMA MoveAir ==
  ASSUME PlainLevel, NEW in, SafeInput(in), current_jumping(in), in.y <= 478
  PROVE  \E d, u \in Int :
           /\ Moved(in, d, u)
           /\ \/ u >= 0 \/ u >= in.velocity
              \/ in.y + height(in.big) + u >= 182
           /\ in.x + d \in 112 .. 127 =>
                \/ in.y + height(in.big) + u <= 448
                \/ in.velocity > 0
                \/ in.y + height(in.big) > 448 /\ in.x \in 112 .. 127
  <1>0. PICK x, y, h, s \in Int : Numbers(in, x, y, h, s)  BY InputNumbers
  <1>1. /\ in.x = x /\ x \in 1 .. 623
        /\ in.y = y /\ y \in 0 .. 478 /\ height(in.big) = h /\ h \in {16, 32}
        /\ in.velocity = s /\ s \in -10 .. 6 /\ y + s >= 0
    BY <1>0 DEF Numbers
  <1>12. PICK d, v, w, X, T, B, L \in Int : AirMotion(in, d, v, w, X, T, B, L)
    BY InAirIs
  <1>2. /\ d \in -1 .. 1 /\ X \in Ball_X_Min .. Ball_X_Max - 16
        /\ L = Column(X)
        /\ Placed(in, d, v, X, T, B)
        /\ Fall(in, v)
        /\ InAir(in).x = Bits(d) /\ InAir(in).y = Bits(w)
        /\ AirWay(in, L, T, v, w)
    BY <1>12 DEF AirMotion
  <1>3. X = x + d  BY <1>1, <1>2 DEF Placed
  <1>4. v = 0 \/ v = s \/ y + h + v = 448  BY <1>1, <1>2 DEF Fall, Ball_Y_Max
  <1>5. /\ y + w \in 0 .. 484
        /\ w >= 0 \/ w >= s \/ y + h + w >= 182
    <2>1. CASE w = v  BY <1>1, <1>4, <2>1
    <2>2. CASE Landed(in, w)
      <3>1. PICK r \in 12 .. 27 : y + h + w = 16 * r  BY <1>1, <2>2 DEF Landed
      <3> QED  BY <1>1, <3>1
    <2>3. CASE Headed(in, L, T, w)
      <3>1. PICK r \in 12 .. 27 : y + w = 16 * r + 16  BY <1>1, <2>3 DEF Headed
      <3> QED  BY <1>1, <3>1
    <2> QED  BY <1>2, <2>1, <2>2, <2>3 DEF AirWay
  <1>6. PICK u \in Int :
           /\ Clamp(in, Bits(w), FloorAt) = Bits(u)
           /\ \/ u = w /\ (in.y + height(in.big) + w < 448 \/ in.x \in 112 .. 127)
              \/ /\ in.y + height(in.big) + w >= 448 /\ in.y + height(in.big) + u = 448
                 /\ in.x \notin 112 .. 127
    <2>1. in.y + w \in 0 .. 900  BY <1>1, <1>5
    <2> QED  BY <2>1, ClampIs
  <1>7. Move(in).x = Bits(d) /\ Move(in).y = Bits(u)
    BY <1>2, <1>6, MoveIs
  <1>8. y + u \in 0 .. 484 /\ (u >= 0 \/ u >= s \/ y + h + u >= 182)
    BY <1>1, <1>5, <1>6
  <1>9. in.y + height(in.big) + u <= 448 \/ in.x + d \in 97 .. 143
    BY <1>1, <1>2, <1>6
  <1>10. Moved(in, d, u)
    <2>1. in.x + d \in Ball_X_Min .. Ball_X_Max - 16 /\ in.x + d \in in.x - 16 .. in.x + 17
      BY <1>1, <1>2, <1>3
    <2> QED  BY <1>1, <1>7, <1>8, <1>9, <2>1 DEF Moved
  <1>11. x + d \in 112 .. 127 =>
           y + h + u <= 448 \/ s > 0 \/ (y + h > 448 /\ x \in 112 .. 127)
    <2> SUFFICES ASSUME x + d \in 112 .. 127, y + h + u > 448, s <= 0
                 PROVE  y + h > 448 /\ x \in 112 .. 127
      BY <1>1
    <2>1. L = 7  BY <1>2, <1>3 DEF Column
    <2>2. ~Headed(in, L, T, w)  BY <2>1, BumpColumn DEF Headed
    <2>3. ~Landed(in, w)
      <3>1. Landed(in, w) => y + h + w <= 432  BY <1>1 DEF Landed
      <3> QED  BY <1>1, <1>6, <3>1
    <2>4. w = v  BY <1>2, <2>2, <2>3 DEF AirWay
    <2>5. u = w  BY <1>1, <1>6
    <2>6. y + h > 448  BY <1>1, <1>4, <2>4, <2>5
    <2>7. x \in 112 .. 127  BY <1>1, <2>6, AirborneOverPit
    <2> QED  BY <2>6, <2>7
  <1> QED  BY <1>1, <1>2, <1>8, <1>10, <1>11

\* A stomp leaves Mario's head above the Goomba's: the fall of at most 6 pixels, a landing
\* and a bump of his head all end there.
LEMMA StompIs ==
  ASSUME PlainLevel, NEW in, SafeInput(in), in.y <= 478,
         Move(in).killGoomba, in.goomY = 432, in.goomX \in Lo .. Hi
  PROVE  \E u \in Int : Move(in).y = Bits(u) /\ in.y + u \in 0 .. 429
  <1>0. PICK x, y, h, s \in Int : Numbers(in, x, y, h, s)  BY InputNumbers
  <1>1. /\ in.x = x /\ x \in 1 .. 623
        /\ in.y = y /\ y \in 0 .. 478 /\ height(in.big) = h /\ h \in {16, 32}
        /\ in.velocity = s /\ s \in -10 .. 6 /\ y + s >= 0
    BY <1>0 DEF Numbers
  <1>2. current_jumping(in)  BY MoveGround, MoveIs
  <1>3. PICK d, v, w, X, T, B, L \in Int : AirMotion(in, d, v, w, X, T, B, L)
    BY InAirIs
  <1>4. /\ d \in -1 .. 1 /\ X \in Ball_X_Min .. Ball_X_Max - 16
        /\ L = Column(X)
        /\ Placed(in, d, v, X, T, B)
        /\ Fall(in, v)
        /\ InAir(in).x = Bits(d) /\ InAir(in).y = Bits(w)
        /\ AirWay(in, L, T, v, w)
    BY <1>3 DEF AirMotion
  <1>5. PICK m : m.x = Bits(d) /\ Stomps(in, m)
    BY <1>2, <1>3, MoveIs DEF AirMotion
  <1>6. X = x + d /\ T = y + v  BY <1>1, <1>4 DEF Placed
  <1>7. PICK gx \in Lo .. Hi : gx = in.goomX  OBVIOUS
  <1>8. gx \in Int /\ gx \in 0 .. 699  BY <1>7, GameAssumption DEF PlainLevel, Grave
  <1>9. X \in gx - 16 .. gx + 15
    <2>1. PICK foot \in {x, x + 16} :
             Bits(foot + Bits(d)) >= gx /\ Bits(foot + Bits(d)) < Bits(gx + 16)
      BY <1>1, <1>5, <1>7 DEF Stomps, width
    <2>2. Bits(gx + 16) = gx + 16  BY <1>8 DEF Bits
    <2>3. foot + d \in 0 .. 1023 /\ foot \in Int  BY <1>1, <1>4
    <2>4. Bits(foot + Bits(d)) = foot + d  BY <2>3 DEF Bits
    <2> QED  BY <1>1, <1>4, <1>6, <1>8, <2>1, <2>2, <2>4
  <1>10. y + h < 432
    <2>1. Bits(y + h) < 432  BY <1>1, <1>5 DEF Stomps
    <2> QED  BY <1>1, <2>1 DEF Bits
  <1>11. v <= 6 /\ y + v >= 0
    <2>1. v = 0 \/ v = s \/ (y + h + v = 448 /\ v <= s)  BY <1>1, <1>4 DEF Fall, Ball_Y_Max
    <2> QED  BY <1>1, <1>10, <2>1
  <1>12. y + w \in 0 .. 421
    <2>1. CASE w = v  BY <1>1, <1>10, <1>11, <2>1
    <2>2. CASE Landed(in, w)
      <3>1. PICK r \in 12 .. 27 : y + h + w = 16 * r  BY <1>1, <2>2 DEF Landed
      <3> QED  BY <1>1, <3>1
    <2>3. CASE Headed(in, L, T, w)
      <3>1. PICK r \in Int : r = Row(T)  BY <2>3 DEF Headed
      <3>2. /\ y + w = 16 * r + 16 /\ r \in 12 .. 27
            /\ <<r, L>> \in Bumps \/ <<r, L + 1>> \in Bumps
        BY <1>1, <2>3, <3>1 DEF Headed
      <3>3. r <= 26
        <4>1. T \in 0 .. 421  BY <1>1, <1>6, <1>10, <1>11
        <4> QED  BY <3>1, <4>1 DEF Row
      <3>4. r # 26
        <4> SUFFICES ASSUME r = 26 PROVE FALSE  OBVIOUS
        <4>1. PICK k \in {L, L + 1} : <<26, k>> \in Bumps  BY <3>2
        <4>2. 16 * k + 31 < Lo \/ 16 * k > Hi + 31  BY <4>1 DEF PlainLevel
        <4>3. 16 * L <= X /\ X <= 16 * L + 15  BY <1>1, <1>4, <1>6 DEF Column
        <4>4. Lo \in Int /\ Hi \in Int /\ Lo <= gx /\ gx <= Hi  BY <1>7, <1>8, GameAssumption
        <4> QED  BY <1>8, <1>9, <4>1, <4>2, <4>3, <4>4
      <3> QED  BY <1>1, <3>2, <3>3, <3>4
    <2> QED  BY <1>4, <2>1, <2>2, <2>3 DEF AirWay
  <1>13. PICK u \in Int :
           /\ Clamp(in, Bits(w), FloorAt) = Bits(u)
           /\ \/ u = w /\ (in.y + height(in.big) + w < 448 \/ in.x \in 112 .. 127)
              \/ /\ in.y + height(in.big) + w >= 448 /\ in.y + height(in.big) + u = 448
                 /\ in.x \notin 112 .. 127
    <2>1. in.y + w \in 0 .. 900  BY <1>1, <1>12
    <2> QED  BY <2>1, ClampIs
  <1>14. Move(in).y = Bits(u)  BY <1>2, <1>4, <1>13, MoveIs
  <1>15. y + u \in 0 .. 429  BY <1>1, <1>12, <1>13
  <1> QED  BY <1>1, <1>14, <1>15

\* Mario touches a Goomba only beside it, with his head at its height.
LEMMA TouchIs ==
  ASSUME PlainLevel, NEW in, SafeInput(in), Move(in).touched,
         in.goomY \in {432, Grave}, in.goomY = 432 => in.goomX \in 0 .. 699
  PROVE  /\ in.goomY = 432
         /\ in.y \in 430 .. 462
         /\ in.goomX \in in.x - 32 .. in.x + 33
  <1>0. PICK x, y, h, s \in Int : Numbers(in, x, y, h, s)  BY InputNumbers
  <1>1. /\ in.x = x /\ x \in 1 .. 623
        /\ in.y = y /\ y \in 0 .. 484 /\ height(in.big) = h /\ h \in {16, 32}
    BY <1>0 DEF Numbers
  <1>2. ~current_jumping(in)
    <2>1. current_jumping(in) => ~Move(in).touched
      BY InAirIs, MoveIs, ZenonT(60) DEF AirMotion
    <2> QED  BY <2>1
  <1>3. y >= 10  BY <1>1, <1>2, StandingHigh
  <1>4. PICK e, v, X, T, B, L \in Int : GroundMotion(in, e, v, X, T, B, L)
    BY <1>1, <1>3, OnGroundIs
  <1>5. /\ e \in -1 .. 1 /\ v \in {0, -10}
        /\ X \in Ball_X_Min .. Ball_X_Max - 16 /\ L = Column(X)
        /\ Placed(in, e, v, X, T, B)
        /\ Way(in, L, T, e, v, OnGround(in))
    BY <1>4 DEF GroundMotion
  <1>6. PICK d, w \in Int :
           /\ OnGround(in).x = Bits(d) /\ OnGround(in).y = Bits(w)
           /\ d = e \/ PushedLeft(in, L, d) \/ PushedRight(in, L, T, d)
           /\ w = v \/ w = 0 \/ Landed(in, w)
    BY <1>5 DEF Way
  <1>7. x + d \in 0 .. 623 /\ x + d \in x - 16 .. x + 17
    <2>1. /\ in.x + d \in Ball_X_Min .. Ball_X_Max - 16
          /\ in.x + d \in in.x - 16 .. in.x + 17
      BY <1>2, <1>5, <1>6, Sideways
    <2> QED  BY <1>1, <2>1, Edges
  <1>8. Touches(in, OnGround(in))
    <2>1. OnGround(in).touched  BY <1>2, MoveIs
    <2> QED  BY <1>4, <2>1 DEF GroundMotion
  <1>9. PICK gy \in {432, 700} : gy = in.goomY  BY DEF Grave
  <1>10. y + 2 + Bits(w) >= gy /\ y + 2 + Bits(w) <= gy + h
    BY <1>1, <1>6, <1>8, <1>9 DEF Touches, Chest
  <1>12. gy = 432 /\ y \in 430 .. 462
    <2>1. CASE w = 0
      <3>1. Bits(w) = 0  BY <2>1 DEF Bits
      <3> QED  BY <1>1, <1>10, <3>1
    <2>2. CASE w = -10
      <3>0. \A n \in Int : n + 10 = 0 => Bits(n) = 1014  BY DEF Bits
      <3>1. Bits(w) = 1014  BY <2>2, <3>0
      <3> QED  BY <1>1, <1>10, <3>1
    <2>3. CASE Landed(in, w)
      <3>1. PICK r \in 12 .. 27 : y + h + w = 16 * r  BY <1>1, <2>3 DEF Landed
      <3>2. Bits(w) = w \/ Bits(w) = w + 1024  BY <1>1, <3>1 DEF Bits
      <3>3. CASE Bits(w) = w  BY <1>1, <1>10, <3>1, <3>3
      <3>4. CASE Bits(w) = w + 1024  BY <1>1, <1>10, <3>1, <3>4
      <3> QED  BY <3>2, <3>3, <3>4
    <2> QED  BY <1>5, <1>6, <2>1, <2>2, <2>3
  <1>13. PICK gx \in 0 .. 699 : gx = in.goomX  BY <1>9, <1>12
  <1>14. gx \in x - 32 .. x + 33
    <2>1. PICK side \in {x, x + 16} :
             Bits(side + Bits(d)) >= gx /\ Bits(side + Bits(d)) <= Bits(gx + 16)
      BY <1>1, <1>6, <1>8, <1>13 DEF Touches, width
    <2>2. Bits(gx + 16) = gx + 16  BY DEF Bits
    <2>3. side + d \in 0 .. 1023 /\ side \in Int  BY <1>1, <1>7
    <2>4. Bits(side + Bits(d)) = side + d  BY <2>3 DEF Bits
    <2> QED  BY <1>1, <1>7, <2>1, <2>2, <2>4
  <1> QED  BY <1>1, <1>9, <1>12, <1>13, <1>14

\* He touches the mushroom only near it, and not with his feet deep in the last row.
LEMMA CollisionIs ==
  ASSUME PlainLevel, NEW in, SafeInput(in), Move(in).collision
  PROVE  /\ \E g \in MushroomGrid : in.x \in 16 * g[2] - 17 .. 16 * g[2] + 16
         /\ in.y + height(in.big) \notin 433 .. 447
         /\ in.x \in 112 .. 127 => in.y + height(in.big) <= 432
  <1>0. PICK x, y, h, s \in Int : Numbers(in, x, y, h, s)  BY InputNumbers
  <1>1. /\ in.x = x /\ x \in 1 .. 623
        /\ in.y = y /\ y \in 0 .. 484 /\ height(in.big) = h /\ h \in {16, 32}
    BY <1>0 DEF Numbers
  <1>2. ~current_jumping(in)
    <2>1. current_jumping(in) => ~Move(in).collision
      BY InAirIs, MoveIs, ZenonT(60) DEF AirMotion
    <2> QED  BY <2>1
  <1>3. y >= 10  BY <1>1, <1>2, StandingHigh
  <1>4. PICK e, v, X, T, B, L \in Int : GroundMotion(in, e, v, X, T, B, L)
    BY <1>1, <1>3, OnGroundIs
  <1>5. /\ e \in -1 .. 1 /\ L = Column(X) /\ Placed(in, e, v, X, T, B)
        /\ OnGround(in).collision => \E g \in MushroomGrid : g[2] \in {L, L + 1}
    BY <1>4 DEF GroundMotion
  <1>6. PICK g \in MushroomGrid : g[2] \in {L, L + 1}
    BY <1>2, <1>5, MoveIs
  <1>7. X = x + e  BY <1>1, <1>5 DEF Placed
  <1>8. 16 * L <= X /\ X <= 16 * L + 15  BY <1>1, <1>5, <1>7 DEF Column
  <1>9. PICK k \in {L, L + 1} : k = g[2]  BY <1>6
  <1>10. x \in 16 * k - 17 .. 16 * k + 16  BY <1>1, <1>5, <1>7, <1>8
  <1>11. in.y + height(in.big) \notin 433 .. 447
    <2> SUFFICES ASSUME y + h \in 433 .. 447 PROVE FALSE  BY <1>1
    <2>1. PICK q \in 12 .. 27, j \in Int : StandsOn(in, q, j)  BY <1>1, <1>2, Standing
    <2>2. /\ <<q, j>> \in Grid
          /\ y + h \in 16 * q .. 16 * q + 15
          /\ j \in {Column(x), Column(x) + 1}
      BY <1>1, <2>1 DEF StandsOn
    <2>3. q = 27  BY <1>1, <2>2
    <2>4. j \in k - 2 .. k + 2
      <3>1. Column(x) \in L - 1 .. L + 1  BY <1>1, <1>5, <1>7, <1>8 DEF Column
      <3> QED  BY <2>2, <3>1
    <2>5. <<q, j>>[1] = 27 => <<q, j>>[2] \notin g[2] - 2 .. g[2] + 2
      BY <2>2 DEF PlainLevel
    <2> QED  BY <1>9, <2>3, <2>4, <2>5
  <1>12. in.x \in 112 .. 127 => in.y + height(in.big) <= 447
    <2> SUFFICES ASSUME in.x \in 112 .. 127 PROVE y + h <= 447  BY <1>1
    <2>1. PICK r \in 12 .. 27, j \in Int : StandsOn(in, r, j)  BY <1>2, Standing
    <2> QED  BY <1>1, <2>1 DEF StandsOn
  <1> QED  BY <1>1, <1>9, <1>10, <1>11, <1>12

\* Between the walls of the pit and below the floor he falls, by 1 to 22 pixels.
LEMMA PitFall ==
  ASSUME PlainLevel, NEW in, SafeInput(in), in.velocity > 0,
         in.x \in 112 .. 127, in.y + height(in.big) > 448
  PROVE  Signed(Move(in).y) > 0
  <1>0. PICK x, y, h, s \in Int : Numbers(in, x, y, h, s)  BY InputNumbers
  <1>1. /\ in.x = x /\ x \in 112 .. 127
        /\ in.y = y /\ y \in 417 .. 484 /\ height(in.big) = h /\ h \in {16, 32}
        /\ in.velocity = s /\ s \in 1 .. 6 /\ y + h > 448
    BY <1>0 DEF Numbers
  <1>2. current_jumping(in)
    <2> SUFFICES ASSUME ~current_jumping(in) PROVE FALSE  OBVIOUS
    <2>1. PICK r \in 12 .. 27, k \in Int : StandsOn(in, r, k)  BY Standing
    <2> QED  BY <1>1, <2>1 DEF StandsOn
  <1>3. PICK d, v, w, X, T, B, L \in Int : AirMotion(in, d, v, w, X, T, B, L)
    BY InAirIs
  <1>4. Placed(in, d, v, X, T, B) /\ Fall(in, v) /\ AirWay(in, L, T, v, w)
    BY <1>3 DEF AirMotion
  <1>5. v = s  BY <1>1, <1>4 DEF Fall
  <1>6. w \in 1 .. 22
    <2>1. CASE w = v  BY <1>1, <1>5, <2>1
    <2>2. CASE Landed(in, w) /\ w > v - 16
      <3>1. y + h + w <= 432  BY <1>1, <2>2 DEF Landed
      <3> QED  BY <1>1, <1>5, <2>2, <3>1
    <2>3. CASE Headed(in, L, T, w)
      <3>1. y + w = 16 * Row(T) + 16 /\ T = y + v  BY <1>1, <1>4, <2>3 DEF Headed, Placed
      <3>2. Row(T) \in Int /\ 16 * Row(T) <= T /\ 16 * Row(T) + 16 > T  BY DEF Row
      <3> QED  BY <1>1, <1>5, <3>1, <3>2
    <2> QED  BY <1>4, <2>1, <2>2, <2>3 DEF AirWay
  <1>7. PICK u \in Int :
           /\ Clamp(in, Bits(w), FloorAt) = Bits(u)
           /\ \/ u = w /\ (in.y + height(in.big) + w < 448 \/ in.x \in 112 .. 127)
              \/ /\ in.y + height(in.big) + w >= 448 /\ in.y + height(in.big) + u = 448
                 /\ in.x \notin 112 .. 127
    <2>1. in.y + w \in 0 .. 900  BY <1>1, <1>6
    <2> QED  BY <2>1, ClampIs
  <1>8. u = w  BY <1>7
  <1>9. Move(in).y = Bits(w)
    <2>1. InAir(in).y = Bits(w)  BY <1>3 DEF AirMotion
    <2> QED  BY <1>2, <1>7, <1>8, <2>1, MoveIs
  <1>10. Bits(w) = w  BY <1>6 DEF Bits
  <1> QED  BY <1>6, <1>9, <1>10 DEF Signed

\* He does not win as he falls.
LEMMA PeachIs ==
  ASSUME PlainLevel, NEW in, SafeInput(in), Move(in).peach
  PROVE  in.y < 479
  <1>0. PICK x, y, h, s \in Int : Numbers(in, x, y, h, s)  BY InputNumbers
  <1>1. /\ in.x = x /\ x \in 1 .. 623
        /\ in.y = y /\ y \in 0 .. 484 /\ height(in.big) = h /\ h \in {16, 32}
    BY <1>0 DEF Numbers
  <1>2. ~current_jumping(in)
    <2>1. current_jumping(in) => ~Move(in).peach
      BY InAirIs, MoveIs, ZenonT(60) DEF AirMotion
    <2> QED  BY <2>1
  <1>3. y >= 10  BY <1>1, <1>2, StandingHigh
  <1>4. PICK e, v, X, T, B, L \in Int : GroundMotion(in, e, v, X, T, B, L)
    BY <1>1, <1>3, OnGroundIs
  <1>5. Row(T) \in 12 .. 27 \/ Row(B) \in 12 .. 27
    BY <1>2, <1>4, MoveIs DEF GroundMotion
  <1>6. v \in {0, -10} /\ T = y + v /\ B = y + h + v
    BY <1>1, <1>4 DEF GroundMotion, Placed
  <1> SUFFICES ASSUME y >= 479 PROVE FALSE  BY <1>1
  <1>7. T \in 469 .. 484 /\ B \in 480 .. 520  BY <1>1, <1>6
  <1>8. Row(T) \notin 12 .. 27 /\ Row(B) \notin 12 .. 27  BY <1>7 DEF Row
  <1> QED  BY <1>5, <1>8

----------------------------------------------------------------------------
(* The game in a plain level *)

\* Where a Mario may be: a jump of n frames has taken him at most 10 n pixels up from
\* where he stood, a fall ends at 484, and the Goomba is on its patrol.
WayInv ==
  /\ InWorld
  /\ Feet >= 182 - 10 * (IF jump_state <= 15 THEN jump_state ELSE 15)
  /\ Ball_Y_Pos <= 484
  /\ sampled /\ Ball_Y_Pos >= 479 => ~Playing
  /\ isAlive => GoomX \in Lo .. Hi

\* The feet of a Mario who has just grown, by the mushroom.
JustGrown ==
  /\ superMario /\ sampled /\ Feet = 464
  /\ \E g \in MushroomGrid : Ball_X_Pos \in 16 * g[2] - 17 .. 16 * g[2] + 16

\* Where his feet may be while the game is not over.
PlaceInv == NotOver => Feet <= 448 \/ Ball_X_Pos \in 97 .. 143 \/ JustGrown

\* Where he is not while the stomped Goomba is still in its place.
StompInv == ~isAlive /\ GoomX # Grave => Ball_Y_Pos \notin 430 .. 462

\* A Mario who is in the pit is past the top of his jump: the jump machine makes him fall.
PitInv == Playing /\ InPit => jump_state >= 15

\* The inductive invariant.
LevelInv == IInv /\ WayInv /\ PlaceInv /\ StompInv /\ PitInv

\* The feet are a number.
LEMMA FeetType ==
  ASSUME TypeOK
  PROVE  /\ Ball_X_Pos \in Int /\ Ball_Y_Pos \in Int /\ Ball_Y_Pos >= 0
         /\ Feet = Ball_Y_Pos + (IF superMario THEN 32 ELSE 16)
         /\ Feet \in Int
  BY DEF TypeOK, Feet, height

\* Mario starts in the picture.
LEMMA StartInWorld == Ball_X_Center \in Ball_X_Min .. Ball_X_Max - width
  BY MotionAssumption DEF width

\* The initial states satisfy the invariant.
LEMMA InitLevel == Init => LevelInv
  <1> SUFFICES ASSUME Init PROVE LevelInv  OBVIOUS
  <1>1. IInv  BY InitIInv
  <1>2. /\ Ball_X_Pos = Ball_X_Center /\ Ball_Y_Pos = 432 /\ superMario = FALSE
        /\ jump_state = 0 /\ sampled = FALSE /\ isAlive = TRUE /\ GoomX = Hi
    BY DEF Init, Ball_Y_Center, height
  <1>3. Feet = 448  BY <1>2 DEF Feet, height
  <1>4. InWorld  BY <1>2, StartInWorld DEF InWorld
  <1>5. WayInv  BY <1>2, <1>3, <1>4, GameAssumption DEF WayInv
  <1>6. ~Playing  BY DEF Init, Playing
  <1> QED  BY <1>1, <1>2, <1>3, <1>5, <1>6 DEF LevelInv, PlaceInv, StompInv, PitInv

\* What a frame sees in a plain level.
LEMMA SeenSafe ==
  ASSUME PlainLevel, LevelInv, NEW in \in Seen
  PROVE  /\ SafeInput(in)
         /\ in.x = Ball_X_Pos /\ in.y = Ball_Y_Pos /\ in.big = superMario
         /\ in.velocity = IF jump_state = 0 THEN 0 ELSE Y_Velocity[jump_state]
         /\ in.goomX = GoomX /\ in.goomY = GoomY
  <1> DEFINE speed == IF jump_state = 0 THEN 0 ELSE Y_Velocity[jump_state]
  <1>1. /\ in.x = Ball_X_Pos /\ in.y = Ball_Y_Pos /\ in.big = superMario
        /\ in.velocity = speed
        /\ in.goomX = GoomX /\ in.goomY = GoomY
        /\ in.arrays = [grid |-> grid, mushroom |-> mushroom_grid, peach |-> PeachGrid]
        /\ in.offGrid \in IF NearTheRim THEN OffGrid ELSE {{}}
    BY DEF Seen, Inputs
  <1>2. TypeOK  BY DEF LevelInv, IInv
  <1>3. /\ in.arrays.grid \subseteq Grid /\ in.arrays.peach \subseteq PeachGrid
        /\ in.arrays.mushroom \subseteq MushroomGrid
    BY <1>1, <1>2 DEF TypeOK
  <1>4. in.offGrid = {}  BY <1>1 DEF PlainLevel
  <1>5. speed \in -10 .. 6 /\ (jump_state > 14 \/ jump_state = 0 => speed >= 0)
    <2>1. jump_state \in 0 .. 20  BY <1>2 DEF TypeOK
    <2>2. \A n \in 1 .. 20 : Y_Velocity[n] \in -10 .. 6 /\ (n > 14 => Y_Velocity[n] >= 0)
      BY DEF Y_Velocity
    <2> QED  BY <2>1, <2>2
  <1> HIDE DEF speed
  <1>6. Ball_Y_Pos + speed >= 0
    <2>1. jump_state \in 0 .. 20 /\ Ball_Y_Pos \in Int /\ Ball_Y_Pos >= 0  BY <1>2 DEF TypeOK
    <2>2. CASE jump_state > 14 \/ jump_state = 0  BY <1>5, <2>1, <2>2
    <2>3. CASE jump_state <= 14
      <3>0. Feet >= 182 - 10 * jump_state
        <4>1. jump_state <= 15  BY <2>1, <2>3
        <4> QED  BY <4>1 DEF LevelInv, WayInv
      <3>1. Feet >= 42  BY <1>2, <2>1, <2>3, <3>0, FeetType
      <3>2. Ball_Y_Pos >= 10  BY <1>2, <2>1, <3>1, FeetType
      <3> QED  BY <1>5, <2>1, <3>2
    <2> QED  BY <2>1, <2>2, <2>3
  <1>7. Ball_X_Pos \in Ball_X_Min .. Ball_X_Max - width /\ Ball_Y_Pos \in 0 .. 484
    BY <1>2 DEF LevelInv, WayInv, InWorld, TypeOK
  <1>8. superMario \in BOOLEAN  BY <1>2 DEF TypeOK
  <1>9. SafeInput(in)  BY <1>1, <1>3, <1>4, <1>5, <1>6, <1>7, <1>8 DEF SafeInput
  <1> QED  BY <1>1, <1>9 DEF speed

\* The machines at 50 MHz preserve it: the growth puts Mario's feet a cell lower.
LEMMA SampleLevel ==
  ASSUME PlainLevel, LevelInv, NEW in \in Seen, Sample(in)
  PROVE  LevelInv'
  <1> DEFINE m == Move(in)
  <1>1. /\ game_state' = NextGame(in, m)
        /\ superMario' = (superMario \/ m.collision)
        /\ sampled' = TRUE
        /\ UNCHANGED <<Ball_X_Pos, Ball_Y_Pos, jump_state, isAlive, GoomX>>
    BY DEF Sample
  <1>2. m.collision =>
          /\ \E g \in MushroomGrid : in.x \in 16 * g[2] - 17 .. 16 * g[2] + 16
          /\ in.y + height(in.big) \notin 433 .. 447
          /\ in.x \in 112 .. 127 => in.y + height(in.big) <= 432
    BY SeenSafe, CollisionIs
  <1>3. m.peach => in.y < 479  BY SeenSafe, PeachIs
  <1> HIDE DEF m
  <1>4. IInv' /\ TypeOK /\ TypeOK'  BY SampleIInv DEF LevelInv, IInv
  <1>5. in.x = Ball_X_Pos /\ in.y = Ball_Y_Pos /\ in.big = superMario  BY SeenSafe
  <1>6. Feet' = IF superMario' = superMario THEN Feet ELSE Feet + 16
    <2>1. CASE superMario' = superMario  BY <1>1, <2>1 DEF Feet
    <2>2. CASE superMario' # superMario
      <3>1. superMario = FALSE /\ superMario' = TRUE  BY <1>1, <1>4, <2>2, ZenonT(60) DEF TypeOK
      <3>2. Ball_Y_Pos \in Int  BY <1>4 DEF TypeOK
      <3>3. Feet = Ball_Y_Pos + 16 /\ Feet' = Ball_Y_Pos + 32
        BY <1>1, <3>1 DEF Feet, height
      <3> QED  BY <2>2, <3>2, <3>3
    <2> QED  BY <2>1, <2>2
  <1>7. Feet \in Int /\ Feet' \in Int /\ jump_state \in 0 .. 20
    BY <1>4, <1>6, FeetType DEF TypeOK
  <1>8. WayInv'
    <2>1. InWorld' /\ (Ball_Y_Pos <= 484)' /\ (isAlive => GoomX \in Lo .. Hi)'
      BY <1>1 DEF LevelInv, WayInv, InWorld
    <2>2. (Feet >= 182 - 10 * (IF jump_state <= 15 THEN jump_state ELSE 15))'
      BY <1>1, <1>6, <1>7 DEF LevelInv, WayInv
    <2>3. (sampled /\ Ball_Y_Pos >= 479 => ~Playing)'
      <3> SUFFICES ASSUME Ball_Y_Pos >= 479 PROVE game_state' \notin {"ON", "WIN"}
        BY <1>1 DEF Playing
      <3>1. initGameOver(in, m)  BY <1>5 DEF initGameOver
      <3>2. ~m.peach  BY <1>3, <1>4, <1>5 DEF TypeOK
      <3>3. game_state # "START"
        BY DEF LevelInv, IInv, startScreen, AtStart
      <3> QED  BY <1>1, <1>4, <3>1, <3>2, <3>3 DEF NextGame, TypeOK
    <2> QED  BY <2>1, <2>2, <2>3 DEF WayInv
  <1>9. PlaceInv'
    <2> SUFFICES ASSUME NotOver' PROVE (Feet <= 448 \/ Ball_X_Pos \in 97 .. 143 \/ JustGrown)'
      BY DEF PlaceInv
    <2>1. NotOver  BY <1>1, <1>4 DEF NotOver, NextGame, TypeOK
    <2>2. Feet <= 448 \/ Ball_X_Pos \in 97 .. 143 \/ JustGrown
      BY <2>1 DEF LevelInv, PlaceInv
    <2>3. CASE superMario' = superMario
      <3>0. Feet' = Feet /\ Ball_X_Pos' = Ball_X_Pos /\ sampled'  BY <1>1, <1>6, <2>3
      <3>1. JustGrown => JustGrown'  BY <2>3, <3>0 DEF JustGrown
      <3> QED  BY <1>1, <1>6, <2>2, <2>3, <3>1
    <2>4. CASE superMario' # superMario
      <3>1. m.collision /\ superMario' /\ ~superMario  BY <1>1, <1>4, <2>4, ZenonT(60) DEF TypeOK
      <3>2. Feet \notin 433 .. 447
        BY <1>2, <1>5, <3>1 DEF Feet
      <3>3. \E g \in MushroomGrid : Ball_X_Pos \in 16 * g[2] - 17 .. 16 * g[2] + 16
        BY <1>2, <1>5, <3>1
      <3>4. Feet <= 448 \/ Ball_X_Pos \in 97 .. 143  BY <2>2, <3>1 DEF JustGrown
      <3>5. Feet' = Feet + 16  BY <1>6, <2>4
      <3>6. Feet = 448 => JustGrown'
        BY <1>1, <3>1, <3>3, <3>5 DEF JustGrown
      <3> QED  BY <1>1, <1>7, <3>2, <3>4, <3>5, <3>6
    <2> QED  BY <2>3, <2>4
  <1>10. StompInv'  BY <1>1 DEF LevelInv, StompInv
  <1>11. PitInv'
    <2> SUFFICES ASSUME Playing', InPit' PROVE jump_state >= 15  BY <1>1 DEF PitInv
    <2>1. Ball_X_Pos \in 112 .. 127 /\ Feet' > 448
      BY <1>1, <1>4 DEF InPit, width, Ball_Y_Max, TypeOK
    <2>2. Playing
      <3>1. ~startScreen  BY <2>1, StartPlace DEF LevelInv, IInv, AtStart
      <3> QED  BY <1>1, <1>4, <3>1 DEF Playing, startScreen, NextGame, TypeOK
    <2>3. CASE superMario' = superMario
      <3>1. InPit  BY <1>6, <2>1, <2>3 DEF InPit, width, Ball_Y_Max
      <3> QED  BY <2>2, <3>1 DEF LevelInv, PitInv
    <2>4. CASE superMario' # superMario
      <3>1. m.collision  BY <1>1, <1>4, <2>4, ZenonT(60) DEF TypeOK
      <3>2. Feet <= 432  BY <1>2, <1>5, <2>1, <3>1 DEF Feet
      <3> QED  BY <1>6, <1>7, <2>1, <2>4, <3>2
    <2> QED  BY <2>3, <2>4
  <1> QED  BY <1>4, <1>8, <1>9, <1>10, <1>11 DEF LevelInv

\* The reset preserves it.
LEMMA ResetLevel ==
  ASSUME LevelInv, Reset
  PROVE  LevelInv'
  <1>1. /\ Ball_X_Pos' = Ball_X_Center /\ Ball_Y_Pos' = 432 /\ superMario' = FALSE
        /\ jump_state' = jump_state /\ sampled' = FALSE /\ isAlive' = TRUE /\ GoomX' = Hi
    BY DEF Reset, Ball_Y_Center, height
  <1>2. IInv' /\ jump_state \in 0 .. 20  BY ResetIInv DEF LevelInv, IInv, TypeOK
  <1>3. Feet' = 448  BY <1>1 DEF Feet, height
  <1>4. InWorld'  BY <1>1, StartInWorld DEF InWorld
  <1>5. WayInv'  BY <1>1, <1>2, <1>3, <1>4, GameAssumption DEF WayInv
  <1>6. ~Playing'  BY DEF Reset, Playing
  <1> QED  BY <1>1, <1>2, <1>3, <1>5, <1>6 DEF LevelInv, PlaceInv, StompInv, PitInv

\* So does the beam.
LEMMA PaintLevel ==
  ASSUME LevelInv, Paint
  PROVE  LevelInv'
  <1>1. UNCHANGED <<Ball_X_Pos, Ball_Y_Pos, jump_state, game_state, superMario,
                    isAlive, GoomX, sampled>>
    BY DEF Paint
  <1>2. IInv'  BY PaintIInv DEF LevelInv
  <1>3. UNCHANGED <<Feet, JustGrown, InWorld, NotOver, Playing, InPit>>
    BY <1>1 DEF Feet, JustGrown, InWorld, NotOver, Playing, InPit
  <1> QED  BY <1>1, <1>2, <1>3 DEF LevelInv, WayInv, PlaceInv, StompInv, PitInv

\* A frame: what Mario does in it, how far the jump machine goes, and that it has begun to
\* let him fall when he comes into the pit.
LEMMA FrameMotion ==
  ASSUME PlainLevel, LevelInv, ~startScreen, NEW in \in Seen, Frame(in),
         Ball_Y_Pos <= 478
  PROVE  \E d, u \in Int :
           /\ Moved(in, d, u)
           /\ Ball_X_Pos' = Ball_X_Pos + d
           /\ Feet' = Feet + u
           /\ Feet + u >= 182 - 10 * (IF jump_state' <= 15 THEN jump_state' ELSE 15)
           /\ in.x + d \in 112 .. 127 => Feet + u <= 448 \/ jump_state' >= 15
  <1>1. /\ SafeInput(in)
        /\ in.x = Ball_X_Pos /\ in.y = Ball_Y_Pos /\ in.big = superMario
        /\ in.velocity = IF jump_state = 0 THEN 0 ELSE Y_Velocity[jump_state]
    BY SeenSafe
  <1>2. /\ Ball_X_Pos' = Bits(in.x + Move(in).x)
        /\ Ball_Y_Pos' = Bits(in.y + Move(in).y)
        /\ jump_state' = NextJump(in)
        /\ superMario' = superMario
    BY DEF Frame
  <1>3. TypeOK  BY DEF LevelInv, IInv
  <1>4. /\ Ball_X_Pos \in Int /\ Ball_Y_Pos \in Int
        /\ Feet = Ball_Y_Pos + height(superMario)
        /\ height(superMario) \in {16, 32} /\ Feet \in Int
    BY <1>3 DEF TypeOK, Feet, height
  <1>5. jump_state \in 0 .. 20  BY <1>3 DEF TypeOK
  <1>6. Feet >= 182 - 10 * (IF jump_state <= 15 THEN jump_state ELSE 15)
    BY DEF LevelInv, WayInv
  <1>7. ASSUME NEW d \in Int, NEW u \in Int, Moved(in, d, u)
        PROVE  Ball_X_Pos' = Ball_X_Pos + d /\ Feet' = Feet + u
    <2>1. /\ in.x + d \in Ball_X_Min .. Ball_X_Max - 16
          /\ in.y + u \in 0 .. 484
          /\ Move(in).x = Bits(d) /\ Move(in).y = Bits(u)
      BY <1>7 DEF Moved
    <2>2. Ball_X_Pos + d \in 0 .. 1023 /\ Ball_Y_Pos + u \in 0 .. 1023
      BY <1>1, <1>4, <1>7, <2>1, Edges
    <2>3. Ball_X_Pos' = Ball_X_Pos + d
      <3>1. Ball_X_Pos' = Bits(Ball_X_Pos + Bits(d))  BY <1>1, <1>2, <2>1
      <3> QED  BY <1>4, <2>2, <3>1, Added
    <2>4. Ball_Y_Pos' = Ball_Y_Pos + u
      <3>1. Ball_Y_Pos' = Bits(Ball_Y_Pos + Bits(u))  BY <1>1, <1>2, <2>1
      <3> QED  BY <1>4, <2>2, <3>1, Added
    <2>5. Feet' = Ball_Y_Pos' + height(superMario)  BY <1>2 DEF Feet
    <2> QED  BY <1>4, <2>3, <2>4, <2>5
  <1>8. CASE ~current_jumping(in)
    <2>1. PICK d, u \in Int : Moved(in, d, u) /\ in.y + height(in.big) + u \in 182 .. 448
      BY <1>1, <1>8, MoveGround
    <2>2. jump_state' = 0  BY <1>2, <1>8 DEF NextJump
    <2>3. Feet + u >= 182 /\ Feet + u <= 448  BY <1>1, <1>4, <2>1
    <2> QED  BY <1>4, <1>7, <2>1, <2>2, <2>3
  <1>9. CASE current_jumping(in)
    <2>1. PICK d, u \in Int : /\ Moved(in, d, u)
                              /\ \/ u >= 0 \/ u >= in.velocity
                                 \/ in.y + height(in.big) + u >= 182
                              /\ in.x + d \in 112 .. 127 =>
                                   \/ in.y + height(in.big) + u <= 448
                                   \/ in.velocity > 0
                                   \/ /\ in.y + height(in.big) > 448
                                      /\ in.x \in 112 .. 127
      BY <1>1, <1>9, MoveAir
    <2>2. u >= 0 \/ u >= in.velocity \/ Feet + u >= 182  BY <1>1, <1>4, <2>1
    <2>5. in.x + d \in 112 .. 127 => Feet + u <= 448 \/ jump_state' >= 15
      <3> SUFFICES ASSUME in.x + d \in 112 .. 127, Feet + u > 448 PROVE jump_state' >= 15
        BY <1>4, <2>1
      <3>0. in.y + height(in.big) = Feet  BY <1>1, <1>4
      <3>1. in.velocity > 0 \/ (Feet > 448 /\ Ball_X_Pos \in 112 .. 127)
        <4>1. ~(Feet + u <= 448)  BY <1>4
        <4> QED  BY <1>1, <2>1, <3>0, <4>1
      <3>2. jump_state >= 15
        <4>1. CASE in.velocity > 0
          <5>1. \A n \in 1 .. 14 : ~(Y_Velocity[n] > 0)  BY DEF Y_Velocity
          <5> QED  BY <1>1, <1>5, <4>1, <5>1
        <4>2. CASE Feet > 448 /\ Ball_X_Pos \in 112 .. 127
          <5>1. InPit  BY <4>2 DEF InPit, width, Ball_Y_Max
          <5>2. Playing  BY <1>3 DEF Frame, TypeOK, NotOver, startScreen, Playing
          <5> QED  BY <5>1, <5>2 DEF LevelInv, PitInv
        <4> QED  BY <3>1, <4>1, <4>2
      <3> QED  BY <1>2, <1>5, <1>9, <3>2 DEF NextJump
    <2>3. CASE jump_state = 0
      <3>1. jump_state' \in {1, 15}  BY <1>2, <1>9, <2>3 DEF NextJump
      <3>2. in.velocity = 0  BY <1>1, <2>3
      <3>3. Feet >= 182  BY <1>6, <2>3
      <3>4. Feet + u >= 182  BY <1>4, <2>2, <3>2, <3>3
      <3> QED  BY <1>4, <1>7, <2>1, <2>5, <3>1, <3>4
    <2>4. CASE jump_state # 0
      <3>1. jump_state' = IF jump_state = 20 THEN 20 ELSE jump_state + 1
        BY <1>2, <1>9, <2>4 DEF NextJump
      <3>2. in.velocity \in -10 .. 6 /\ (jump_state > 14 => in.velocity >= 0)
        <4>1. \A n \in 1 .. 20 : Y_Velocity[n] \in -10 .. 6 /\ (n > 14 => Y_Velocity[n] >= 0)
          BY DEF Y_Velocity
        <4>2. in.velocity = Y_Velocity[jump_state] /\ jump_state \in 1 .. 20
          BY <1>1, <1>5, <2>4
        <4> QED  BY <4>1, <4>2
      <3>3. PICK s \in -10 .. 6 : s = in.velocity  BY <3>2
      <3>4. PICK j \in 1 .. 20 : j = jump_state  BY <1>5, <2>4
      <3>5. PICK k \in 1 .. 21 : k = jump_state'  BY <3>1, <3>4
      <3>6. k >= j /\ (j <= 14 => k = j + 1)  BY <3>1, <3>4, <3>5
      <3>7. Feet + u >= 182 - 10 * (IF k <= 15 THEN k ELSE 15)
        <4>1. Feet >= 182 - 10 * (IF j <= 15 THEN j ELSE 15)  BY <1>6, <3>4
        <4>2. j > 14 => s >= 0  BY <3>2, <3>3, <3>4
        <4> QED  BY <1>4, <2>2, <3>3, <3>6, <4>1, <4>2
      <3> QED  BY <1>7, <2>1, <2>5, <3>5, <3>7
    <2> QED  BY <2>3, <2>4
  <1> QED  BY <1>8, <1>9

\* A frame preserves the invariant.
LEMMA FrameLevel ==
  ASSUME PlainLevel, LevelInv, NEW in \in Seen, Frame(in)
  PROVE  LevelInv'
  <1>1. /\ sampled /\ NotOver
        /\ startScreen => Ball_X_Pos' = Ball_X_Center
        /\ startScreen => Ball_Y_Pos' = Ball_Y_Center(in.big)
        /\ ~startScreen => Ball_Y_Pos' = Bits(in.y + Move(in).y)
        /\ jump_state' = NextJump(in)
        /\ Goomba(Move(in).killGoomba)
        /\ sampled' = FALSE
        /\ superMario' = superMario
    BY DEF Frame
  <1>2. /\ SafeInput(in)
        /\ in.x = Ball_X_Pos /\ in.y = Ball_Y_Pos /\ in.big = superMario
        /\ in.goomX = GoomX /\ in.goomY = GoomY
    BY SeenSafe
  <1>3. IInv /\ IInv' /\ TypeOK /\ TypeOK'  BY FrameIInv DEF LevelInv, IInv
  <1>4. Ball_X_Pos \in Int /\ Ball_Y_Pos \in Int /\ jump_state' \in 0 .. 20
    BY <1>3 DEF TypeOK
  <1>5. Ball_Y_Pos <= 478
    <2>1. CASE startScreen  BY <1>3, <2>1 DEF IInv, AtStart
    <2>2. CASE ~startScreen
      <3>1. Playing  BY <1>1, <1>3, <2>2 DEF TypeOK, startScreen, NotOver, Playing
      <3> QED  BY <1>1, <1>4, <3>1 DEF LevelInv, WayInv
    <2> QED  BY <2>1, <2>2
  <1>6. /\ isAlive' => GoomX' \in Lo .. Hi
        /\ ~isAlive' /\ GoomX' # Grave => isAlive /\ Move(in).killGoomba
    BY <1>1 DEF Goomba
  <1>7. CASE startScreen
    <2>1. ~current_jumping(in)  BY <1>3, <1>7, StartOnGround
    <2>2. jump_state' = 0  BY <1>1, <2>1 DEF NextJump
    <2>3. Ball_Y_Pos' = 448 - height(superMario) /\ height(superMario) \in {16, 32}
      BY <1>1, <1>2, <1>3, <1>7 DEF Ball_Y_Center, TypeOK, height
    <2>4. Feet' = 448 /\ (Ball_Y_Pos <= 484)'  BY <1>1, <2>3 DEF Feet
    <2>5. InWorld'  BY <1>1, <1>7, StartInWorld DEF InWorld
    <2>6. WayInv'  BY <1>1, <1>6, <2>2, <2>4, <2>5 DEF WayInv
    <2>7. ~Move(in).killGoomba  BY <1>2, <1>5, <2>1, MoveGround
    <2>8. PlaceInv' /\ StompInv'  BY <1>6, <2>4, <2>7 DEF PlaceInv, StompInv
    <2>9. PitInv'  BY <2>4 DEF PitInv, InPit, Ball_Y_Max
    <2> QED  BY <1>3, <2>6, <2>8, <2>9 DEF LevelInv
  <1>8. CASE ~startScreen
    <2>1. PICK d, u \in Int :
            /\ Moved(in, d, u)
            /\ Ball_X_Pos' = Ball_X_Pos + d
            /\ Feet' = Feet + u
            /\ Feet + u >= 182 - 10 * (IF jump_state' <= 15 THEN jump_state' ELSE 15)
            /\ in.x + d \in 112 .. 127 => Feet + u <= 448 \/ jump_state' >= 15
      BY <1>5, <1>8, FrameMotion
    <2>2. /\ in.x + d \in Ball_X_Min .. Ball_X_Max - 16
          /\ in.y + u \in 0 .. 484
          /\ in.y + height(in.big) + u <= 448 \/ in.x + d \in 97 .. 143
      BY <2>1 DEF Moved
    <2>3. /\ Feet = Ball_Y_Pos + height(superMario) /\ height(superMario) \in {16, 32}
          /\ Feet' = Ball_Y_Pos' + height(superMario) /\ Ball_Y_Pos' \in Int
      BY <1>1, <1>3 DEF TypeOK, Feet, height
    <2>4. Ball_Y_Pos' = Ball_Y_Pos + u  BY <1>4, <2>1, <2>3
    <2>5. InWorld'  BY <1>2, <2>1, <2>2 DEF InWorld, width
    <2>6. (Ball_Y_Pos <= 484)'  BY <1>2, <1>4, <2>2, <2>4
    <2>7. (Feet >= 182 - 10 * (IF jump_state <= 15 THEN jump_state ELSE 15))'  BY <2>1
    <2>8. WayInv'  BY <1>1, <1>6, <2>5, <2>6, <2>7 DEF WayInv
    <2>9. PlaceInv'
      <3>1. Feet' <= 448 \/ Ball_X_Pos' \in 97 .. 143  BY <1>2, <1>4, <2>1, <2>2, <2>3
      <3> QED  BY <3>1 DEF PlaceInv
    <2>10. StompInv'
      <3> SUFFICES ASSUME isAlive, Move(in).killGoomba PROVE Ball_Y_Pos' \notin 430 .. 462
        BY <1>6 DEF StompInv
      <3>1. GoomX \in Lo .. Hi  BY DEF LevelInv, WayInv
      <3>2. GoomY = 432  BY <3>1, GameAssumption DEF GoomY, PlainLevel, Grave
      <3>3. PICK v \in Int : Move(in).y = Bits(v) /\ in.y + v \in 0 .. 429
        BY <1>2, <1>4, <1>5, <3>1, <3>2, StompIs
      <3>4. Ball_Y_Pos + v \in 0 .. 1023  BY <1>2, <1>4, <3>3
      <3>5. Ball_Y_Pos' = Ball_Y_Pos + v
        <4>1. Ball_Y_Pos' = Bits(Ball_Y_Pos + Bits(v))  BY <1>1, <1>2, <1>8, <3>3
        <4> QED  BY <1>4, <3>4, <4>1, Added
      <3> QED  BY <1>2, <1>4, <3>3, <3>5
    <2>11. PitInv'
      <3>1. InPit' => Feet' > 448 /\ Ball_X_Pos' \in 112 .. 127
        BY DEF InPit, width, Ball_Y_Max
      <3>2. Feet' > 448 /\ Ball_X_Pos' \in 112 .. 127 => jump_state' >= 15
        BY <1>2, <1>4, <2>1, <2>3
      <3> QED  BY <3>1, <3>2 DEF PitInv
    <2> QED  BY <1>3, <2>8, <2>9, <2>10, <2>11 DEF LevelInv
  <1> QED  BY <1>7, <1>8

----------------------------------------------------------------------------
(* The theorems about a plain level *)

\* Every step preserves the invariant.
LEMMA StepLevel ==
  ASSUME PlainLevel, LevelInv, [Next]_vars
  PROVE  LevelInv'
  <1>1. CASE Reset  BY <1>1, ResetLevel
  <1>2. CASE Paint  BY <1>2, PaintLevel
  <1>3. ASSUME NEW in \in Seen, Sample(in) PROVE LevelInv'  BY <1>3, SampleLevel
  <1>4. ASSUME NEW in \in Seen, Frame(in) PROVE LevelInv'  BY <1>4, FrameLevel
  <1>5. CASE UNCHANGED vars
    <2>1. UNCHANGED <<Ball_X_Pos, Ball_Y_Pos, jump_state, game_state, superMario,
                      isAlive, GoomX, sampled>>
      BY <1>5 DEF vars
    <2>2. IInv'  BY <1>5, StepIInv DEF LevelInv
    <2>3. UNCHANGED <<Feet, JustGrown, InWorld, NotOver, Playing, InPit>>
      BY <2>1 DEF Feet, JustGrown, InWorld, NotOver, Playing, InPit
    <2> QED  BY <2>1, <2>2, <2>3 DEF LevelInv, WayInv, PlaceInv, StompInv, PitInv
  <1> QED  BY <1>1, <1>2, <1>3, <1>4, <1>5 DEF Next

\* The invariant of a plain level.
THEOREM LevelInvariance ==
  ASSUME PlainLevel
  PROVE  Spec => []LevelInv
  <1>1. Init => LevelInv  BY InitLevel
  <1>2. LevelInv /\ [Next]_vars => LevelInv'  BY StepLevel
  <1> QED  BY <1>1, <1>2, PTL DEF Spec

\* Mario never leaves the picture sideways: ball.sv's collisions push him by up to a cell
\* without a look at the edges, and none of them takes him over one.
THEOREM NeverLeavesWorld ==
  ASSUME PlainLevel
  PROVE  Spec => []InWorld
  <1>1. LevelInv => InWorld  BY DEF LevelInv, WayInv
  <1> QED  BY <1>1, LevelInvariance, PTL

\* While the game is played, Mario's feet are below the floor only over the pit, or in
\* the frame in which the mushroom has made him grow.
THEOREM FeetAlwaysOnFloor ==
  ASSUME PlainLevel
  PROVE  Spec => []FeetOnFloor
  <1>1. LevelInv => FeetOnFloor
    <2> SUFFICES ASSUME LevelInv, Playing
                 PROVE  \/ Feet <= Ball_Y_Max
                        \/ Ball_X_Pos \in 112 - width + 1 .. 143
                        \/ superMario /\ sampled /\ Feet = Ball_Y_Max + 16
      BY DEF FeetOnFloor
    <2>1. NotOver  BY DEF Playing, NotOver
    <2> QED  BY <2>1 DEF LevelInv, PlaceInv, JustGrown, Ball_Y_Max, width
  <1> QED  BY <1>1, LevelInvariance, PTL

\* Whatever the keys are, a Mario in the pit falls in every frame, until he is below line
\* 479, which ends the play before the next frame is worked out.
THEOREM FallAlwaysEndsPlay ==
  ASSUME PlainLevel
  PROVE  Spec => []FallEndsPlay
  <1>1. LevelInv => FallEndsPlay
    <2> SUFFICES ASSUME LevelInv, Playing, InPit, NEW in \in Seen
                 PROVE  Signed(Move(in).y) > 0
      BY DEF FallEndsPlay, LevelInv, IInv
    <2>1. /\ SafeInput(in)
          /\ in.x = Ball_X_Pos /\ in.y = Ball_Y_Pos /\ in.big = superMario
          /\ in.velocity = IF jump_state = 0 THEN 0 ELSE Y_Velocity[jump_state]
      BY SeenSafe
    <2>2. in.x \in 112 .. 127 /\ in.y + height(in.big) > 448
      BY <2>1 DEF InPit, Feet, width, Ball_Y_Max
    <2>3. jump_state \in 15 .. 20  BY DEF LevelInv, PitInv, IInv, TypeOK
    <2>4. in.velocity > 0
      <3>1. \A n \in 15 .. 20 : Y_Velocity[n] > 0  BY DEF Y_Velocity
      <3> QED  BY <2>1, <2>3, <3>1
    <2> QED  BY <2>1, <2>2, <2>4, PitFall
  <1> QED  BY <1>1, LevelInvariance, PTL

\* The Goomba that Mario has stomped does not end the game in the frame in which its body
\* is still there, on any keys.
THEOREM StompAlwaysSafe ==
  ASSUME PlainLevel
  PROVE  Spec => []StompIsSafe
  <1>1. LevelInv => StompIsSafe
    <2> SUFFICES ASSUME LevelInv, ~isAlive, GoomX # Grave, NEW in \in Seen,
                        Move(in).touched
                 PROVE  FALSE
      BY DEF StompIsSafe
    <2>1. /\ SafeInput(in) /\ in.y = Ball_Y_Pos
          /\ in.goomX = GoomX /\ in.goomY = GoomY
      BY SeenSafe
    <2>2. GoomX \in 0 .. 699 /\ GoomY = 432
      BY GameAssumption DEF LevelInv, IInv, TypeOK, PlainLevel, GoomY, Grave
    <2>3. in.y \in 430 .. 462  BY <2>1, <2>2, TouchIs
    <2> QED  BY <2>1, <2>3 DEF LevelInv, StompInv
  <1> QED  BY <1>1, LevelInvariance, PTL

\* The Goomba never ends the game of a grown Mario: the height at which ball.sv tests the
\* contact is one his head reaches only over the pit and beside the mushroom.
THEOREM GrownAlwaysImmune ==
  ASSUME PlainLevel
  PROVE  Spec => []GrownIsImmune
  <1>1. LevelInv => GrownIsImmune
    <2> SUFFICES ASSUME LevelInv, superMario, Playing, NEW in \in Seen,
                        Move(in).touched
                 PROVE  FALSE
      BY DEF GrownIsImmune
    <2>1. /\ SafeInput(in) /\ in.y = Ball_Y_Pos /\ in.x = Ball_X_Pos
          /\ in.goomX = GoomX /\ in.goomY = GoomY
      BY SeenSafe
    <2>2. TypeOK /\ Ball_X_Pos \in Int  BY DEF LevelInv, IInv, TypeOK
    <2>3. GoomX = Grave => GoomY = Grave  BY DEF GoomY
    <2>4. GoomX # Grave => GoomX \in Lo .. Hi /\ GoomX \in 0 .. 699 /\ GoomY = 432
      BY <2>2, GameAssumption DEF TypeOK, PlainLevel, GoomY, Grave
    <2>5. /\ in.goomY = 432
          /\ in.y \in 430 .. 462
          /\ in.goomX \in in.x - 32 .. in.x + 33
      BY <2>1, <2>3, <2>4, TouchIs
    <2>6. GoomX # Grave  BY <2>1, <2>3, <2>5 DEF Grave
    <2>7. PICK gx \in Int : gx = GoomX /\ gx >= Lo /\ gx <= Hi  BY <2>4, <2>6, GameAssumption
    <2>8. Feet \in 462 .. 494  BY <2>1, <2>5 DEF Feet, height
    <2>9. Ball_X_Pos \in 97 .. 143 \/ JustGrown
      <3>1. NotOver  BY DEF Playing, NotOver
      <3> QED  BY <2>8, <3>1 DEF LevelInv, PlaceInv
    <2>10. gx \in Ball_X_Pos - 32 .. Ball_X_Pos + 33  BY <2>1, <2>5, <2>7
    <2>11. CASE Ball_X_Pos \in 97 .. 143
      <3>1. gx \in 65 .. 176  BY <2>2, <2>10, <2>11
      <3> QED  BY <2>7, <3>1, GameAssumption DEF PlainLevel
    <2>12. CASE JustGrown
      <3>1. PICK g \in MushroomGrid : Ball_X_Pos \in 16 * g[2] - 17 .. 16 * g[2] + 16
        BY <2>12 DEF JustGrown
      <3>2. g[2] \in Int  BY <3>1, MotionAssumption
      <3>3. gx \in 16 * g[2] - 49 .. 16 * g[2] + 49  BY <2>2, <2>10, <3>1, <3>2
      <3>4. Hi < 16 * g[2] - 49 \/ Lo > 16 * g[2] + 49  BY <3>1 DEF PlainLevel
      <3> QED  BY <2>7, <3>2, <3>3, <3>4, GameAssumption
    <2> QED  BY <2>9, <2>11, <2>12
  <1> QED  BY <1>1, LevelInvariance, PTL

----------------------------------------------------------------------------
(* The first picture *)

\* Where Mario is before and after his first step.
NearStart == Ball_X_Pos \in Ball_X_Center - 1 .. Ball_X_Center + 1
Fresh == Ball_X_Pos = Ball_X_Center /\ Ball_Y_Pos \in {416, 432}

\* The beam has painted the rows it has passed.
PaintedSoFar == \A c \in Grid : c[1] <= beam => c \in grid

\* The level is incomplete only until the beam has passed all of it: before Mario's
\* first step, and in the frame after it.
PaintInv == Playing /\ grid # Grid => Fresh \/ (NearStart /\ PaintedSoFar)

\* No corner of a Mario near the start, or one step from there, is in a cell of the level.
LEMMA ClearCell ==
  ASSUME ClearStart, NEW X \in Int, X \in Ball_X_Center - 2 .. Ball_X_Center + 18,
         NEW Y, NEW n, Bits(n) = Bits(X)
  PROVE  Index(Cell(Y, n)) \notin Grid \cup MushroomGrid \cup PeachGrid
  <1>1. Ball_X_Center \in Int /\ Ball_X_Center \in 1 .. 623  BY MotionAssumption
  <1>2. Index(Cell(Y, n))[2] = Bits(X) \div 16  BY DEF Cell, Index
  <1>3. CASE X < 0
    <2>1. X = -1  BY <1>1, <1>3
    <2>2. Bits(X) \div 16 = 63
      <3>1. \A i \in Int : i + 1 = 0 => Bits(i) = 1023  BY DEF Bits
      <3>2. Bits(X) = 1023  BY <2>1, <3>1
      <3> QED  BY <3>2
    <2>3. \A c \in Grid \cup MushroomGrid \cup PeachGrid : c[2] \in 0 .. 39
      BY MotionAssumption
    <2> QED  BY <1>2, <2>2, <2>3
  <1>4. CASE X >= 0
    <2>1. Bits(X) = X  BY <1>1, <1>4 DEF Bits
    <2>2. PICK k \in Int : k = X \div 16  OBVIOUS
    <2>3. 16 * k >= X - 15 /\ 16 * k <= X  BY <2>2
    <2>4. 16 * k >= Ball_X_Center - 17 /\ 16 * k <= Ball_X_Center + 18  BY <1>1, <2>3
    <2>5. Index(Cell(Y, n))[2] = k  BY <1>2, <2>1, <2>2
    <2> QED  BY <1>1, <2>4, <2>5 DEF ClearStart
  <1> QED  BY <1>3, <1>4

\* The corners of Mario near the start, when he moves by a pixel.
LEMMA ClearCorners ==
  ASSUME ClearStart, NEW in, in.x \in Ball_X_Center - 1 .. Ball_X_Center + 1,
         NEW m, m.x \in {0, 1, 1023}, NEW k \in DOMAIN Corners(in, m)
  PROVE  Index(Corners(in, m)[k]) \notin Grid \cup MushroomGrid \cup PeachGrid
  <1>1. Ball_X_Center \in Int /\ Ball_X_Center \in 1 .. 623  BY MotionAssumption
  <1>2. PICK x \in Int : x = in.x  BY <1>1
  <1>3. PICK d \in {-1, 0, 1} : \A n \in Int : Bits(n + m.x) = Bits(n + d)
    <2>1. \A n \in Int : Bits(n + 1023) = Bits(n - 1)  BY DEF Bits
    <2> QED  BY <2>1
  <1>4. /\ x + d \in Ball_X_Center - 2 .. Ball_X_Center + 18
        /\ x + 16 + d \in Ball_X_Center - 2 .. Ball_X_Center + 18
    BY <1>1, <1>2
  <1>5. /\ Bits(in.x + m.x) = Bits(x + d)
        /\ Bits(in.x + width + m.x) = Bits(x + 16 + d)
    BY <1>2, <1>3 DEF width
  <1>6. \E Y, n : /\ Corners(in, m)[k] = Cell(Y, n)
                  /\ n = in.x + m.x \/ n = in.x + width + m.x
    BY DEF Corners
  <1>7. x + d \in Int /\ x + 16 + d \in Int  BY <1>2
  <1> QED  BY <1>4, <1>5, <1>6, <1>7, ClearCell

\* A wish moves Mario sideways by a pixel at most.
LEMMA WishStep ==
  ASSUME NEW in
  PROVE  GroundWish(in).x \in {0, 1, 1023} /\ AirWish(in).x \in {0, 1, 1023}
  <1>1. Bits(0) = 0 /\ Bits(1) = 1 /\ Bits(-1) = 1023
    <2>1. \A i \in Int : i + 1 = 0 => Bits(i) = 1023  BY DEF Bits
    <2>2. Bits(-1) = 1023  BY <2>1
    <2>3. Bits(0) = 0 /\ Bits(1) = 1  BY DEF Bits
    <2> QED  BY <2>2, <2>3
  <1>2. GroundWish(in).x \in {0, Bits(0), Bits(1), Bits(-1)}
    <2> DEFINE k1 == in.keycode
               k2 == in.keycode2
               dx == CASE k1 = "A" /\ k2 # "D" -> -1
                       [] k1 = "D" /\ k2 # "A" -> 1
                       [] k1 = "W" /\ k2 = "A" -> -1
                       [] k1 = "W" /\ k2 = "D" -> 1
                       [] OTHER -> 0
               up == k1 = "W" \/ (dx # 0 /\ k2 = "W")
               stopped == CASE dx = -1 -> AtLeft(in)
                            [] dx = 1 -> AtRight(in)
                            [] OTHER -> Signed(in.y) <= 0
    <2>1. dx \in {-1, 0, 1}  OBVIOUS
    <2>2. GroundWish(in) = IF stopped THEN [x |-> 0, y |-> 0]
                           ELSE [x |-> Bits(dx), y |-> IF up THEN Bits(-10) ELSE 0]
      BY DEF GroundWish
    <2> HIDE DEF dx, up, stopped
    <2> QED  BY <2>1, <2>2
  <1>3. AirWish(in).x \in {0, 1, 1023}  BY DEF AirWish
  <1> QED  BY <1>1, <1>2, <1>3

\* What Mario does depends on the arrays only through what his corners read.
SameBut(in, other) ==
  /\ other.x = in.x /\ other.y = in.y /\ other.big = in.big
  /\ other.velocity = in.velocity
  /\ other.keycode = in.keycode /\ other.keycode2 = in.keycode2
  /\ other.goomX = in.goomX /\ other.goomY = in.goomY

\* So the motion is the same when the reads are.
LEMMA SameMotion ==
  ASSUME NEW in, NEW other, SameBut(in, other),
         \A a \in {"grid", "peach", "mushroom"} : \A m :
           m.x \in {0, 1, 1023} =>
             Hits(a, Corners(in, m), other) = Hits(a, Corners(in, m), in)
  PROVE  Move(other) = Move(in)
  <1> USE DEF SameBut
  <1>1. \A m : Corners(other, m) = Corners(in, m)  BY DEF Corners
  <1>2. /\ \A my, floor : OnFloor(other, my, floor) = OnFloor(in, my, floor)
        /\ \A my, floor : Clamp(other, my, floor) = Clamp(in, my, floor)
    BY DEF OnFloor, Clamp, Below
  <1>3. GroundWish(other) = GroundWish(in)
    BY DEF GroundWish, AtLeft, AtRight
  <1>4. AirWish(other) = AirWish(in)
    BY <1>2 DEF AirWish, AtLeft, AtRight, pressed
  <1>5. \A cell : /\ Under(other, cell) = Under(in, cell)
                  /\ Upon(other, cell) = Upon(in, cell)
                  /\ RightOf(other, cell) = RightOf(in, cell)
                  /\ LeftOf(other, cell) = LeftOf(in, cell)
    BY DEF Under, Upon, RightOf, LeftOf
  <1>6. \A m : Stomps(other, m) = Stomps(in, m) /\ Touches(other, m) = Touches(in, m)
    BY DEF Stomps, Touches, Chest
  <1>7. /\ \A h, c, my : AirBump(h, c, other, my) = AirBump(h, c, in, my)
        /\ \A h, c, m : Bump(h, c, other, m) = Bump(h, c, in, m)
        /\ \A h, c, m : BumpMiddle(h, c, other, m) = BumpMiddle(h, c, in, m)
    BY <1>5 DEF AirBump, Bump, BumpMiddle
  <1>8. current_jumping(other) = current_jumping(in)
    BY <1>1, <1>2 DEF current_jumping
  <1>9. InAir(other) = InAir(in)
    <2> DEFINE wish(i) == AirWish(i)
               c(i) == Corners(i, wish(i))
               my(i) == AirBump(Hits("grid", c(i), i), c(i), i, wish(i).y)
               my2(i) == AirBump(Hits("peach", c(i), i), c(i), i, my(i))
               kill(i) == Stomps(i, [x |-> wish(i).x, y |-> my(i)])
    <2>1. wish(other) = wish(in) /\ c(other) = c(in)  BY <1>1, <1>4
    <2>2. /\ Hits("grid", c(in), other) = Hits("grid", c(in), in)
          /\ Hits("peach", c(in), other) = Hits("peach", c(in), in)
      BY WishStep
    <2>3. /\ InAir(in) = [x |-> wish(in).x, y |-> my2(in), killGoomba |-> kill(in),
                          collision |-> FALSE, peach |-> FALSE, touched |-> FALSE]
          /\ InAir(other) = [x |-> wish(other).x, y |-> my2(other), killGoomba |-> kill(other),
                             collision |-> FALSE, peach |-> FALSE, touched |-> FALSE]
      BY DEF InAir
    <2> HIDE DEF wish, c
    <2>4. my(other) = my(in)  BY <1>7, <2>1, <2>2
    <2> HIDE DEF my
    <2>5. my2(other) = my2(in)  BY <1>7, <2>1, <2>2, <2>4
    <2>6. kill(other) = kill(in)  BY <1>6, <2>1, <2>4
    <2> HIDE DEF my2, kill
    <2> QED  BY <2>1, <2>3, <2>5, <2>6
  <1>10. OnGround(other) = OnGround(in)
    <2> DEFINE wish(i) == GroundWish(i)
               c(i) == Corners(i, wish(i))
               h(i) == Hits("grid", c(i), i)
               p(i) == Hits("peach", c(i), i)
               mush(i) == Hits("mushroom", c(i), i)
               m1(i) == Bump(h(i), c(i), i, wish(i))
               m2(i) == Bump(p(i), c(i), i, m1(i))
               m3(i) == IF i.big THEN BumpMiddle(h(i), c(i), i, m2(i)) ELSE m2(i)
               eats(i) == \E k \in {"tl", "tr", "bl", "br"} : mush(i)[k]
               wins(i) == \E k \in {"tl", "tr", "bl", "br"} : p(i)[k]
               ends(i) == Touches(i, m3(i))
    <2>1. wish(other) = wish(in) /\ c(other) = c(in)  BY <1>1, <1>3
    <2>2. /\ Hits("grid", c(in), other) = Hits("grid", c(in), in)
          /\ Hits("peach", c(in), other) = Hits("peach", c(in), in)
          /\ Hits("mushroom", c(in), other) = Hits("mushroom", c(in), in)
      BY WishStep
    <2>3. /\ OnGround(in) = [x |-> m3(in).x, y |-> m3(in).y, killGoomba |-> FALSE,
                             collision |-> eats(in), peach |-> wins(in), touched |-> ends(in)]
          /\ OnGround(other) = [x |-> m3(other).x, y |-> m3(other).y, killGoomba |-> FALSE,
                                collision |-> eats(other), peach |-> wins(other),
                                touched |-> ends(other)]
      BY DEF OnGround
    <2> HIDE DEF wish, c
    <2>4. h(other) = h(in) /\ p(other) = p(in) /\ mush(other) = mush(in)  BY <2>1, <2>2
    <2> HIDE DEF h, p, mush
    <2>5. m1(other) = m1(in)  BY <1>7, <2>1, <2>4
    <2> HIDE DEF m1
    <2>6. m2(other) = m2(in)  BY <1>7, <2>1, <2>4, <2>5
    <2> HIDE DEF m2
    <2>7. m3(other) = m3(in)  BY <1>7, <2>1, <2>4, <2>6
    <2> HIDE DEF m3
    <2>8. eats(other) = eats(in) /\ wins(other) = wins(in)  BY <2>4
    <2>9. ends(other) = ends(in)  BY <1>6, <2>7
    <2> HIDE DEF eats, wins, ends
    <2> QED  BY <2>3, <2>7, <2>8, <2>9
  <1> QED  BY <1>2, <1>8, <1>9, <1>10 DEF Move

\* What Mario would see of the painted level.
IsPainted(in, painted) ==
  painted = [in EXCEPT !.arrays.grid = Grid, !.arrays.mushroom = MushroomShown]

\* What the cells of the level say of Mario near the start is the same before and after
\* they are painted.
LEMMA SameReads ==
  ASSUME ClearStart, TypeOK, NearStart, NEW in \in Seen,
         NEW painted, IsPainted(in, painted),
         NEW a \in {"grid", "peach", "mushroom"}, NEW m, m.x \in {0, 1, 1023}
  PROVE  Hits(a, Corners(in, m), painted) = Hits(a, Corners(in, m), in)
  <1> DEFINE c == Corners(in, m)
  <1>1. /\ in.x = Ball_X_Pos
        /\ in.arrays = [grid |-> grid, mushroom |-> mushroom_grid, peach |-> PeachGrid]
        /\ "arrays" \in DOMAIN in
    BY DEF Seen, Inputs
  <1>2. /\ painted.offGrid = in.offGrid
        /\ painted.arrays = [grid |-> Grid, mushroom |-> MushroomShown, peach |-> PeachGrid]
    <2> DEFINE first == [in EXCEPT !.arrays.grid = Grid]
    <2>1. painted = [first EXCEPT !.arrays.mushroom = MushroomShown]  BY DEF IsPainted
    <2>2. /\ "arrays" \in DOMAIN first /\ first.offGrid = in.offGrid
          /\ first.arrays = [in.arrays EXCEPT !.grid = Grid]
      BY <1>1
    <2>3. first.arrays = [grid |-> Grid, mushroom |-> mushroom_grid, peach |-> PeachGrid]
      BY <1>1, <2>2
    <2> HIDE DEF first
    <2>4. /\ painted.offGrid = first.offGrid
          /\ painted.arrays = [first.arrays EXCEPT !.mushroom = MushroomShown]
      BY <2>1, <2>2
    <2>5. painted.arrays = [grid |-> Grid, mushroom |-> MushroomShown, peach |-> PeachGrid]
      BY <2>3, <2>4
    <2> QED  BY <2>2, <2>4, <2>5
  <1>3. \A k \in DOMAIN c : Index(c[k]) \notin Grid \cup MushroomGrid \cup PeachGrid
    BY <1>1, ClearCorners DEF NearStart
  <1>4. MushroomShown \subseteq MushroomGrid /\ grid \subseteq Grid
        /\ mushroom_grid \subseteq MushroomGrid
    BY DEF MushroomShown, TypeOK
  <1> HIDE DEF c
  <1>5. \A k \in DOMAIN c :
          Index(c[k]) \notin in.arrays[a] /\ Index(c[k]) \notin painted.arrays[a]
    BY <1>1, <1>2, <1>3, <1>4
  <1>6. \A k \in DOMAIN c : Reads(a, c[k], painted) = Reads(a, c[k], in)
    BY <1>2, <1>5 DEF Reads
  <1>7. Hits(a, c, painted) = Hits(a, c, in)  BY <1>6 DEF Hits
  <1> QED  BY <1>7 DEF c

\* Near the start Mario moves as if the level were painted.
LEMMA SameMove ==
  ASSUME ClearStart, TypeOK, NearStart, NEW in \in Seen
  PROVE  Move(in) = Move([in EXCEPT !.arrays.grid = Grid, !.arrays.mushroom = MushroomShown])
  <1>0. PICK painted : IsPainted(in, painted)  BY DEF IsPainted
  <1>1. SameBut(in, painted)  BY <1>0 DEF SameBut, IsPainted, Seen, Inputs
  <1>2. ASSUME NEW a \in {"grid", "peach", "mushroom"}, NEW m, m.x \in {0, 1, 1023}
        PROVE  Hits(a, Corners(in, m), painted) = Hits(a, Corners(in, m), in)
    BY <1>0, <1>2, SameReads
  <1>3. Move(painted) = Move(in)  BY <1>1, <1>2, SameMotion
  <1> QED  BY <1>0, <1>3 DEF IsPainted

\* The first step is of a pixel at most.
LEMMA FirstStep ==
  ASSUME ClearStart, TypeOK, Fresh, NEW in \in Seen
  PROVE  Move(in).x \in {0, 1, 1023}
  <1>1. /\ in.x = Ball_X_Pos
        /\ in.arrays = [grid |-> grid, mushroom |-> mushroom_grid, peach |-> PeachGrid]
        /\ in.offGrid = {}
    <2>1. ~NearTheRim  BY DEF NearTheRim, Fresh
    <2> QED  BY <2>1 DEF Seen, Inputs
  <1> DEFINE wish == GroundWish(in)
             c == Corners(in, wish)
             h == Hits("grid", c, in)
             p == Hits("peach", c, in)
             m1 == Bump(h, c, in, wish)
             m2 == Bump(p, c, in, m1)
             m3 == IF in.big THEN BumpMiddle(h, c, in, m2) ELSE m2
  <1>2. wish.x \in {0, 1, 1023} /\ AirWish(in).x \in {0, 1, 1023}  BY WishStep
  <1>3. \A k \in DOMAIN c : Index(c[k]) \notin Grid \cup PeachGrid
    <2>1. in.x \in Ball_X_Center - 1 .. Ball_X_Center + 1
      BY <1>1, MotionAssumption DEF Fresh
    <2> QED  BY <1>2, <2>1, ClearCorners
  <1>4. DOMAIN c = {"tl", "tr", "bl", "br", "ml", "mr"}  BY DEF Corners
  <1> HIDE DEF wish, c
  <1>5. \A k \in {"tl", "tr", "bl", "br", "ml", "mr"} : ~h[k] /\ ~p[k]
    <2>1. grid \subseteq Grid  BY DEF TypeOK
    <2>2. /\ in.arrays["grid"] = grid /\ in.arrays["peach"] = PeachGrid
      BY <1>1
    <2> QED  BY <1>1, <1>3, <1>4, <2>1, <2>2 DEF Hits, Reads
  <1> HIDE DEF h, p
  <1>6. m1 = wish  BY <1>5 DEF Bump, OnBlock
  <1> HIDE DEF m1
  <1>7. m2 = m1  BY <1>5 DEF Bump, OnBlock
  <1> HIDE DEF m2
  <1>8. m3 = m2  BY <1>5 DEF BumpMiddle, OnBlock
  <1>9. OnGround(in).x = m3.x  BY DEF OnGround, m2, m1, p, h, c, wish
  <1>10. OnGround(in).x = wish.x  BY <1>6, <1>7, <1>8, <1>9
  <1>11. InAir(in).x = AirWish(in).x  BY DEF InAir
  <1> QED  BY <1>2, <1>10, <1>11, MoveIs

\* The frames preserve the invariant: the second step waits for the beam.
LEMMA FrameFirst ==
  ASSUME ClearStart, IInv, PaintInv, NEW in \in Seen, Frame(in)
  PROVE  PaintInv'
  <1> SUFFICES ASSUME Playing', grid' # Grid PROVE NearStart' /\ PaintedSoFar'
    BY DEF PaintInv
  <1>1. /\ UNCHANGED <<game_state, grid>> /\ beam' = Top
        /\ startScreen \/ beam = Bottom
        /\ ~startScreen => Ball_X_Pos' = Bits(in.x + Move(in).x)
    BY DEF Frame
  <1>2. Playing /\ ~startScreen /\ grid # Grid  BY <1>1 DEF Playing, startScreen
  <1>3. TypeOK  BY DEF IInv
  <1>4. \A c \in Grid : c[1] \in 0 .. 29  BY MotionAssumption
  <1>5. Fresh
    <2>1. beam = 30  BY <1>1, <1>2 DEF Bottom
    <2>2. PaintedSoFar => Grid \subseteq grid  BY <1>4, <2>1 DEF PaintedSoFar
    <2>3. ~PaintedSoFar  BY <1>2, <1>3, <2>2, ZenonT(60) DEF TypeOK
    <2> QED  BY <1>2, <2>3 DEF PaintInv
  <1>6. NearStart'
    <2>1. in.x = Ball_X_Center  BY <1>5 DEF Seen, Inputs, Fresh
    <2>2. Ball_X_Center \in Int /\ Ball_X_Center \in 1 .. 623  BY MotionAssumption
    <2>3. PICK k \in {0, 1, 1023} : k = Move(in).x  BY <1>3, <1>5, FirstStep
    <2>4. Ball_X_Pos' = Bits(Ball_X_Center + k)  BY <1>1, <1>2, <2>1, <2>3
    <2> QED  BY <2>2, <2>3, <2>4 DEF NearStart, Bits
  <1>7. PaintedSoFar'
    <2>1. \A c \in Grid : ~(c[1] <= -1)  BY <1>4
    <2> QED  BY <1>1, <2>1 DEF PaintedSoFar, Top
  <1> QED  BY <1>6, <1>7

\* So does the beam: Mario is not over a cell, which is therefore painted.
LEMMA PaintFirst ==
  ASSUME ClearStart, IInv, PaintInv, Paint
  PROVE  PaintInv'
  <1>1. /\ UNCHANGED <<Ball_X_Pos, Ball_Y_Pos, game_state, superMario>>
        /\ beam' \in IF Due = {} THEN {Bottom}
                     ELSE {row \in Due : \A other \in Due : row <= other}
        /\ grid' = IF Playing THEN Painted(grid, Grid, beam') ELSE grid
    BY DEF Paint
  <1> SUFFICES ASSUME Playing', grid' # Grid, ~Fresh' PROVE NearStart' /\ PaintedSoFar'
    BY DEF PaintInv
  <1>2. Playing /\ ~Fresh  BY <1>1 DEF Playing, Fresh
  <1>3. grid' = Painted(grid, Grid, beam')  BY <1>1, <1>2
  <1>4. grid # Grid
    <2>1. Painted(Grid, Grid, beam') = Grid  BY DEF Painted
    <2> QED  BY <1>3, <2>1
  <1>5. NearStart /\ PaintedSoFar  BY <1>2, <1>4 DEF PaintInv
  <1>6. NearStart'  BY <1>1, <1>5 DEF NearStart
  <1>7. \A c \in Grid : ~Hidden(c)
    <2> SUFFICES ASSUME NEW c \in Grid, Ball_X_Pos = 16 * c[2] PROVE FALSE  BY DEF Hidden
    <2>1. Ball_X_Center \in Int  BY MotionAssumption
    <2> QED  BY <1>5, <2>1 DEF NearStart, ClearStart
  <1>8. ASSUME NEW c \in Grid, c[1] <= beam' PROVE c \in grid'
    <2>1. c[1] \in Int /\ c[1] \in 0 .. 29 /\ c[1] \in Rows  BY MotionAssumption DEF Rows
    <2>2. CASE c[1] = beam'  BY <1>3, <1>7, <2>2 DEF Painted
    <2>3. CASE c \in grid  BY <1>3, <2>3 DEF Painted
    <2>4. CASE c[1] # beam' /\ c \notin grid
      <3>1. beam \in Int  BY <2>1, MotionAssumption DEF IInv, TypeOK, Rows, Top, Bottom
      <3>2. c[1] > beam  BY <1>5, <2>1, <2>4, <3>1 DEF PaintedSoFar
      <3>3. c \in Painted(grid, Grid, c[1])  BY <1>7 DEF Painted
      <3>4. c[1] \in Due  BY <2>1, <2>4, <3>2, <3>3 DEF Due
      <3>5. beam' \in Due /\ beam' <= c[1]  BY <1>1, <3>4
      <3>6. beam' \in Int  BY <3>5, MotionAssumption DEF Due, Rows
      <3> QED  BY <1>8, <2>1, <2>4, <3>5, <3>6
    <2> QED  BY <2>2, <2>3, <2>4
  <1> QED  BY <1>6, <1>8 DEF PaintedSoFar

\* The level, which is not there when the game starts, is always painted before Mario
\* could run into what is missing: he moves as if all of it were there.
THEOREM AlwaysPaintedInTime ==
  ASSUME ClearStart
  PROVE  Spec => []PaintedInTime
  <1>1. Init => IInv /\ PaintInv  BY InitIInv DEF Init, PaintInv, Playing
  <1>2. IInv /\ PaintInv /\ [Next]_vars => IInv' /\ PaintInv'
    <2> SUFFICES ASSUME IInv, PaintInv, [Next]_vars PROVE PaintInv'  BY StepIInv
    <2>1. CASE Reset  BY <2>1 DEF Reset, PaintInv, Playing
    <2>2. CASE Paint  BY <2>2, PaintFirst
    <2>3. ASSUME NEW in \in Seen, Sample(in) PROVE PaintInv'
      <3>1. /\ UNCHANGED <<Ball_X_Pos, Ball_Y_Pos, grid, beam>>
            /\ game_state' = NextGame(in, Move(in))
        BY <2>3 DEF Sample, level
      <3>2. startScreen => Fresh  BY DEF IInv, AtStart, Fresh
      <3>3. Playing' => Playing \/ startScreen
        BY <3>1 DEF Playing, startScreen, NextGame, IInv, TypeOK
      <3>4. UNCHANGED <<Fresh, NearStart, PaintedSoFar>>
        BY <3>1 DEF Fresh, NearStart, PaintedSoFar
      <3> QED  BY <3>1, <3>2, <3>3, <3>4 DEF PaintInv
    <2>4. ASSUME NEW in \in Seen, Frame(in) PROVE PaintInv'  BY <2>4, FrameFirst
    <2>5. CASE UNCHANGED vars
      BY <2>5 DEF vars, level, PaintInv, Playing, Fresh, NearStart, PaintedSoFar
    <2> QED  BY <2>1, <2>2, <2>3, <2>4, <2>5 DEF Next
  <1>3. IInv /\ PaintInv => PaintedInTime
    <2> SUFFICES ASSUME IInv, PaintInv, Playing, grid # Grid, NEW in \in Seen
                 PROVE  Move(in) = Move([in EXCEPT !.arrays.grid = Grid,
                                                   !.arrays.mushroom = MushroomShown])
      BY DEF PaintedInTime
    <2>1. NearStart  BY MotionAssumption DEF PaintInv, Fresh, NearStart
    <2> QED  BY <2>1, SameMove DEF IInv
  <1> QED  BY <1>1, <1>2, <1>3, PTL DEF Spec

=============================================================================
