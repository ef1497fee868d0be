------------------------------- MODULE MCGame -------------------------------
(* The left part of the level up to the first platform, with the mushroom  *)
(* and the pit; a pen with the Goomba, a block, the mushroom and the       *)
(* princess.                                                               *)
EXTENDS Game

Level == {<<27, 5>>, <<27, 6>>, <<26, 6>>, <<24, 9>>, <<24, 10>>, <<24, 11>>}
LevelMushroom == {<<27, 10>>}
Nothing == {}

Pen == {<<27, 7>>}
PenMushroom == {<<27, 3>>}
PenPrincess == {<<24, 7>>}

\* The whole level, with the princess and the patrol of goomba.sv, is what PlainLevel says.
WholeLevel ==
  Level \cup {<<22, 14>>, <<22, 15>>, <<22, 16>>, <<21, 19>>, <<21, 20>>, <<21, 21>>,
             <<19, 24>>, <<19, 25>>, <<27, 24>>, <<27, 30>>, <<20, 29>>,
             <<19, 32>>, <<19, 33>>, <<19, 34>>, <<19, 35>>, <<19, 36>>,
             <<18, 33>>, <<18, 34>>, <<18, 35>>, <<17, 34>>, <<16, 38>>, <<16, 39>>}
Princess == {<<14, 39>>, <<15, 39>>}

ReadZero == {{}}

Pairs == {<<"none", "none">>, <<"A", "none">>, <<"D", "none">>, <<"W", "none">>,
          <<"A", "W">>, <<"D", "W">>, <<"Enter", "none">>}

Whole == INSTANCE Game WITH
  Ball_X_Center <- 3, Ball_X_Min <- 3, Ball_X_Max <- 639,
  Grid <- WholeLevel, MushroomGrid <- LevelMushroom, PeachGrid <- Princess,
  Lo <- 448 - 33, Hi <- 448, OffGrid <- ReadZero
ASSUME WholeIsPlain ==
  Whole!MotionAssumption /\ Whole!GameAssumption /\ Whole!PlainLevel /\ Whole!ClearStart
=============================================================================
