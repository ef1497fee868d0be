------------------------------ MODULE MCGoomba ------------------------------
(* The Goomba of the game and the pictures: the parameters of goombaPos as  *)
(* they are.                                                                *)
EXTENDS Animation

MC_X_Center == 464 - 16
MC_X_Min == 3
MC_X_Max == 639
=============================================================================
