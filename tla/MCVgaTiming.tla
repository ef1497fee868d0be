---------------------------- MODULE MCVgaTiming ----------------------------
(* The 640 x 480 timing of the board: the instance is the real size.       *)
EXTENDS VgaTiming

MC_hpixels == 799
MC_vlines == 524
=============================================================================
