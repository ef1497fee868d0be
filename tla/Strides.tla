------------------------------ MODULE Strides -------------------------------
(***************************************************************************)
(* What the picture may rely on: Mario and the Goomba move their legs      *)
(* together, once in eight frames and first in the first frame after a     *)
(* reset; Mario goes through his three running pictures in turn while he   *)
(* is told to walk, and stands otherwise.                                  *)
(***************************************************************************)
EXTENDS Naturals

VARIABLES
  Reset,
  wait,                      \* the frames before the next stride
  which_mario,               \* 0 stands, 1 to 3 run
  which_goomba
vars == <<Reset, wait, which_mario, which_goomba>>

Init == Reset = TRUE /\ wait = 0 /\ which_mario = 0 /\ which_goomba = 0

Hold == /\ ~Reset /\ wait > 0
        /\ wait' = wait - 1
        /\ UNCHANGED <<Reset, which_mario, which_goomba>>

Stride == /\ ~Reset /\ wait = 0
          /\ wait' = 7
          /\ which_mario' \in {0, (which_mario % 3) + 1}
          /\ which_goomba' = 1 - which_goomba
          /\ UNCHANGED Reset

\* A reset starts a new stride.  Mario's legs stay as they are.
Again == ~Reset /\ Reset' = TRUE /\ wait' = 0 /\ which_goomba' = 0 /\ UNCHANGED which_mario
Release == Reset /\ Reset' = FALSE /\ UNCHANGED <<wait, which_mario, which_goomba>>

Next == Hold \/ Stride \/ Again \/ Release

Spec == Init /\ [][Next]_vars
=============================================================================
