------------------------------- MODULE Patrol -------------------------------
(***************************************************************************)
(* What the game may rely on of an enemy: it stays between Lo and Hi and   *)
(* moves by at most one pixel per frame; one frame after it was stomped it *)
(* is off the screen, and it comes back only with a reset of the game.     *)
(***************************************************************************)
EXTENDS Integers

CONSTANTS Lo, Hi,   \* the ends of the patrol
          Grave     \* where a dead enemy is put

VARIABLES Reset, isAlive, x
vars == <<Reset, isAlive, x>>

\* The game is started with the reset button, which holds everything still.
Init == Reset = TRUE /\ isAlive = TRUE /\ x = Hi

Walk ==
  /\ ~Reset /\ isAlive
  /\ isAlive' \in BOOLEAN
  /\ x' \in {x - 1, x, x + 1} \cap Lo .. Hi
  /\ UNCHANGED Reset

Bury ==
  /\ ~Reset /\ ~isAlive
  /\ x' = Grave
  /\ UNCHANGED <<Reset, isAlive>>

Again == ~Reset /\ Reset' = TRUE /\ isAlive' = TRUE /\ x' = Hi
Release == Reset /\ Reset' = FALSE /\ UNCHANGED <<isAlive, x>>

Next == Walk \/ Bury \/ Again \/ Release

Spec == Init /\ [][Next]_vars
=============================================================================
