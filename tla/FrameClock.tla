----------------------------- MODULE FrameClock -----------------------------
(***************************************************************************)
(* What the video timing promises to the game, which steps at each rising  *)
(* edge of vs: one step per frame, taken while no pixel is shown, and one  *)
(* more when a reset ends.  No edge comes while the reset is held.         *)
(***************************************************************************)
VARIABLES stage,  \* where the beam is
          vs      \* the sync pulse, the clock of the game

vars == <<stage, vs>>

Init == stage \in {"held", "start"} /\ vs = 0

Move(from, to, level) == stage = from /\ stage' = to /\ vs' = level

Press   == stage' = "held" /\ vs' = 0
Release == Move("held", "start", 0)
Start   == Move("start", "picture", 1)    \* an edge: the game steps
Front   == Move("picture", "front", 1)
Pulse   == Move("front", "pulse", 0)
Back    == Move("pulse", "back", 1)       \* an edge: the game steps
Again   == Move("back", "picture", 1)

Advance == Start \/ Front \/ Pulse \/ Back \/ Again
Next == Press \/ Release \/ Advance

\* A beam that is not held goes on.
Spec == Init /\ [][Next]_vars /\ WF_vars(Advance)
=============================================================================
