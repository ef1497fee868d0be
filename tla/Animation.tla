----------------------------- MODULE Animation ------------------------------
(***************************************************************************)
(* The pictures of Mario and the Goomba: the divided clocks of ball.sv,    *)
(* and the machines dynamic_sprite and dynamic_goomba that step with the   *)
(* slowest of them.  Everything is clocked by vs in the end, like Goomba,  *)
(* with which this module shares its frames and its reset.  The divider    *)
(* ripples: each of its registers is clocked by the one before it, all     *)
(* within an edge of vs.  The reset of dynamic_sprite waits for a clock    *)
(* that the reset holds low, so that it never comes about.                 *)
(***************************************************************************)
EXTENDS Goomba

VARIABLES
  half_frame_clk, quarter_frame_clk, eighth_frame_clk,    \* 0 or 1
  which_mario, which_goomba,
  idle          \* history: the frames without a walking key, 8 at most
dividers == <<half_frame_clk, quarter_frame_clk, eighth_frame_clk>>
animationVars == <<vars, dividers, which_mario, which_goomba, idle>>

HalfRises == half_frame_clk = 0
QuarterRises == HalfRises /\ quarter_frame_clk = 0
EighthRises == QuarterRises /\ eighth_frame_clk = 0

Divide ==
  /\ half_frame_clk' = 1 - half_frame_clk
  /\ quarter_frame_clk' = IF HalfRises THEN 1 - quarter_frame_clk ELSE quarter_frame_clk
  /\ eighth_frame_clk' = IF QuarterRises THEN 1 - eighth_frame_clk ELSE eighth_frame_clk

\* Mutant: a run is finished before Mario stands.
dynamic_spriteRuns(walking) ==
  which_mario' = IF ~EighthRises THEN which_mario
                 ELSE IF walking \/ which_mario \in {1, 2} THEN (which_mario % 3) + 1 ELSE 0

\* STANDING, FIRST, SECOND, THIRD; A or D is pressed when the clock rises, or not.
dynamic_sprite(walking) ==
  which_mario' = IF ~EighthRises THEN which_mario
                 ELSE IF walking THEN (which_mario % 3) + 1 ELSE 0

dynamic_goomba == which_goomba' = IF EighthRises THEN 1 - which_goomba ELSE which_goomba

----------------------------------------------------------------------------

AnimatedFrame ==
  \E killGoomba, walking \in BOOLEAN :
    /\ Frame(killGoomba)
    /\ Divide
    /\ dynamic_sprite(walking) /\ dynamic_goomba
    /\ idle' = IF walking THEN 0 ELSE IF idle = 8 THEN 8 ELSE idle + 1

\* Mutant: the last divider has no reset.
DividersKept == half_frame_clk' = 0 /\ quarter_frame_clk' = 0 /\ UNCHANGED eighth_frame_clk
DividersReset == half_frame_clk' = 0 /\ quarter_frame_clk' = 0 /\ eighth_frame_clk' = 0

AnimatedPress ==
  /\ PressReset
  /\ DividersReset
  /\ which_goomba' = 0
  /\ UNCHANGED <<which_mario, idle>>

AnimatedRelease ==
  ReleaseReset /\ UNCHANGED <<dividers, which_mario, which_goomba, idle>>

AnimationInit ==
  /\ Init
  /\ half_frame_clk = 0 /\ quarter_frame_clk = 0 /\ eighth_frame_clk = 0
  /\ which_mario = 0 /\ which_goomba = 0
  /\ idle = 0

AnimationNext == AnimatedFrame \/ AnimatedPress \/ AnimatedRelease

\* vs rises again and again while the button is up.
AnimationSpec == AnimationInit /\ [][AnimationNext]_animationVars /\ WF_animationVars(AnimatedFrame)

----------------------------------------------------------------------------
(* Properties *)

\* A Mario who is not told to walk is shown standing within eight frames, although his
\* reset never takes effect and a new game may begin with him in the middle of a run.
StandsAtRest == idle = 8 => which_mario = 0

\* The rippling clocks and the two machines show what Strides promises.
Shown == INSTANCE Strides WITH
  wait <- 4 * eighth_frame_clk + 2 * quarter_frame_clk + half_frame_clk
StrideSpec == Shown!Spec
=============================================================================
