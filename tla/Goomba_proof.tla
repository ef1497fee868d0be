---------------------------- MODULE Goomba_proof ----------------------------
(***************************************************************************)
(* Proofs about the Goomba, for any place of the patrol clear of the       *)
(* edges, and about the pictures that step with it.  The invariant ties    *)
(* the position to the state of gsm and its counter: without that tie no   *)
(* bound on the position is inductive.  Of the pictures: the divided       *)
(* clocks are a counter of eight frames, and a Mario who is not told to    *)
(* walk stands within them.                                                *)
(***************************************************************************)
EXTENDS Animation, TLAPS

OnPatrol ==
  /\ curr_state = "STILL1" => Ball_X_Pos = Ball_X_Center
  /\ curr_state = "LEFT"   => Ball_X_Pos = Ball_X_Center - counter
  /\ curr_state = "STILL2" => Ball_X_Pos = Ball_X_Center - Travel
  /\ curr_state = "RIGHT"  => Ball_X_Pos = Ball_X_Center - Travel + counter

IInv == TypeOK /\ (isAlive => OnPatrol)

\* What the assumption says of the parameters, in numbers.
LEMMA Parameters ==
  /\ Ball_X_Center \in Nat /\ Ball_X_Center < 512
  /\ Ball_X_Min \in Nat /\ Ball_X_Min < 512 /\ Signed(Ball_X_Min) = Ball_X_Min
  /\ Ball_X_Max \in Nat
  /\ Ball_X_Min < Ball_X_Center - 33 /\ Ball_X_Center + 17 < Ball_X_Max
BY GoombaAssumption DEF Travel, WALK, WIDTH, Signed

\* A Goomba on patrol is between the ends of its patrol, also after its next step.
LEMMA Ends ==
  ASSUME TypeOK, OnPatrol
  PROVE  /\ Ball_X_Pos \in Ball_X_Center - Travel .. Ball_X_Center
         /\ curr_state = "LEFT" => Ball_X_Pos - 1 \in Ball_X_Center - Travel .. Ball_X_Center
         /\ curr_state = "RIGHT" => Ball_X_Pos + 1 \in Ball_X_Center - Travel .. Ball_X_Center
<1> USE Parameters DEF TypeOK, OnPatrol, Travel, Limit, WALK, STILL
<1>1. CASE curr_state = "LEFT"
  BY <1>1
<1>2. CASE curr_state = "RIGHT"
  BY <1>2
<1>3. CASE curr_state = "STILL1" \/ curr_state = "STILL2"
  BY <1>3
<1> QED
  BY <1>1, <1>2, <1>3 DEF States

\* While it patrols, the edge tests of goombaPos never stop it.
LEMMA NoEdge ==
  ASSUME TypeOK, OnPatrol
  PROVE  Ball_X_Pos' = (Ball_X_Pos + Ball_X_Motion) % 1024 =>
           Ball_X_Pos' = CASE curr_state = "LEFT" -> Ball_X_Pos - 1
                           [] curr_state = "RIGHT" -> Ball_X_Pos + 1
                           [] OTHER -> Ball_X_Pos
<1>0. /\ Ball_X_Pos \in Nat /\ Ball_X_Pos <= Ball_X_Center
      /\ Ball_X_Pos > Ball_X_Min
  BY Ends, Parameters DEF Travel, WALK
<1>1. CASE curr_state = "LEFT"
  <2>1. Ball_X_Pos - 1 > Ball_X_Min
    BY <1>0, <1>1, Ends, Parameters DEF Travel, WALK
  <2>2. /\ (Ball_X_Pos + 1023 + 16) % 1024 = Ball_X_Pos + 15
        /\ (Ball_X_Pos + 1023) % 1024 = Ball_X_Pos - 1
    BY <1>0, <2>1, Parameters
  <2>3. Ball_X_Motion = 1023
    BY <1>0, <1>1, <2>1, <2>2, Parameters DEF Ball_X_Motion, new_velocity, Signed, WIDTH
  <2>4. (Ball_X_Pos + Ball_X_Motion) % 1024 = Ball_X_Pos - 1
    BY <2>2, <2>3
  <2> QED
    BY <1>1, <2>4
<1>2. CASE curr_state = "RIGHT"
  <2>1. /\ (Ball_X_Pos + 1 + 16) % 1024 = Ball_X_Pos + 17
        /\ (Ball_X_Pos + 1) % 1024 = Ball_X_Pos + 1
    BY <1>0, Parameters
  <2>2. Ball_X_Motion = 1
    BY <1>0, <1>2, <2>1, Ends, Parameters DEF Ball_X_Motion, new_velocity, Signed, WIDTH
  <2> QED
    BY <1>2, <2>1, <2>2
<1>3. CASE curr_state = "STILL1" \/ curr_state = "STILL2"
  <2>1. Ball_X_Motion = 0
    BY <1>3 DEF Ball_X_Motion, new_velocity
  <2>2. (Ball_X_Pos + 0) % 1024 = Ball_X_Pos
    BY <1>0, Parameters
  <2> QED
    BY <1>3, <2>1, <2>2
<1> QED
  BY <1>1, <1>2, <1>3 DEF TypeOK, States

\* The invariant holds when the game is switched on.
LEMMA InitIInv == Init => IInv
BY Parameters DEF Init, IInv, TypeOK, States, OnPatrol, Limit, STILL, WALK

\* A frame of gsm keeps the position where the state and the counter say.
LEMMA FramePatrols ==
  ASSUME TypeOK, OnPatrol, gsm, Ball_X_Pos' = (Ball_X_Pos + Ball_X_Motion) % 1024
  PROVE  OnPatrol'
<1>0. /\ Ball_X_Center \in Int /\ Ball_X_Pos \in Int /\ counter \in Int
      /\ curr_state = "LEFT" => Ball_X_Pos' = Ball_X_Pos - 1
      /\ curr_state = "RIGHT" => Ball_X_Pos' = Ball_X_Pos + 1
      /\ curr_state \in {"STILL1", "STILL2"} => Ball_X_Pos' = Ball_X_Pos
  BY NoEdge, Parameters DEF TypeOK, Limit, WALK, STILL
<1> USE <1>0 DEF gsm, OnPatrol, Limit, Travel, STILL, WALK, Successor
<1>1. CASE curr_state = "STILL1"
  BY <1>1
<1>2. CASE curr_state = "LEFT"
  BY <1>2 DEF TypeOK
<1>3. CASE curr_state = "STILL2"
  BY <1>3
<1>4. CASE curr_state = "RIGHT"
  BY <1>4 DEF TypeOK
<1> QED
  BY <1>1, <1>2, <1>3, <1>4 DEF TypeOK, States

\* A frame keeps the life and the patrol counter in their types.
LEMMA FrameTypes ==
  ASSUME TypeOK, Tick
  PROVE  TypeOK'
<1>1. curr_state' \in States /\ counter' \in 0 .. Limit(curr_state')
  BY DEF Tick, Frame, gsm, TypeOK, States, Successor, Limit, STILL, WALK
<1>2. Ball_Y_Pos' \in {Ball_Y_Center, Grave}
  BY DEF Tick, Frame, goombaPos
<1>3. Ball_X_Pos' \in 0 .. 1023
  <2>1. Ball_X_Motion \in {0, 1, 1023}
    BY DEF Ball_X_Motion, new_velocity
  <2>2. (Ball_X_Pos + Ball_X_Motion) % 1024 \in 0 .. 1023
    BY <2>1 DEF TypeOK
  <2> QED
    BY <2>2 DEF Tick, Frame, goombaPos, Grave
<1>4. Reset' \in BOOLEAN /\ isAlive' \in BOOLEAN
  BY DEF Tick, Frame, goomba, TypeOK
<1> QED
  BY <1>1, <1>2, <1>3, <1>4 DEF TypeOK

\* The inductive step.
THEOREM StepIInv == IInv /\ [Next]_vars => IInv'
<1> SUFFICES ASSUME IInv, [Next]_vars
             PROVE  IInv'
  OBVIOUS
<1>1. CASE Tick
  <2>1. TypeOK'
    BY <1>1, FrameTypes DEF Tick, Frame, IInv
  <2>2. isAlive' => isAlive
    BY <1>1 DEF Tick, Frame, goomba
  <2>3. isAlive => OnPatrol'
    BY <1>1, FramePatrols DEF Tick, Frame, goombaPos, IInv
  <2> QED
    BY <2>1, <2>2, <2>3 DEF IInv
<1>2. CASE PressReset
  BY <1>2, Parameters DEF PressReset, Registers0, IInv, TypeOK, States, OnPatrol,
     Limit, STILL, WALK
<1>3. CASE ReleaseReset
  BY <1>3 DEF ReleaseReset, IInv, TypeOK, OnPatrol
<1>4. CASE UNCHANGED vars
  BY <1>4 DEF vars, IInv, TypeOK, OnPatrol
<1> QED
  BY <1>1, <1>2, <1>3, <1>4 DEF Next

\* The invariant holds in every state (goomba.sv).
THEOREM Invariance == Spec => []IInv
BY InitIInv, StepIInv, PTL DEF Spec

\* The registers of goomba.sv keep their types.
THEOREM TypeCorrect == Spec => []TypeOK
<1>1. IInv => TypeOK
  BY DEF IInv
<1> QED
  BY <1>1, Invariance, PTL

\* No living Goomba walks into the blocks beside its patrol, if it starts between them.
THEOREM AlwaysBetweenBlocks ==
  ASSUME Ball_X_Center \in 433 .. 464
  PROVE  Spec => []StaysBetweenBlocks
<1>1. IInv => StaysBetweenBlocks
  <2> SUFFICES ASSUME IInv, isAlive, NEW n \in {24, 30},
                      NEW p \in Ball_X_Pos .. Ball_X_Pos + WIDTH - 1
               PROVE  p \notin Column(n)
    BY DEF StaysBetweenBlocks
  <2>1. Ball_X_Pos \in 400 .. 464
    BY Ends DEF IInv, Travel, WALK
  <2> QED
    BY <2>1 DEF Column, WIDTH
<1> QED
  BY <1>1, Invariance, PTL

----------------------------------------------------------------------------
(* The implementation of Patrol *)

\* Every step is a step of Patrol or a stutter.
LEMMA PatrolStep == IInv /\ [Next]_vars => [Enemy!Next]_(Enemy!vars)
<1> SUFFICES ASSUME IInv, [Next]_vars
             PROVE  Enemy!Next \/ UNCHANGED Enemy!vars
  OBVIOUS
<1>1. CASE Tick /\ isAlive
  <2>1. ~Reset /\ isAlive' \in BOOLEAN /\ UNCHANGED Reset
    BY <1>1 DEF Tick, Frame, goomba
  <2>2. Ball_X_Pos' \in {Ball_X_Pos - 1, Ball_X_Pos, Ball_X_Pos + 1}
    BY <1>1, NoEdge DEF Tick, Frame, goombaPos, IInv
  <2>3. Ball_X_Pos' \in Ball_X_Center - Travel .. Ball_X_Center
    BY <1>1, NoEdge, Ends DEF Tick, Frame, goombaPos, IInv, TypeOK, States
  <2> QED
    BY <1>1, <2>1, <2>2, <2>3 DEF Enemy!Next, Enemy!Walk
<1>2. CASE Tick /\ ~isAlive
  BY <1>2 DEF Tick, Frame, goomba, goombaPos, IInv, TypeOK, Enemy!Next, Enemy!Bury
<1>3. CASE PressReset
  BY <1>3 DEF PressReset, Registers0, Enemy!Next, Enemy!Again
<1>4. CASE ReleaseReset
  BY <1>4 DEF ReleaseReset, Enemy!Next, Enemy!Release
<1>5. CASE UNCHANGED vars
  BY <1>5 DEF vars, Enemy!vars
<1> QED
  BY <1>1, <1>2, <1>3, <1>4, <1>5 DEF Next

\* The Goomba is an enemy as Patrol promises it.
THEOREM ImplementsPatrol == Spec => PatrolSpec
<1>1. Init => Enemy!Init
  BY DEF Init, Enemy!Init
<1> QED
  BY <1>1, PatrolStep, Invariance, PTL DEF Spec, PatrolSpec, Enemy!Spec
----------------------------------------------------------------------------
(* The pictures *)

\* The frames before the next stride, as Strides counts them.
Wait == 4 * eighth_frame_clk + 2 * quarter_frame_clk + half_frame_clk

Types ==
  /\ half_frame_clk \in {0, 1} /\ quarter_frame_clk \in {0, 1} /\ eighth_frame_clk \in {0, 1}
  /\ which_mario \in 0 .. 3 /\ which_goomba \in {0, 1}
  /\ idle \in 0 .. 8

\* Mario runs only as long as the stride in which he was told to.
Runs == which_mario # 0 => idle + Wait <= 7

PictureInv == Types /\ Runs

----------------------------------------------------------------------------

\* The rippling clocks count down, and start again from 7 with a stride.
LEMMA Countdown ==
  ASSUME Types, Divide
  PROVE  /\ EighthRises <=> Wait = 0
         /\ Wait \in 0 .. 7
         /\ Wait' = IF Wait = 0 THEN 7 ELSE Wait - 1
         /\ half_frame_clk' \in {0, 1} /\ quarter_frame_clk' \in {0, 1}
         /\ eighth_frame_clk' \in {0, 1}
  BY DEF Types, Divide, Wait, EighthRises, QuarterRises, HalfRises

\* The next running picture is one of them.
LEMMA NextPicture ==
  ASSUME NEW p \in 0 .. 3
  PROVE  (p % 3) + 1 \in 1 .. 3
  <1>1. p \in {0, 1, 2, 3}  BY SMT
  <1>2. CASE p = 0
    <2>1. 0 % 3 = 0  BY SMT
    <2> QED  BY <1>2, <2>1
  <1>3. CASE p = 1
    <2>1. 1 % 3 = 1  BY SMT
    <2> QED  BY <1>3, <2>1
  <1>4. CASE p = 2
    <2>1. 2 % 3 = 2  BY SMT
    <2> QED  BY <1>4, <2>1
  <1>5. CASE p = 3
    <2>1. 3 % 3 = 0  BY SMT
    <2> QED  BY <1>5, <2>1
  <1> QED  BY <1>1, <1>2, <1>3, <1>4, <1>5

\* The invariant holds when the game is switched on.
LEMMA InitPictureInv == AnimationInit => PictureInv
  BY DEF AnimationInit, PictureInv, Types, Runs, Wait

\* An edge of vs preserves it: a frame that ends a stride settles what Mario shows, every
\* other one brings the end of the stride as much nearer as it makes him idle.
LEMMA FramePictureInv ==
  ASSUME PictureInv, AnimatedFrame
  PROVE  PictureInv'
  <1>1. PICK walking \in BOOLEAN :
          /\ Divide /\ dynamic_sprite(walking) /\ dynamic_goomba
          /\ idle' = IF walking THEN 0 ELSE IF idle = 8 THEN 8 ELSE idle + 1
    BY DEF AnimatedFrame
  <1>2. Types  BY DEF PictureInv
  <1>3. /\ EighthRises <=> Wait = 0
        /\ Wait \in 0 .. 7
        /\ Wait' = IF Wait = 0 THEN 7 ELSE Wait - 1
        /\ half_frame_clk' \in {0, 1} /\ quarter_frame_clk' \in {0, 1}
        /\ eighth_frame_clk' \in {0, 1}
    BY <1>1, <1>2, Countdown
  <1>4. which_mario' = IF Wait # 0 THEN which_mario
                       ELSE IF walking THEN (which_mario % 3) + 1 ELSE 0
    BY <1>1, <1>3 DEF dynamic_sprite
  <1>5. (which_mario % 3) + 1 \in 1 .. 3  BY <1>2, NextPicture DEF Types
  <1>6. Types'
    <2>1. which_mario' \in 0 .. 3  BY <1>2, <1>4, <1>5 DEF Types
    <2>2. which_goomba' \in {0, 1}  BY <1>1, <1>2 DEF dynamic_goomba, Types
    <2>3. idle' \in 0 .. 8  BY <1>1, <1>2 DEF Types
    <2> QED  BY <1>3, <2>1, <2>2, <2>3 DEF Types
  <1>7. Runs'
    <2> SUFFICES ASSUME which_mario' # 0 PROVE idle' + Wait' <= 7  BY DEF Runs
    <2>1. CASE Wait = 0
      <3>1. walking  BY <1>4, <2>1
      <3>2. idle' = 0 /\ Wait' = 7  BY <1>1, <1>3, <2>1, <3>1
      <3> QED  BY <3>2
    <2>2. CASE Wait # 0
      <3>1. idle + Wait <= 7  BY <1>4, <2>2 DEF PictureInv, Runs
      <3>2. Wait' = Wait - 1  BY <1>3, <2>2
      <3>3. idle \in 0 .. 8  BY <1>2 DEF Types
      <3>4. idle' \in 0 .. 8 /\ idle' <= idle + 1  BY <1>1, <3>3
      <3>5. Wait \in 0 .. 7  BY <1>3
      <3>6. idle' + (Wait - 1) <= 7
        <4>1. \A i, j, w \in Int : i + w <= 7 /\ j <= i + 1 => j + (w - 1) <= 7  BY SMT
        <4>2. idle \in Int /\ idle' \in Int /\ Wait \in Int  BY <3>3, <3>4, <3>5
        <4> QED  BY <3>1, <3>4, <4>1, <4>2, Zenon
      <3> QED  BY <3>2, <3>6, Zenon
    <2> QED  BY <2>1, <2>2
  <1> QED  BY <1>6, <1>7 DEF PictureInv

\* The reset preserves it, because the first frame after it ends a stride.
LEMMA PressPictureInv ==
  ASSUME PictureInv, AnimatedPress
  PROVE  PictureInv'
  <1>1. /\ half_frame_clk' = 0 /\ quarter_frame_clk' = 0 /\ eighth_frame_clk' = 0
        /\ which_goomba' = 0 /\ UNCHANGED <<which_mario, idle>>
    BY DEF AnimatedPress, DividersReset
  <1>2. Wait' = 0  BY <1>1 DEF Wait
  <1>3. Wait \in Nat  BY DEF PictureInv, Types, Wait
  <1>4. idle \in 0 .. 8  BY DEF PictureInv, Types
  <1>5. Types'  BY <1>1 DEF PictureInv, Types
  <1>6. Runs'  BY <1>1, <1>2, <1>3, <1>4 DEF PictureInv, Runs
  <1> QED  BY <1>5, <1>6 DEF PictureInv

\* Every step preserves it.
LEMMA StepPictureInv == PictureInv /\ [AnimationNext]_animationVars => PictureInv'
  <1> SUFFICES ASSUME PictureInv, [AnimationNext]_animationVars PROVE PictureInv'  OBVIOUS
  <1>1. CASE AnimatedFrame  BY <1>1, FramePictureInv
  <1>2. CASE AnimatedPress  BY <1>2, PressPictureInv
  <1>3. CASE AnimatedRelease
    BY <1>3 DEF AnimatedRelease, dividers, PictureInv, Types, Runs, Wait
  <1>4. CASE UNCHANGED animationVars
    BY <1>4 DEF animationVars, dividers, PictureInv, Types, Runs, Wait
  <1> QED  BY <1>1, <1>2, <1>3, <1>4 DEF AnimationNext

\* The invariant holds in every frame.
THEOREM PictureInvariance == AnimationSpec => []PictureInv
  BY InitPictureInv, StepPictureInv, PTL DEF AnimationSpec

----------------------------------------------------------------------------
(* The results *)

\* A Mario who is not told to walk is shown standing within eight frames, whatever the
\* reset, which does not reach his machine (dynamic_sprite.sv), finds him doing.
THEOREM AlwaysComesToRest == AnimationSpec => []StandsAtRest
  <1>1. PictureInv => StandsAtRest
    <2> SUFFICES ASSUME PictureInv, idle = 8 PROVE which_mario = 0  BY DEF StandsAtRest
    <2>1. Wait \in Nat  BY DEF PictureInv, Types, Wait
    <2> QED  BY <2>1 DEF PictureInv, Runs
  <1> QED  BY <1>1, PictureInvariance, PTL

\* The clocks of ball.sv, each driven by the one before it, and the two machines show the
\* strides the picture is made for.
THEOREM ImplementsStrides == AnimationSpec => StrideSpec
  <1>1. AnimationInit => Shown!Init
    BY DEF AnimationInit, Init, Shown!Init
  <1>2. PictureInv /\ [AnimationNext]_animationVars => [Shown!Next]_Shown!vars
    <2> SUFFICES ASSUME PictureInv, [AnimationNext]_animationVars PROVE [Shown!Next]_Shown!vars
      OBVIOUS
    <2>1. CASE AnimatedFrame
      <3>1. PICK walking \in BOOLEAN : Divide /\ dynamic_sprite(walking) /\ dynamic_goomba
        BY <2>1 DEF AnimatedFrame
      <3>2. /\ EighthRises <=> Wait = 0
            /\ Wait \in 0 .. 7
            /\ Wait' = IF Wait = 0 THEN 7 ELSE Wait - 1
        BY <3>1, Countdown DEF PictureInv
      <3>0. ~Reset /\ UNCHANGED Reset  BY <2>1 DEF AnimatedFrame, Frame
      <3>3. CASE Wait = 0
        <4>1. /\ which_mario' \in {0, (which_mario % 3) + 1}
              /\ which_goomba' = 1 - which_goomba
          BY <3>1, <3>2, <3>3 DEF dynamic_sprite, dynamic_goomba
        <4>2. Wait' = 7  BY <3>2, <3>3
        <4> QED  BY <3>0, <3>3, <4>1, <4>2 DEF Shown!Next, Shown!Stride, Wait
      <3>4. CASE Wait # 0
        <4>1. UNCHANGED <<which_mario, which_goomba>>
          BY <3>1, <3>2, <3>4 DEF dynamic_sprite, dynamic_goomba
        <4>2. Wait > 0 /\ Wait' = Wait - 1  BY <3>2, <3>4
        <4> QED  BY <3>0, <4>1, <4>2 DEF Shown!Next, Shown!Hold, Wait
      <3> QED  BY <3>3, <3>4
    <2>2. CASE AnimatedPress
      <3>1. /\ half_frame_clk' = 0 /\ quarter_frame_clk' = 0 /\ eighth_frame_clk' = 0
            /\ which_goomba' = 0 /\ UNCHANGED which_mario
            /\ ~Reset /\ Reset' = TRUE
        BY <2>2 DEF AnimatedPress, PressReset, DividersReset
      <3>2. Wait' = 0  BY <3>1 DEF Wait
      <3> QED  BY <3>1, <3>2 DEF Shown!Next, Shown!Again, Wait
    <2>3. CASE AnimatedRelease
      BY <2>3 DEF AnimatedRelease, ReleaseReset, dividers, Shown!Next, Shown!Release
    <2>4. CASE UNCHANGED animationVars
      BY <2>4 DEF animationVars, vars, dividers, Shown!vars
    <2> QED  BY <2>1, <2>2, <2>3, <2>4 DEF AnimationNext
  <1> QED  BY <1>1, <1>2, PictureInvariance, PTL DEF AnimationSpec, StrideSpec, Shown!Spec

\* The pictures leave the Goomba its steps: it is the enemy of Patrol also with them.
THEOREM AnimatedPatrol == AnimationSpec => PatrolSpec
  <1>1. AnimationInit => Init  BY DEF AnimationInit
  <1>2. [AnimationNext]_animationVars => [Next]_vars
    BY DEF AnimationNext, AnimatedFrame, AnimatedPress, AnimatedRelease, animationVars, Next, Tick
  <1>3. Init => Enemy!Init  BY DEF Init, Enemy!Init
  <1> QED
    BY <1>1, <1>2, <1>3, InitIInv, StepIInv, PatrolStep, PTL
       DEF AnimationSpec, PatrolSpec, Enemy!Spec
=============================================================================
