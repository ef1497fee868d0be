----------------------------- MODULE VgaTiming -----------------------------
(***************************************************************************)
(* VGA_controller.sv: the pixel and line counters and the registered sync  *)
(* pulses.  lab62.sv clocks the whole game with vs.  Reset is the button   *)
(* KEY[0]; it is asynchronous and may be pressed and released at any time. *)
(***************************************************************************)
EXTENDS Integers

CONSTANTS hpixels, vlines    \* the last pixel of a line, the last line of a frame

ASSUME VgaAssumption ==
  /\ hpixels \in 1 .. 1023 /\ hpixels \notin 655 .. 750    \* a line does not end within
  /\ vlines \in 491 .. 1023    \* its sync pulse, nor a frame before the end of its own

VARIABLES Reset, clkdiv, hc, vc, hs, vs
timingVars == <<Reset, clkdiv, hc, vc, hs, vs>>

----------------------------------------------------------------------------
(* The decoders *)

display == hc < 640 /\ vc < 480

\* Mutants: a literal is wrong, so that the vertical pulse is in the picture, or comes twice.
VsLowInPicture == vc + 1 = 234 \/ vc + 1 = 235
VsLowTwice == vc + 1 = 490 \/ vc + 1 = 492

atEndOfLine == hc = hpixels
HsLow == hc + 1 >= 656 /\ hc + 1 < 752
VsLow == vc + 1 = 490 \/ vc + 1 = 491

----------------------------------------------------------------------------
(* The registers *)

\* counter_proc, hsync_proc and vsync_proc, at a rising edge of the pixel clock.
Pixel ==
  /\ hc' = IF atEndOfLine THEN 0 ELSE hc + 1
  /\ vc' = IF atEndOfLine THEN (IF vc = vlines THEN 0 ELSE vc + 1) ELSE vc
  /\ hs' = IF HsLow THEN 0 ELSE 1
  /\ vs' = IF VsLow THEN 0 ELSE 1

\* A cycle of the 50 MHz clock; every second one is a pixel.
Clk ==
  /\ ~Reset
  /\ clkdiv' = 1 - clkdiv
  /\ IF clkdiv = 0 THEN Pixel ELSE UNCHANGED <<hc, vc, hs, vs>>
  /\ UNCHANGED Reset

PressReset ==
  /\ ~Reset
  /\ Reset' = TRUE
  /\ clkdiv' = 0 /\ hc' = 0 /\ vc' = 0 /\ hs' = 0 /\ vs' = 0

ReleaseReset ==
  /\ Reset
  /\ Reset' = FALSE
  /\ UNCHANGED <<clkdiv, hc, vc, hs, vs>>

\* The registers power up at 0, with the button pressed or not.
TimingInit == Reset \in BOOLEAN /\ clkdiv = 0 /\ hc = 0 /\ vc = 0 /\ hs = 0 /\ vs = 0

TimingNext == Clk \/ PressReset \/ ReleaseReset

TimingSpec == TimingInit /\ [][TimingNext]_timingVars /\ WF_timingVars(Clk)    \* the oscillator runs

----------------------------------------------------------------------------
(* Properties *)

\* The type invariant: the counters, which are DrawX and DrawY, stay in the frame.
TypeOK ==
  /\ Reset \in BOOLEAN
  /\ clkdiv \in {0, 1}
  /\ hc \in 0 .. hpixels
  /\ vc \in 0 .. vlines
  /\ hs \in {0, 1} /\ vs \in {0, 1}

\* Until the first pixel after a reset both pulses keep the level of the reset.
fresh == hc = 0 /\ vc = 0 /\ vs = 0

\* Where the vertical pulse is: two whole lines, begun one pixel into line 489.
inPulse == \/ vc = 489 /\ hc >= 1
           \/ vc = 490
           \/ vc = 491 /\ hc = 0

\* The registered pulses fit the counters they were decoded from a pixel earlier: the
\* horizontal one is pixels 656 to 751, the vertical one two lines.
PulseShape ==
  ~fresh => /\ hs = 0 <=> hc \in 656 .. 751
            /\ vs = 0 <=> inPulse

\* The game never steps while a pixel is shown, so that no frame mixes two states of
\* the game, except for the one step that the end of a reset causes.
TicksInBlanking == [][vs = 0 /\ vs' = 1 /\ ~fresh => ~display /\ ~display']_timingVars

\* The timing implements FrameClock: one step of the game per frame.
stage == CASE Reset -> "held"
           [] ~Reset /\ fresh -> "start"
           [] ~Reset /\ ~fresh /\ vs = 0 -> "pulse"
           [] ~Reset /\ vs = 1 /\ vc < 480 -> "picture"
           [] ~Reset /\ vs = 1 /\ vc \in 480 .. 489 -> "front"
           [] OTHER -> "back"
Frame == INSTANCE FrameClock
FrameSpec == Frame!Spec
=============================================================================
