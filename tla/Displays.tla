------------------------------ MODULE Displays ------------------------------
(***************************************************************************)
(* The two numbers of a report on the board's seven-segment displays: the  *)
(* first on HEX5 to HEX3, the second on HEX2 to HEX0.  Both live in the    *)
(* same two ports, so that each of printSignedHex0 and printSignedHex1 has *)
(* to leave the other's half alone: the port of four hexadecimal digits,   *)
(* and the port of the LEDs whose bits 10 to 13 are the signs and the      *)
(* hundreds.  io is the pair of ports, each the set of its bits that are   *)
(* one, so that | is a union, & an intersection and << a shift of each.    *)
(***************************************************************************)
EXTENDS Integers, Sequences

\* The bits of a byte that are one, and the same bits k places further up.
Weight == <<1, 2, 4, 8, 16, 32, 64, 128>>
BitsOf(n) == {b \in 0 .. 7 : (n \div Weight[b + 1]) % 2 = 1}
Shifted(bits, k) == {b + k : b \in bits}

\* A value as a signed char; division as C does it.
SignedChar(x) == ((x + 128) % 256) - 128
Quot(a, b) == IF a < 0 THEN -((-a) \div b) ELSE a \div b
Rem(a, b) == a - b * Quot(a, b)

\* LED n on or off.
setLED(io, n, on) == [io EXCEPT !.leds = IF on THEN @ \union {n} ELSE @ \ {n}]

\* Mutant: the sign stays in the value.
MagnitudeSigned(v) == v
Magnitude(v) == IF v < 0 THEN SignedChar(-v) ELSE v
Hundreds(v) == Quot(Magnitude(v), 100) # 0
Tens(v) == Quot(Rem(Magnitude(v), 100), 10) % 256        \* BYTE
Ones(v) == Rem(Rem(Magnitude(v), 100), 10) % 256

Signs(io, v, sign, hundreds) == setLED(setLED(io, sign, v < 0), hundreds, Hundreds(v))

printSignedHex0(io, v) ==
  [Signs(io, v, 11, 13) EXCEPT
     !.hex = ((@ \intersect 0 .. 7) \union Shifted(BitsOf(Tens(v)), 12)
              \union Shifted(BitsOf(Ones(v)), 8)) \intersect 0 .. 15]

\* Mutant: the first number is not kept.
printAlone(io, v) ==
  [Signs(io, v, 10, 12) EXCEPT !.hex = Shifted(BitsOf(Tens(v)), 4) \union BitsOf(Ones(v))]

printSignedHex1(io, v) ==
  [Signs(io, v, 10, 12) EXCEPT
     !.hex = (@ \intersect 8 .. 15) \union Shifted(BitsOf(Tens(v)), 4) \union BitsOf(Ones(v))]

\* The segments a digit switches, one bit each; a 0 lights it.
HexDriver == <<64, 121, 36, 48, 25, 18, 2, 120, 0, 16, 8, 3, 70, 33, 6, 14>>
Lit(code) == 0 .. 6 \ BitsOf(code)
In0(io, k) == LET bit(i) == IF 4 * k + i \in io.hex THEN Weight[i + 1] ELSE 0
              IN  bit(0) + bit(1) + bit(2) + bit(3)
Digit(io, k) == Lit(HexDriver[In0(io, k) + 1])

\* HEX5 and HEX2 show a sign and a one.
SignDigit(io, sign, hundreds) ==
  (IF sign \in io.leds THEN {6} ELSE {}) \union (IF hundreds \in io.leds THEN {1, 2} ELSE {})
-----------------------------------------------------------------------------
(* What the reader of the board sees *)

\* The figures 0 to 9 as they are drawn, segments counted from the top clockwise.
Figure == << {0, 1, 2, 3, 4, 5}, {1, 2}, {0, 1, 3, 4, 6}, {0, 1, 2, 3, 6}, {1, 2, 5, 6},
             {0, 2, 3, 5, 6}, {0, 2, 3, 4, 5, 6}, {0, 1, 2}, 0 .. 6, {0, 1, 2, 3, 5, 6} >>

\* The three displays show number v.
Reads(first, second, third, v) ==
  LET m == IF v < 0 THEN -v ELSE v
  IN  /\ first = (IF v < 0 THEN {6} ELSE {}) \union (IF m >= 100 THEN Figure[2] ELSE {})
      /\ second = Figure[((m % 100) \div 10) + 1]
      /\ third = Figure[(m % 10) + 1]

Ports == [hex : SUBSET (0 .. 15), leds : SUBSET (0 .. 13)]
Numbers == -127 .. 127                      \* what a boot mouse reports

\* After a report of v and w the reader sees both, and the LEDs of the loop are as they were.
ReadBack(io, v, w) ==
  LET new == printSignedHex1(printSignedHex0(io, v), w)
  IN  /\ Reads(SignDigit(new, 11, 13), Digit(new, 3), Digit(new, 2), v)
      /\ Reads(SignDigit(new, 10, 12), Digit(new, 1), Digit(new, 0), w)
      /\ new.leds \intersect (0 .. 9) = io.leds \intersect (0 .. 9)

\* The numbers and pictures of a run: every number beside one at an edge.
Corners == {-127, -100, -1, 0, 9, 127}
Before == {[hex |-> h, leds |-> l] : h \in {{}, {0, 3, 6, 9, 12, 15}, 0 .. 15}, l \in {{}, 0 .. 13}}

\* Any two numbers are read back, whatever was shown before.  -128 is not one of them:
\* its magnitude does not fit.
NumbersReadBack ==
  \A io \in Before, v \in Numbers, w \in Numbers :
    v \in Corners \/ w \in Corners => ReadBack(io, v, w)
=============================================================================
