---------------------------- MODULE Clocks_proof ----------------------------
(***************************************************************************)
(* Proofs about the two clocks: the ticks of the program, and the frames   *)
(* of the game.                                                            *)
(*                                                                         *)
(* SystemClock, for any word, rates and set of alarms.  The time of day    *)
(* and the waits are arithmetic: a tick moves the phase of the             *)
(* milliseconds by at most a tick, though it may wrap.  The alarms need    *)
(* that the list is one ring, numbered in the order in which alt_tick      *)
(* meets its alarms, and that what comes before the alarm alt_tick looks   *)
(* at, or before the one it has noted, has its turn behind it.             *)
(* The same numbers show that a tick comes to an end: no alarm is met a    *)
(* second time, whatever callbacks start and stop.                         *)
(*                                                                         *)
(* VgaTiming, for any length of line and frame.  PulseShape is inductive   *)
(* once it is known that a held reset keeps the registers at 0; the action *)
(* property and the implementation of FrameClock follow.                   *)
(***************************************************************************)
EXTENDS SystemClock, VgaTiming, TLAPS

\* Division and remainder by a variable divisor.
LEMMA DivMod ==
  ASSUME NEW a \in Int, NEW b \in Nat \ {0}
  PROVE  /\ a \div b \in Int /\ a % b \in Int
         /\ a = b * (a \div b) + (a % b)
         /\ 0 <= a % b /\ a % b < b
<1>1. b \in Int /\ b > 0
  OBVIOUS
<1>2. a \div b \in Int /\ a % b \in Int
  BY <1>1
<1>3. a = b * (a \div b) + (a % b)
  <2>1. a % b = a - b * (a \div b) /\ b * (a \div b) \in Int
    BY <1>1, <1>2
  <2> QED
    BY <1>2, <2>1
<1>4. 0 <= a % b /\ a % b < b
  BY <1>1
<1> QED
  BY <1>2, <1>3, <1>4

\* They are determined by that.
LEMMA ModUnique ==
  ASSUME NEW a \in Int, NEW b \in Nat \ {0}, NEW k \in Int, NEW c \in Int,
         a = b * k + c, 0 <= c, c < b
  PROVE  a % b = c /\ a \div b = k
<1> DEFINE j == a \div b
           m == a % b
<1>1. j \in Int /\ m \in Int /\ a = b * j + m /\ 0 <= m /\ m < b
  BY DivMod
<1> HIDE DEF j, m
<1>2. b * (k - j) = m - c
  BY <1>1
<1>3. k - j = 0
  <2>1. CASE k - j >= 1
    <3>1. b * (k - j) >= b
      BY <2>1, <1>1
    <3> QED
      BY <3>1, <1>1, <1>2
  <2>2. CASE k - j <= -1
    <3>1. b * (k - j) <= -b
      BY <2>2, <1>1
    <3> QED
      BY <3>1, <1>1, <1>2
  <2> QED
    BY <1>1, <2>1, <2>2
<1>4. k = j /\ m = c
  <2>1. k = j
    BY <1>1, <1>3
  <2> QED
    BY <1>1, <2>1
<1> QED
  BY <1>4 DEF j, m

\* What the assumption says of the words.
LEMMA Words ==
  /\ Word \in Nat /\ Word > 1 /\ TickRate \in Nat /\ TickRate >= 1
  /\ Thousand \in Nat /\ Thousand >= 1 /\ US \in Nat /\ US >= 1
  /\ SettleTime \in Nat /\ XferTimeout \in Nat
BY SystemClockAssumption

ClockInv == rate \in {0, TickRate} /\ nticks \in 0 .. Word - 1
----------------------------------------------------------------------------
(* The time of day *)

TickLength == US \div TickRate    \* alt_gettimeofday.c: ALT_US/alt_ticks_per_second()

\* The ticks of a second fill it.
LEMMA TickLengthIs == TickLength \in Nat /\ TickLength >= 1 /\ US = TickRate * TickLength
<1>1. US = TickRate * (US \div TickRate) + (US % TickRate) /\ US \div TickRate \in Int
  BY DivMod, Words
<1>2. US = TickRate * TickLength /\ TickLength \in Int
  BY <1>1, SystemClockAssumption DEF TickLength
<1>3. TickLength >= 1
  <2>1. SUFFICES ASSUME TickLength <= 0 PROVE FALSE
    BY <1>2
  <2>2. TickRate * TickLength <= 0
    BY <2>1, <1>2, Words
  <2> QED
    BY <2>2, <1>2, Words
<1> QED
  BY <1>2, <1>3

\* The seconds and the microseconds of n ticks are together n ticks.
LEMMA SplitIsExact ==
  ASSUME NEW n \in Nat
  PROVE  /\ n \div TickRate \in Int
         /\ (n * TickLength) % US \in 0 .. US - 1
         /\ (n \div TickRate) * US + ((n * TickLength) % US) = n * TickLength
<1> DEFINE s == n \div TickRate
           m == n % TickRate
<1>1. s \in Int /\ m \in Int /\ n = TickRate * s + m /\ 0 <= m /\ m < TickRate
  BY DivMod, Words
<1> HIDE DEF s, m
<1>2. m * TickLength \in Int /\ 0 <= m * TickLength
  BY <1>1, TickLengthIs
<1>3. m * TickLength < US
  <2>1. (TickRate - m) * TickLength >= 1
    BY <1>1, TickLengthIs, Words
  <2>2. (TickRate - m) * TickLength = TickRate * TickLength - m * TickLength
    BY <1>1, TickLengthIs, Words
  <2> QED
    BY <1>2, <2>1, <2>2, TickLengthIs, Words
<1>4. n * TickLength = US * s + m * TickLength
  BY <1>1, TickLengthIs, Words
<1>5. (n * TickLength) % US = m * TickLength
  <2>1. n * TickLength \in Int /\ US \in Nat \ {0}
    BY TickLengthIs, Words
  <2> QED
    BY <1>1, <1>2, <1>3, <1>4, <2>1, ModUnique
<1>6. s * US \in Int /\ s * US = US * s
  BY <1>1, Words
<1> QED
  <2>1. (n * TickLength) % US \in 0 .. US - 1
    BY <1>2, <1>3, <1>5, Words
  <2>2. s * US + ((n * TickLength) % US) = n * TickLength
    BY <1>1, <1>2, <1>4, <1>5, <1>6
  <2> QED
    BY <1>1, <2>1, <2>2 DEF s

DayInv ==
  /\ resettime = [sec |-> resettime.sec, usec |-> resettime.usec]
  /\ resettime.sec \in Int /\ resettime.usec \in 1 - US .. US - 1
  /\ set.sec \in Nat /\ set.usec \in 0 .. US - 1
  /\ setAt \in 0 .. Word - 1
  /\ setAt * TickLength < Word =>
       resettime.sec * US + resettime.usec = set.sec * US + set.usec - setAt * TickLength

\* Setting the time of day stores what its reading adds up again.
LEMMA SetKeeps ==
  ASSUME ClockInv, NEW t \in Times, settimeofday(t)
  PROVE  DayInv'
<1> DEFINE s == nticks \div TickRate
           u == ((nticks * TickLength) % Word) % US
<1>0. /\ rate = TickRate /\ nticks \in Nat /\ nticks \in 0 .. Word - 1
      /\ nticks * TickLength \in Nat
  BY Words, TickLengthIs DEF settimeofday, ClockInv
<1>1. t.sec \in Nat /\ t.usec \in 0 .. US - 1
  BY SystemClockAssumption
<1>2. s \in Int /\ u \in 0 .. US - 1
  <2>1. (nticks * TickLength) % Word \in Int
    BY <1>0, DivMod, Words
  <2> QED
    BY <1>0, <2>1, DivMod, Words
<1>3. resettime' = [sec |-> t.sec - s, usec |-> t.usec - u] /\ set' = t /\ setAt' = nticks
  BY <1>0 DEF settimeofday, TickLength
<1>4. ASSUME nticks * TickLength < Word
      PROVE  s * US + u = nticks * TickLength
  <2>1. (nticks * TickLength) % Word = nticks * TickLength
    BY <1>0, <1>4, ModUnique, Words
  <2> QED
    BY <1>0, <2>1, SplitIsExact
<1> HIDE DEF s, u
<1>5. (t.sec - s) * US = t.sec * US - s * US /\ s * US \in Int /\ t.sec * US \in Int
  BY <1>1, <1>2, Words
<1> QED
  BY <1>0, <1>1, <1>2, <1>3, <1>4, <1>5, Words DEF DayInv

\* What gettimeofday returns is what was set and the ticks since.
LEMMA ReadingIsExact == ClockInv /\ DayInv => DayIsKept
<1> SUFFICES ASSUME ClockInv, DayInv, rate # 0,
                    setAt * TickLength < Word, nticks >= setAt
             PROVE  /\ gettimeofday.usec \in 0 .. US - 1
                    /\ gettimeofday.sec * US + gettimeofday.usec
                         = set.sec * US + set.usec + (nticks - setAt) * TickLength
  BY DEF DayIsKept, ClockInv, TickLength
<1> DEFINE s == nticks \div TickRate
           u == (nticks * TickLength) % US
           sec == resettime.sec + s
           usec == resettime.usec + u
           total == set.sec * US + set.usec + (nticks - setAt) * TickLength
<1>0. rate = TickRate /\ nticks \in Nat /\ setAt \in Nat
  BY Words DEF ClockInv, DayInv
<1>1. gettimeofday = IF usec < 0 THEN (IF sec <= 0 THEN [sec |-> 0, usec |-> 0]
                                       ELSE [sec |-> sec - 1, usec |-> usec + US])
                     ELSE IF usec >= US THEN [sec |-> sec + 1, usec |-> usec - US]
                     ELSE [sec |-> sec, usec |-> usec]
  BY <1>0 DEF gettimeofday, TickLength
<1>2. s \in Int /\ u \in 0 .. US - 1 /\ s * US + u = nticks * TickLength
  BY <1>0, SplitIsExact
<1> HIDE DEF s, u
<1>3. sec \in Int /\ usec \in 1 - US .. US + US - 2
  BY <1>2, Words DEF DayInv
<1>4. sec * US + usec = total
  <2>1. sec * US = resettime.sec * US + s * US
    BY <1>2, Words DEF DayInv
  <2>2. (nticks - setAt) * TickLength = nticks * TickLength - setAt * TickLength
    BY <1>0, TickLengthIs
  <2>3. /\ resettime.sec * US \in Int /\ s * US \in Int /\ set.sec * US \in Int
        /\ nticks * TickLength \in Int /\ setAt * TickLength \in Int
    BY <1>0, <1>2, TickLengthIs, Words DEF DayInv
  <2>4. resettime.sec * US + resettime.usec = set.sec * US + set.usec - setAt * TickLength
    BY DEF DayInv
  <2>5. resettime.usec \in Int /\ set.usec \in Int /\ u \in Int
    BY <1>2, Words DEF DayInv
  <2>6. sec * US + usec = resettime.sec * US + s * US + (resettime.usec + u)
    BY <2>1
  <2> QED
    BY <1>2, <2>2, <2>3, <2>4, <2>5, <2>6
<1>5. total >= 0
  <2>1. set.sec * US >= 0 /\ (nticks - setAt) * TickLength >= 0 /\ set.usec >= 0
    BY <1>0, TickLengthIs, Words DEF DayInv
  <2>2. set.sec * US \in Int /\ (nticks - setAt) * TickLength \in Int /\ set.usec \in Int
    BY <1>0, TickLengthIs, Words DEF DayInv
  <2> QED
    BY <2>1, <2>2
<1> HIDE DEF sec, usec, total
<1>6. CASE usec < 0
  <2>1. ~(sec <= 0)
    <3>1. SUFFICES ASSUME sec <= 0 PROVE sec * US <= 0
      BY <1>3, <1>4, <1>5, <1>6, Words
    <3> QED
      BY <1>3, <3>1, Words
  <2>2. gettimeofday = [sec |-> sec - 1, usec |-> usec + US]
    BY <1>1, <1>6, <2>1
  <2>3. (sec - 1) * US = sec * US - US /\ sec * US \in Int
    BY <1>3, Words
  <2> QED
    BY <1>3, <1>4, <1>6, <2>2, <2>3, Words DEF total
<1>7. CASE usec >= US
  <2>1. gettimeofday = [sec |-> sec + 1, usec |-> usec - US]
    BY <1>1, <1>3, <1>7, Words
  <2>2. (sec + 1) * US = sec * US + US /\ sec * US \in Int
    BY <1>3, Words
  <2> QED
    BY <1>3, <1>4, <1>7, <2>1, <2>2, Words DEF total
<1>8. CASE usec \in 0 .. US - 1
  <2>1. gettimeofday = [sec |-> sec, usec |-> usec]
    BY <1>1, <1>8, Words
  <2> QED
    BY <1>3, <1>4, <1>8, <2>1 DEF total
<1> QED
  BY <1>3, <1>6, <1>7, <1>8, Words
----------------------------------------------------------------------------
(* The waits *)

Phase == (nticks * Thousand) % Word    \* what Millis divides

Asked == IF wait = "settle" THEN SettleTime ELSE XferTimeout

WaitInv ==
  /\ wait \in {"none", "settle", "xfer"}
  /\ waited \in 0 .. Word
  /\ wait # "none" =>
       /\ rate = TickRate
       /\ deadline \in Nat /\ deadline >= Asked
       /\ waited # Word => Phase < (deadline - Asked + 1) * TickRate + waited * Thousand

\* The milliseconds divide the phase, and stay far enough from the end of a word.
LEMMA MillisIs ==
  ASSUME ClockInv, rate = TickRate
  PROVE  /\ Phase \in Nat /\ Phase < Word
         /\ Millis \in Nat
         /\ Millis * TickRate <= Phase /\ Phase < (Millis + 1) * TickRate
         /\ Millis + SettleTime < Word /\ Millis + XferTimeout < Word
<1>1. nticks * Thousand \in Nat
  BY Words DEF ClockInv
<1>2. Phase \in Nat /\ Phase < Word
  BY <1>1, DivMod, Words DEF Phase
<1>3. Millis = Phase \div TickRate
  BY DEF Millis, Phase
<1>4. /\ Millis \in Int /\ Phase = TickRate * Millis + (Phase % TickRate)
      /\ 0 <= Phase % TickRate /\ Phase % TickRate < TickRate /\ Phase % TickRate \in Int
  BY <1>2, <1>3, DivMod, Words
<1>5. Millis * TickRate \in Int /\ (Millis + 1) * TickRate = Millis * TickRate + TickRate
      /\ TickRate * Millis = Millis * TickRate
  BY <1>4, Words
<1>6. Millis * TickRate <= Phase /\ Phase < (Millis + 1) * TickRate
  BY <1>2, <1>4, <1>5, Words
<1>7. Millis >= 0
  <2>1. SUFFICES ASSUME Millis + 1 <= 0 PROVE (Millis + 1) * TickRate <= 0
    BY <1>2, <1>4, <1>5, <1>6, Words
  <2> QED
    BY <2>1, <1>4, Words
<1>8. Millis <= (Word - 1) \div TickRate /\ (Word - 1) \div TickRate \in Int
  <2> DEFINE m == (Word - 1) \div TickRate
             r == (Word - 1) % TickRate
  <2>1. m \in Int /\ r \in Int /\ Word - 1 = TickRate * m + r /\ r < TickRate
    BY DivMod, Words
  <2> HIDE DEF m, r
  <2>2. SUFFICES ASSUME Millis >= m + 1 PROVE Millis * TickRate >= TickRate * m + TickRate
    <3>1. TickRate * m \in Int
      BY <2>1, Words
    <3> QED
      BY <1>2, <1>4, <1>5, <1>6, <2>1, <2>2, <3>1, Words DEF m
  <2>3. (Millis - m - 1) * TickRate >= 0
    BY <1>4, <2>1, <2>2, Words
  <2>4. (Millis - m - 1) * TickRate = Millis * TickRate - TickRate * m - TickRate
    BY <1>4, <2>1, Words
  <2>5. TickRate * m \in Int
    BY <2>1, Words
  <2> QED
    BY <1>5, <2>3, <2>4, <2>5, Words
<1>9. (Word - 1) \div TickRate + SettleTime < Word /\ (Word - 1) \div TickRate + XferTimeout < Word
  BY SystemClockAssumption
<1> QED
  BY <1>2, <1>4, <1>6, <1>7, <1>8, <1>9, Words

\* A tick moves the phase on by no more than a tick, though it may wrap.
LEMMA PhaseMoves ==
  ASSUME ClockInv, nticks' = (nticks + 1) % Word
  PROVE  nticks' \in 0 .. Word - 1 /\ Phase' \in Int /\ Phase' <= Phase + Thousand
<1>0. nticks \in Nat /\ nticks < Word /\ Phase \in Nat /\ nticks * Thousand \in Nat
  <2>1. nticks * Thousand \in Nat
    BY Words DEF ClockInv
  <2> QED
    BY <2>1, DivMod, Words DEF ClockInv, Phase
<1>1. nticks' = IF nticks + 1 = Word THEN 0 ELSE nticks + 1
  <2>1. CASE nticks + 1 = Word
    BY <1>0, <2>1, ModUnique, Words
  <2>2. CASE nticks + 1 < Word
    BY <1>0, <2>2, ModUnique, Words
  <2> QED
    BY <1>0, <2>1, <2>2, Words
<1>2. CASE nticks + 1 = Word
  <2>1. Phase' = (0 * Thousand) % Word
    BY <1>1, <1>2 DEF Phase
  <2>2. 0 * Thousand = 0
    BY Words
  <2>3. Phase' = 0
    BY <2>1, <2>2, ModUnique, Words
  <2> QED
    BY <1>0, <1>1, <1>2, <2>3, Words
<1>3. CASE nticks + 1 # Word
  <2> DEFINE x == nticks * Thousand
             k == x \div Word
             j == (x + Thousand) \div Word
             s == (x + Thousand) % Word
  <2>1. (nticks + 1) * Thousand = x + Thousand
    BY <1>0, Words
  <2>2. Phase' = s
    BY <1>1, <1>3, <2>1 DEF Phase
  <2>3. k \in Int /\ x = Word * k + Phase
    BY <1>0, DivMod, Words DEF Phase
  <2>4. j \in Int /\ s \in Int /\ x + Thousand = Word * j + s /\ 0 <= s /\ s < Word
    BY <1>0, DivMod, Words
  <2>5. x \in Nat
    BY <1>0
  <2> HIDE DEF x, k, j, s
  <2>6. j >= k
    <3>1. SUFFICES ASSUME j - k <= -1 PROVE Word * (j - k) <= -Word
      <4>1. Word * (j - k) = Word * j - Word * k /\ Word * j \in Int /\ Word * k \in Int
        BY <2>3, <2>4, Words
      <4> QED
        BY <1>0, <2>3, <2>4, <2>5, <3>1, <4>1, Words
    <3> QED
      BY <2>3, <2>4, <3>1, Words
  <2>7. Word * (j - k) >= 0
    BY <2>3, <2>4, <2>6, Words
  <2>8. Word * (j - k) = Word * j - Word * k /\ Word * j \in Int /\ Word * k \in Int
    BY <2>3, <2>4, Words
  <2>9. s <= Phase + Thousand
    BY <1>0, <2>3, <2>4, <2>5, <2>7, <2>8, Words
  <2> QED
    BY <1>0, <1>1, <1>3, <2>2, <2>4, <2>9, Words
<1> QED
  BY <1>2, <1>3

\* A wait begins with the phase of its first millisecond.
LEMMA WaitForKeeps ==
  ASSUME ClockInv, WaitInv, NEW kind, NEW ms, WaitFor(kind, ms),
         <<kind, ms>> \in {<<"settle", SettleTime>>, <<"xfer", XferTimeout>>}
  PROVE  WaitInv'
<1>1. /\ (kind = "settle" /\ ms = SettleTime) \/ (kind = "xfer" /\ ms = XferTimeout)
      /\ ms \in Nat
  BY Words
<1>2. /\ wait' = kind /\ deadline' = (Millis + ms) % Word /\ waited' = 0
      /\ rate = TickRate /\ rate' = rate /\ nticks' = nticks
  BY DEF WaitFor, ClockInv
<1>3. Phase' = Phase
  BY <1>2 DEF Phase
<1>4. Millis + ms \in Nat /\ Millis + ms < Word /\ Millis \in Nat
  BY <1>1, <1>2, MillisIs
<1>5. deadline' = Millis + ms
  BY <1>2, <1>4, ModUnique, Words
<1>6. Asked' = ms
  BY <1>1, <1>2 DEF Asked
<1>7. Phase < (Millis + 1) * TickRate
  BY <1>2, MillisIs
<1>8. deadline' - ms + 1 = Millis + 1 /\ 0 * Thousand = 0 /\ (Millis + 1) * TickRate \in Int
  BY <1>1, <1>4, <1>5, Words
<1>9. Phase' < (deadline' - Asked' + 1) * TickRate + waited' * Thousand
  BY <1>2, <1>3, <1>6, <1>7, <1>8
<1> QED
  BY <1>1, <1>2, <1>4, <1>5, <1>6, <1>9, Words DEF WaitInv

\* A tick of a wait pays for the phase it moves.
LEMMA TickKeepsWait ==
  ASSUME ClockInv, WaitInv, Tick
  PROVE  WaitInv'
<1>1. /\ nticks' = (nticks + 1) % Word /\ wait' = wait /\ deadline' = deadline /\ rate' = rate
      /\ waited' = IF wait = "none" \/ waited = Word THEN waited ELSE waited + 1
  BY DEF Tick
<1>2. Phase' \in Int /\ Phase' <= Phase + Thousand
  BY <1>1, PhaseMoves
<1>3. Asked' = Asked
  BY <1>1 DEF Asked
<1>4. waited' \in 0 .. Word
  BY <1>1, Words DEF WaitInv
<1>5. ASSUME wait # "none", waited' # Word
      PROVE  Phase' < (deadline - Asked + 1) * TickRate + waited' * Thousand
  <2>1. waited # Word /\ waited' = waited + 1 /\ waited \in Nat
    BY <1>1, <1>5, Words DEF WaitInv
  <2>2. Phase < (deadline - Asked + 1) * TickRate + waited * Thousand
    BY <1>5, <2>1 DEF WaitInv
  <2>3. waited' * Thousand = waited * Thousand + Thousand /\ waited * Thousand \in Int
    BY <2>1, Words
  <2>4. (deadline - Asked + 1) * TickRate \in Int
    BY <1>5, Words DEF WaitInv, Asked
  <2>5. Phase \in Int
    <3>1. nticks * Thousand \in Int
      BY Words DEF ClockInv
    <3> QED
      BY <3>1, DivMod, Words DEF Phase
  <2> QED
    BY <1>2, <2>2, <2>3, <2>4, <2>5, Words
<1> QED
  BY <1>1, <1>3, <1>4, <1>5 DEF WaitInv

\* A wait that is over has lasted as long as it was asked to, less the millisecond it
\* began in.
LEMMA OverInTime ==
  ASSUME ClockInv, WaitInv, Expire
  PROVE  waited * Thousand > (IF wait = "settle" THEN SettleTime ELSE XferTimeout - 1) * TickRate
<1> DEFINE least == IF wait = "settle" THEN SettleTime ELSE XferTimeout - 1
<1>0. /\ wait # "none" /\ rate = TickRate /\ deadline \in Nat /\ deadline >= Asked
      /\ waited \in 0 .. Word /\ Asked \in Nat
      /\ waited # Word => Phase < (deadline - Asked + 1) * TickRate + waited * Thousand
  BY Words DEF Expire, WaitInv, Asked
<1>1. Phase \in Nat /\ Phase < Word /\ Millis \in Nat /\ Millis * TickRate <= Phase
  BY <1>0, MillisIs
<1>2. least \in Int /\ Millis >= deadline - Asked + 1 + least /\ Millis >= least
  BY <1>0, <1>1, Words DEF Expire, IsOver, Asked
<1> HIDE DEF least
<1>3. CASE waited # Word
  <2> DEFINE e == deadline - Asked + 1
  <2>1. e \in Int /\ Millis - (e + least) >= 0
    BY <1>0, <1>1, <1>2
  <2> HIDE DEF e
  <2>2. (Millis - (e + least)) * TickRate >= 0
    BY <1>1, <1>2, <2>1, Words
  <2>3. (Millis - (e + least)) * TickRate = Millis * TickRate - (e * TickRate + least * TickRate)
    BY <1>1, <1>2, <2>1, Words
  <2>4. /\ Millis * TickRate \in Int /\ e * TickRate \in Int /\ least * TickRate \in Int
        /\ waited * Thousand \in Int
    BY <1>0, <1>1, <1>2, <2>1, Words
  <2>5. Phase < e * TickRate + waited * Thousand
    BY <1>0, <1>3 DEF e
  <2>6. waited * Thousand > least * TickRate
    BY <1>1, <2>2, <2>3, <2>4, <2>5
  <2> QED
    BY <2>6 DEF least
<1>4. CASE waited = Word
  <2>1. (Millis - least) * TickRate >= 0
    BY <1>1, <1>2, Words
  <2>2. (Millis - least) * TickRate = Millis * TickRate - least * TickRate
    BY <1>1, <1>2, Words
  <2>3. waited * Thousand >= Word /\ waited * Thousand \in Int
    <3>1. Word * (Thousand - 1) >= 0 /\ Word * (Thousand - 1) = Word * Thousand - Word
          /\ Word * Thousand \in Int
      BY Words
    <3> QED
      BY <1>4, <3>1, Words
  <2>4. Millis * TickRate \in Int /\ least * TickRate \in Int
    BY <1>1, <1>2, Words
  <2>5. waited * Thousand > least * TickRate
    BY <1>1, <2>1, <2>2, <2>3, <2>4, Words
  <2> QED
    BY <2>5 DEF least
<1> QED
  BY <1>3, <1>4
----------------------------------------------------------------------------
(* The ring of the alarms *)

Live == {a \in Alarms : InList(a)}
Ring == Live \union {Head}

\* next and previous undo each other.
Linked ==
  /\ next \in [Nodes -> Nodes] /\ previous \in [Nodes -> Nodes]
  /\ \A n \in Nodes : previous[next[n]] = n /\ next[previous[n]] = n

\* The ring is one ring: r numbers its nodes in the order in which alt_tick meets them,
\* and next leads to the node with the next greater number, or to the head.
Ordered(r) ==
  /\ r \in [Nodes -> Int]
  /\ \A a, b \in Ring : r[a] = r[b] => a = b
  /\ \A a \in Live : r[Head] < r[a]
  /\ \A m \in Ring :
       /\ next[m] # Head => next[m] \in Live /\ r[m] < r[next[m]]
       /\ \A a \in Live : r[m] < r[a] => next[m] # Head /\ r[next[m]] <= r[a]

\* The numbers after an alarm has become the first.
Renumbered(r, entry) == [r EXCEPT ![entry] = r[Head], ![Head] = r[Head] - 1]

\* What is known of a node and its neighbours.
LEMMA Neighbours ==
  ASSUME Linked, NEW n \in Nodes
  PROVE  /\ next[n] \in Nodes /\ previous[n] \in Nodes
         /\ \A m \in Nodes : next[m] = next[n] => m = n
         /\ \A m \in Nodes : previous[m] = previous[n] => m = n
         /\ next[n] = n <=> previous[n] = n
BY DEF Linked

\* alt_llist_insert: the links after an alarm that was in no list became the first.
LEMMA InsertLinks ==
  ASSUME Linked, NEW e \in Alarms, ~InList(e), alt_llist_insert(e)
  PROVE  /\ next[Head] \in Nodes /\ next[Head] # e
         /\ next' = [n \in Nodes |-> IF n = Head THEN e ELSE IF n = e THEN next[Head] ELSE next[n]]
         /\ previous' = [n \in Nodes |-> IF n = next[Head] THEN e ELSE IF n = e THEN Head
                                         ELSE previous[n]]
         /\ Linked'
         /\ Live' = Live \union {e}
<1>0. e # Head /\ Head \in Nodes /\ e \in Nodes /\ next[e] = e /\ previous[e] = e
  BY SystemClockAssumption DEF Nodes, InList, Linked
<1>1. next[Head] \in Nodes /\ next[Head] # e
  BY <1>0, Neighbours DEF Linked
<1>2. next' = [n \in Nodes |-> IF n = Head THEN e ELSE IF n = e THEN next[Head] ELSE next[n]]
  BY <1>0, <1>1 DEF alt_llist_insert, Linked
<1>3. previous' = [n \in Nodes |-> IF n = next[Head] THEN e ELSE IF n = e THEN Head
                                   ELSE previous[n]]
  BY <1>0, <1>1 DEF alt_llist_insert, Linked
<1>4. next' \in [Nodes -> Nodes] /\ previous' \in [Nodes -> Nodes]
  BY <1>0, <1>1, <1>2, <1>3 DEF Linked
<1>5. ASSUME NEW n \in Nodes
      PROVE  previous'[next'[n]] = n /\ next'[previous'[n]] = n
  <2>1. previous'[next'[n]] = n
    <3>1. CASE n = Head
      BY <1>0, <1>1, <1>2, <1>3, <3>1
    <3>2. CASE n = e
      BY <1>0, <1>1, <1>2, <1>3, <3>2
    <3>3. CASE n # Head /\ n # e
      <4>1. next'[n] = next[n] /\ next[n] \in Nodes /\ next[n] # next[Head] /\ next[n] # e
        BY <1>0, <1>2, <3>3, Neighbours
      <4> QED
        BY <1>3, <4>1 DEF Linked
    <3> QED
      BY <3>1, <3>2, <3>3
  <2>2. next'[previous'[n]] = n
    <3>1. CASE n = next[Head]
      BY <1>0, <1>1, <1>2, <1>3, <3>1
    <3>2. CASE n = e
      BY <1>0, <1>1, <1>2, <1>3, <3>2
    <3>3. CASE n # next[Head] /\ n # e
      <4>1. previous'[n] = previous[n] /\ previous[n] \in Nodes
        BY <1>3, <3>3, Neighbours
      <4>2. previous[n] # Head /\ previous[n] # e
        BY <1>0, <3>3 DEF Linked
      <4> QED
        BY <1>2, <4>1, <4>2 DEF Linked
    <3> QED
      BY <3>1, <3>2, <3>3
  <2> QED
    BY <2>1, <2>2
<1>6. Live' = Live \union {e}
  BY <1>0, <1>1, <1>2, SystemClockAssumption DEF Live, InList, Nodes
<1> QED
  BY <1>1, <1>2, <1>3, <1>4, <1>5, <1>6 DEF Linked

\* ... and their order.
LEMMA InsertOrder ==
  ASSUME Linked, NEW e \in Alarms, ~InList(e), alt_llist_insert(e), NEW r, Ordered(r)
  PROVE  Ordered(Renumbered(r, e))'
<1> DEFINE t == Renumbered(r, e)
<1>0. /\ e # Head /\ Head \in Nodes /\ e \in Nodes /\ e \notin Ring
      /\ \A n \in Ring : n \in Nodes /\ n # e
  BY SystemClockAssumption DEF Nodes, Ring, Live
<1>1. /\ next[Head] \in Nodes /\ next[Head] # e
      /\ next' = [n \in Nodes |-> IF n = Head THEN e ELSE IF n = e THEN next[Head] ELSE next[n]]
      /\ Live' = Live \union {e} /\ Ring' = Ring \union {e}
  BY InsertLinks DEF Ring
<1>2. /\ t \in [Nodes -> Int] /\ t[e] = r[Head] /\ t[Head] = r[Head] - 1
      /\ \A n \in Nodes : n # e /\ n # Head => t[n] = r[n]
      /\ \A n \in Nodes : r[n] \in Int
  BY <1>0 DEF Renumbered, Ordered
<1> HIDE DEF t
<1>3. \A a \in Live : a \in Ring /\ a # Head /\ a # e /\ t[a] = r[a] /\ r[Head] < r[a]
  BY <1>0, <1>2, SystemClockAssumption DEF Ordered, Ring, Live
<1>4. \A a, b \in Ring' : t[a] = t[b] => a = b
  <2>1. \A a, b \in Ring : r[a] = r[b] => a = b
    BY DEF Ordered
  <2>2. t[e] \in Int /\ t[Head] < t[e] /\ \A a \in Live : t[e] < t[a] /\ t[a] \in Int
    BY <1>0, <1>2, <1>3
  <2> QED
    BY <1>1, <1>2, <1>3, <2>1, <2>2 DEF Ring
<1>5. \A a \in Live' : t[Head] < t[a]
  BY <1>0, <1>1, <1>2, <1>3
<1>6. ASSUME NEW m \in Ring'
      PROVE  /\ next'[m] # Head => next'[m] \in Live' /\ t[m] < t[next'[m]]
             /\ \A a \in Live' : t[m] < t[a] => next'[m] # Head /\ t[next'[m]] <= t[a]
  <2>0. /\ \A n \in Ring : next[n] # Head => next[n] \in Live /\ r[n] < r[next[n]]
        /\ \A n \in Ring : \A a \in Live : r[n] < r[a] => next[n] # Head /\ r[next[n]] <= r[a]
        /\ Head \in Ring
    BY DEF Ordered, Ring
  <2>1. CASE m = Head
    <3>1. next'[m] = e /\ e \in Live'
      BY <1>0, <1>1, <2>1
    <3>2. \A a \in Live' : t[e] <= t[a] /\ t[Head] < t[e]
      BY <1>0, <1>1, <1>2, <1>3
    <3> QED
      BY <1>0, <2>1, <3>1, <3>2
  <2>2. CASE m = e
    <3>1. next'[m] = next[Head]
      BY <1>0, <1>1, <2>2
    <3>2. next[Head] # Head => next[Head] \in Live /\ r[Head] < r[next[Head]]
      BY <2>0
    <3>3. \A a \in Live : next[Head] # Head /\ r[next[Head]] <= r[a]
      BY <1>3, <2>0
    <3>4. ASSUME NEW a \in Live', t[m] < t[a] PROVE a \in Live
      BY <1>0, <1>1, <1>2, <2>2, <3>4
    <3> QED
      BY <1>1, <1>2, <1>3, <2>2, <3>1, <3>2, <3>3, <3>4
  <2>3. CASE m \in Live
    <3>1. next'[m] = next[m] /\ t[m] = r[m] /\ m \in Ring
      BY <1>0, <1>1, <1>3, <2>3
    <3>2. ASSUME NEW a \in Live', t[m] < t[a] PROVE a \in Live
      <4>1. t[e] \in Int /\ t[m] \in Int /\ t[e] < t[m]
        BY <1>0, <1>2, <1>3, <2>3
      <4> QED
        BY <1>1, <3>2, <4>1
    <3> QED
      BY <1>1, <1>3, <2>0, <3>1, <3>2
  <2> QED
    BY <1>1, <2>1, <2>2, <2>3 DEF Ring
<1> QED
  BY <1>2, <1>4, <1>5, <1>6 DEF Ordered, t

\* alt_llist_remove of an alarm that is in no list changes nothing.
LEMMA RemoveNone ==
  ASSUME Linked, NEW e \in Alarms, ~InList(e), alt_llist_remove(e)
  PROVE  next' = next /\ previous' = previous
BY DEF Linked, InList, alt_llist_remove, Nodes

\* alt_llist_remove: the links after an alarm left the ring.
LEMMA RemoveLinks ==
  ASSUME Linked, NEW e \in Live, alt_llist_remove(e)
  PROVE  /\ next[e] \in Nodes \ {e} /\ previous[e] \in Nodes \ {e}
         /\ next' = [n \in Nodes |-> IF n = e THEN e ELSE IF n = previous[e] THEN next[e]
                                     ELSE next[n]]
         /\ previous' = [n \in Nodes |-> IF n = e THEN e ELSE IF n = next[e] THEN previous[e]
                                         ELSE previous[n]]
         /\ Linked'
<1>0. e \in Nodes /\ next[e] # e /\ previous[e] # e /\ next[e] \in Nodes /\ previous[e] \in Nodes
  BY Neighbours DEF Live, InList, Nodes
<1>1. next' = [n \in Nodes |-> IF n = e THEN e ELSE IF n = previous[e] THEN next[e]
                               ELSE next[n]]
  BY <1>0 DEF alt_llist_remove, Linked
<1>2. previous' = [n \in Nodes |-> IF n = e THEN e ELSE IF n = next[e] THEN previous[e]
                                   ELSE previous[n]]
  BY <1>0 DEF alt_llist_remove, Linked
<1>3. next' \in [Nodes -> Nodes] /\ previous' \in [Nodes -> Nodes]
  BY <1>0, <1>1, <1>2 DEF Linked
<1>4. ASSUME NEW n \in Nodes
      PROVE  previous'[next'[n]] = n /\ next'[previous'[n]] = n
  <2>0. next[previous[e]] = e /\ previous[next[e]] = e /\ next[previous[n]] = n /\ previous[next[n]] = n
        /\ next[n] \in Nodes /\ previous[n] \in Nodes
    BY <1>0, <1>4 DEF Linked
  <2>1. CASE n = e
    BY <1>1, <1>2, <2>1, <1>0
  <2>2. CASE n # e
    <3>1. previous'[next'[n]] = n
      <4>1. CASE n = previous[e]
        BY <1>0, <1>1, <1>2, <2>0, <2>2, <4>1
      <4>2. CASE n # previous[e]
        <5>1. next'[n] = next[n] /\ next[n] # e /\ next[n] # next[e]
          BY <1>1, <2>0, <2>2, <4>2
        <5> QED
          BY <1>2, <2>0, <5>1
      <4> QED
        BY <4>1, <4>2
    <3>2. next'[previous'[n]] = n
      <4>1. CASE n = next[e]
        BY <1>0, <1>1, <1>2, <2>0, <2>2, <4>1
      <4>2. CASE n # next[e]
        <5>1. previous'[n] = previous[n] /\ previous[n] # e /\ previous[n] # previous[e]
          BY <1>2, <2>0, <2>2, <4>2
        <5> QED
          BY <1>1, <2>0, <5>1
      <4> QED
        BY <4>1, <4>2
    <3> QED
      BY <3>1, <3>2
  <2> QED
    BY <2>1, <2>2
<1> QED
  BY <1>0, <1>1, <1>2, <1>3, <1>4 DEF Linked

\* ... and their order, which is the old one.
LEMMA RemoveOrder ==
  ASSUME Linked, NEW e \in Live, alt_llist_remove(e), NEW r, Ordered(r)
  PROVE  Ordered(r)' /\ Live' = Live \ {e}
<1>0. /\ e # Head /\ Head \in Nodes /\ e \in Nodes /\ e \in Ring /\ e \in Alarms
      /\ \A n \in Ring : n \in Nodes /\ r[n] \in Int
      /\ next[previous[e]] = e /\ previous[next[e]] = e
  BY SystemClockAssumption DEF Nodes, Ring, Live, Ordered, Linked
<1>1. /\ next[e] \in Nodes \ {e} /\ previous[e] \in Nodes \ {e}
      /\ next' = [n \in Nodes |-> IF n = e THEN e ELSE IF n = previous[e] THEN next[e]
                                  ELSE next[n]]
  BY RemoveLinks
<1>2. /\ \A n \in Ring : next[n] # Head => next[n] \in Live /\ r[n] < r[next[n]]
      /\ \A n \in Ring : \A a \in Live : r[n] < r[a] => next[n] # Head /\ r[next[n]] <= r[a]
  BY DEF Ordered
<1>3. next[e] # Head => next[e] \in Live /\ r[e] < r[next[e]]
  BY <1>0, <1>2
\* the node before it is in the ring, as a node that is not leads to itself
<1>4. previous[e] \in Ring
  BY <1>0, <1>1 DEF Ring, Live, InList, Nodes
<1>5. previous[e] # Head => next[e] # previous[e]
  <2>1. r[previous[e]] < r[e]
    BY <1>0, <1>2, <1>4
  <2> QED
    BY <1>0, <1>3, <1>4, <2>1
<1>6. Live' = Live \ {e}
  <2>1. ASSUME NEW a \in Alarms
        PROVE  next'[a] # a <=> next[a] # a /\ a # e
    <3>1. a \in Nodes /\ a # Head
      BY SystemClockAssumption DEF Nodes
    <3>2. CASE a = e
      BY <1>1, <3>1, <3>2
    <3>3. CASE a # e /\ a = previous[e]
      <4>1. next'[a] = next[e] /\ next[e] # a /\ next[a] = e
        BY <1>0, <1>1, <1>5, <3>1, <3>3
      <4> QED
        BY <3>3, <4>1
    <3>4. CASE a # e /\ a # previous[e]
      BY <1>1, <3>1, <3>4
    <3> QED
      BY <3>2, <3>3, <3>4
  <2> QED
    BY <2>1 DEF Live, InList
<1>7. Ring' = Ring \ {e}
  BY <1>0, <1>6 DEF Ring
<1>8. ASSUME NEW m \in Ring'
      PROVE  /\ next'[m] # Head => next'[m] \in Live' /\ r[m] < r[next'[m]]
             /\ \A a \in Live' : r[m] < r[a] => next'[m] # Head /\ r[next'[m]] <= r[a]
  <2>0. m \in Ring /\ m # e /\ m \in Nodes /\ r[m] \in Int
    BY <1>0, <1>7
  <2>1. CASE m = previous[e]
    <3>1. next'[m] = next[e] /\ next[m] = e /\ r[m] < r[e]
      BY <1>0, <1>1, <1>2, <2>0, <2>1
    <3>2. next[e] # Head => next[e] \in Live' /\ r[m] < r[next[e]]
      BY <1>0, <1>1, <1>3, <1>6, <2>0, <3>1 DEF Ring
    <3>3. ASSUME NEW a \in Live', r[m] < r[a]
          PROVE  next[e] # Head /\ r[next[e]] <= r[a]
      <4>1. a \in Live /\ a # e /\ a \in Ring
        BY <1>6 DEF Ring
      <4>2. r[e] <= r[a] /\ r[e] # r[a]
        BY <1>0, <1>2, <2>0, <3>1, <3>3, <4>1 DEF Ordered
      <4> QED
        BY <1>0, <1>2, <4>1, <4>2
    <3> QED
      BY <3>1, <3>2, <3>3
  <2>2. CASE m # previous[e]
    <3>1. next'[m] = next[m]
      BY <1>1, <2>0, <2>2
    <3>2. next[m] # e
      BY <2>0, <2>2 DEF Linked
    <3> QED
      BY <1>2, <1>6, <2>0, <3>1, <3>2
  <2> QED
    BY <2>1, <2>2
<1> QED
  BY <1>6, <1>7, <1>8 DEF Ordered
----------------------------------------------------------------------------
(* The alarms, tick by tick *)

\* alt_tick is done with the alarm until the next tick.
Passed(a) == LeftOf(a) > 0 /\ (nticks = 0 => ~rollover[a])

\* In the order r, a comes before n; the end of the list is the head.
Before(r, a, n) == n = Head \/ r[a] < r[n]

AlarmTypes ==
  /\ time \in [Alarms -> 0 .. Word - 1] /\ rollover \in [Alarms -> BOOLEAN]
  /\ pc \in {"run", "loop", "callback"}
  /\ alarm \in Nodes /\ following \in Nodes

\* How far alt_tick is: it is done with what comes before the alarm it looks at, or
\* before the one it has noted to go on from; that one stays in the ring.  The alarm whose
\* callback runs is due, or was started again by it.
Visited(r) ==
  /\ pc = "run" => \A a \in Live : Passed(a)
  /\ pc = "loop" =>
       /\ alarm \in Ring
       /\ \A a \in Live : LeftOf(a) >= 0 /\ (Before(r, a, alarm) => Passed(a))
  /\ pc = "callback" =>
       /\ alarm \in Alarms /\ following \in Ring /\ following # alarm
       /\ alarm \in Live => Passed(alarm) \/ (LeftOf(alarm) = 0 /\ ~rollover[alarm])
       /\ \A a \in Live \ {alarm} : LeftOf(a) >= 0 /\ (Before(r, a, following) => Passed(a))

AlarmInv == Linked /\ AlarmTypes /\ \E r : Ordered(r) /\ Visited(r)

\* In numbers.
LEMMA AlarmNumbers ==
  ASSUME ClockInv, AlarmTypes
  PROVE  /\ nticks \in Int /\ 0 <= nticks /\ nticks < Word
         /\ \A a \in Alarms : /\ time[a] \in Int /\ 0 <= time[a] /\ time[a] < Word
                              /\ rollover[a] \in BOOLEAN /\ LeftOf(a) \in Int
BY Words DEF ClockInv, AlarmTypes, LeftOf

\* Adding less than a word to a word.
LEMMA DueIs ==
  ASSUME NEW t \in Int, 0 <= t, t < Word, NEW k \in Int, 0 <= k, k < Word
  PROVE  /\ Due(t, k) = IF t + k < Word THEN t + k ELSE t + k - Word
         /\ Due(t, k) \in 0 .. Word - 1
<1>1. CASE t + k < Word
  <2>1. (t + k) % Word = t + k
    BY <1>1, ModUnique, Words
  <2> QED
    BY <1>1, <2>1, Words DEF Due
<1>2. CASE t + k >= Word
  <2>1. (t + k) % Word = t + k - Word
    BY <1>2, ModUnique, Words
  <2> QED
    BY <1>2, <2>1, Words DEF Due
<1> QED
  BY <1>1, <1>2, Words

\* The timer's interrupt: every alarm of the ring has a tick less.
LEMMA TickAlarms ==
  ASSUME ClockInv, AlarmInv, Tick
  PROVE  /\ AlarmInv'
         /\ \A a \in Alarms : Left[a] # 0
         /\ Left' = [a \in Alarms |-> IF Left[a] = -1 THEN -1 ELSE Left[a] - 1]
         /\ Running = Head /\ Running' = Head
<1>0. PICK r : Ordered(r) /\ Visited(r)
  BY DEF AlarmInv
<1>1. /\ pc = "run" /\ pc' = "loop" /\ alarm' = next[Head] /\ nticks' = (nticks + 1) % Word
      /\ next' = next /\ previous' = previous /\ time' = time /\ rollover' = rollover
      /\ following' = following
  BY DEF Tick, listVars
<1>2. /\ nticks \in Int /\ 0 <= nticks /\ nticks < Word
      /\ \A a \in Alarms : /\ time[a] \in Int /\ 0 <= time[a] /\ time[a] < Word
                           /\ rollover[a] \in BOOLEAN /\ LeftOf(a) \in Int
  BY AlarmNumbers DEF AlarmInv
<1>3. nticks' = IF nticks + 1 = Word THEN 0 ELSE nticks + 1
  <2>1. nticks' = Due(nticks, 1)
    BY <1>1 DEF Due
  <2> QED
    BY <1>2, <2>1, DueIs, Words
<1>4. Live' = Live /\ Ring' = Ring /\ Linked' /\ Ordered(r)' /\ Live \subseteq Alarms
  BY <1>0, <1>1 DEF Live, Ring, InList, Linked, Ordered, AlarmInv
<1>5. ASSUME NEW a \in Live
      PROVE  LeftOf(a) > 0 /\ LeftOf(a)' = LeftOf(a) - 1
  <2>1. LeftOf(a) > 0 /\ (nticks = 0 => ~rollover[a]) /\ a \in Alarms
    BY <1>0, <1>1 DEF Visited, Passed, Live
  <2>2. LeftOf(a)' = IF rollover[a] /\ nticks' # 0 THEN time[a] + Word - nticks'
                     ELSE time[a] - nticks'
    BY <1>1 DEF LeftOf
  <2>3. CASE nticks + 1 = Word
    BY <1>2, <1>3, <2>1, <2>2, <2>3, Words DEF LeftOf
  <2>4. CASE nticks + 1 # Word
    <3>1. nticks' = nticks + 1 /\ nticks' # 0
      BY <1>2, <1>3, <2>4
    <3>2. CASE rollover[a]
      <4>1. nticks # 0 /\ LeftOf(a) = time[a] + Word - nticks
        BY <2>1, <3>2 DEF LeftOf
      <4>2. LeftOf(a)' = time[a] + Word - (nticks + 1)
        BY <2>2, <3>1, <3>2
      <4> QED
        BY <1>2, <2>1, <4>1, <4>2, Words
    <3>3. CASE ~rollover[a]
      <4>1. LeftOf(a) = time[a] - nticks /\ LeftOf(a)' = time[a] - (nticks + 1)
        BY <2>2, <3>1, <3>3 DEF LeftOf
      <4> QED
        BY <1>2, <2>1, <4>1
    <3> QED
      BY <3>2, <3>3
  <2> QED
    BY <2>3, <2>4
<1>6. AlarmTypes'
  BY <1>1, SystemClockAssumption DEF AlarmTypes, AlarmInv, Linked, Nodes
<1>7. Visited(r)'
  <2>1. next[Head] \in Ring
    BY <1>0 DEF Ordered, Ring
  <2>2. ASSUME NEW a \in Live
        PROVE  ~Before(r, a, next[Head])
    <3>1. /\ next[Head] # Head /\ r[next[Head]] <= r[a]
          /\ r[next[Head]] \in Int /\ r[a] \in Int
      BY <1>0, <2>1 DEF Ordered, Ring, Live, Nodes
    <3> QED
      BY <3>1 DEF Before
  <2>3. ASSUME NEW a \in Live'
        PROVE  LeftOf(a)' >= 0 /\ (Before(r, a, alarm) => Passed(a))'
    <3>1. a \in Live /\ a \in Alarms
      BY <1>4
    <3>2. LeftOf(a)' >= 0
      BY <1>2, <1>5, <3>1
    <3>3. ~Before(r, a, alarm')
      BY <1>1, <2>2, <3>1
    <3>4. Before(r, a, alarm)' <=> Before(r, a, alarm')
      BY DEF Before
    <3> QED
      BY <3>2, <3>3, <3>4
  <2>4. alarm' \in Ring'
    BY <1>1, <1>4, <2>1
  <2>5. pc' = "loop"
    BY <1>1
  <2> QED
    BY <2>3, <2>4, <2>5 DEF Visited
<1>8. AlarmInv'
  <2>1. Ordered(r)' /\ Visited(r)'
    BY <1>4, <1>7
  <2>2. (\E x : Ordered(x) /\ Visited(x))'
    BY <2>1
  <2> QED
    BY <1>4, <1>6, <2>2 DEF AlarmInv
<1>9. ASSUME NEW a \in Alarms
      PROVE  Left[a] # 0 /\ Left'[a] = IF Left[a] = -1 THEN -1 ELSE Left[a] - 1
  <2>1. Left'[a] = IF ~InList(a) THEN -1 ELSE LeftOf(a)'
    BY <1>1 DEF Left, InList
  <2>2. Left[a] = IF ~InList(a) THEN -1 ELSE LeftOf(a)
    BY DEF Left
  <2> QED
    BY <1>2, <1>5, <2>1, <2>2 DEF Live
<1> QED
  BY <1>1, <1>8, <1>9 DEF Left, Running

\* A step that leaves the alarms and the counter alone.
LEMMA AsideAlarms ==
  ASSUME AlarmInv, UNCHANGED <<nticks, next, previous, time, rollover, pc, alarm, following>>
  PROVE  AlarmInv' /\ Left' = Left /\ Running' = Running
<1>1. Left' = Left /\ Running' = Running
  BY DEF Left, InList, LeftOf, Running
<1>2. PICK r : Ordered(r) /\ Visited(r)
  BY DEF AlarmInv
<1>3. Live' = Live /\ Ring' = Ring
  BY DEF Live, Ring, InList
<1>4. Ordered(r)'
  BY <1>2, <1>3 DEF Ordered
<1>5. \A a : LeftOf(a)' = LeftOf(a) /\ (Passed(a)' <=> Passed(a))
             /\ \A n : Before(r, a, n)' <=> Before(r, a, n)
  BY DEF LeftOf, Passed, Before
<1>6. Visited(r)'
  BY <1>2, <1>3, <1>5 DEF Visited, Passed, LeftOf, Before
<1>7. (\E x : Ordered(x) /\ Visited(x))'
  BY <1>4, <1>6
<1>8. Linked' /\ AlarmTypes'
  BY DEF AlarmInv, Linked, AlarmTypes
<1> QED
  BY <1>1, <1>7, <1>8 DEF AlarmInv

\* At the end of the list alt_tick is done with every alarm.
LEMMA TickDoneAlarms ==
  ASSUME AlarmInv, TickDone
  PROVE  AlarmInv' /\ Left' = Left /\ Running' = Running
<1>0. PICK r : Ordered(r) /\ Visited(r)
  BY DEF AlarmInv
<1>1. /\ pc = "loop" /\ pc' = "run" /\ alarm = Head /\ alarm' = alarm /\ nticks' = nticks
      /\ next' = next /\ previous' = previous /\ time' = time /\ rollover' = rollover
      /\ following' = following
  BY DEF TickDone, listVars
<1>2. Live' = Live /\ Ring' = Ring /\ Linked' /\ Ordered(r)' /\ AlarmTypes'
  BY <1>0, <1>1 DEF Live, Ring, InList, Linked, Ordered, AlarmInv, AlarmTypes
<1>3. \A a : Passed(a)' <=> Passed(a)
  BY <1>1 DEF Passed, LeftOf
<1>4. \A a \in Live : Passed(a)
  BY <1>0, <1>1 DEF Visited, Before
<1>5. Visited(r)'
  BY <1>1, <1>2, <1>3, <1>4 DEF Visited
<1>6. (\E x : Ordered(x) /\ Visited(x))'
  BY <1>2, <1>5
<1> QED
  BY <1>1, <1>2, <1>6 DEF AlarmInv, Left, InList, LeftOf, Running

\* One alarm is looked at.
LEMMA VisitAlarms ==
  ASSUME ClockInv, AlarmInv, Visit
  PROVE  /\ AlarmInv'
         /\ Left' = Left
         /\ Running = Head
         /\ \/ Running' = Head
            \/ \E a \in Alarms : Left[a] = 0 /\ Running' = a
<1>0. PICK r : Ordered(r) /\ Visited(r)
  BY DEF AlarmInv
<1>1. /\ pc = "loop" /\ alarm # Head /\ nticks' = nticks
      /\ next' = next /\ previous' = previous /\ time' = time
      /\ rollover' = [rollover EXCEPT ![alarm] = Cleared(alarm)]
  BY DEF Visit
<1>2. /\ alarm \in Live /\ alarm \in Ring /\ alarm \in Alarms /\ alarm \in Nodes
      /\ \A a \in Live : LeftOf(a) >= 0 /\ (Before(r, a, alarm) => Passed(a))
  BY <1>0, <1>1 DEF Visited, Ring, Live, Nodes
<1>3. /\ nticks \in Int /\ 0 <= nticks /\ nticks < Word
      /\ \A a \in Alarms : /\ time[a] \in Int /\ 0 <= time[a] /\ time[a] < Word
                           /\ rollover[a] \in BOOLEAN /\ LeftOf(a) \in Int
      /\ rollover \in [Alarms -> BOOLEAN]
  BY AlarmNumbers DEF AlarmInv, AlarmTypes
<1>4. rollover'[alarm] = (rollover[alarm] /\ nticks # 0)
      /\ \A a \in Alarms : a # alarm => rollover'[a] = rollover[a]
  BY <1>1, <1>2, <1>3 DEF Cleared
<1>5. Live' = Live /\ Ring' = Ring /\ Linked' /\ Ordered(r)' /\ Live \subseteq Alarms
  BY <1>0, <1>1 DEF Live, Ring, InList, Linked, Ordered, AlarmInv
<1>6. \A a \in Alarms : LeftOf(a)' = LeftOf(a)
  <2>1. ASSUME NEW a \in Alarms
        PROVE  rollover'[a] /\ nticks # 0 <=> rollover[a] /\ nticks # 0
    BY <1>3, <1>4
  <2> QED
    BY <1>1, <2>1 DEF LeftOf
<1>7. Left' = Left
  BY <1>1, <1>6 DEF Left, InList
<1>8. \A a \in Live : a # alarm => (Passed(a)' <=> Passed(a))
  BY <1>1, <1>4, <1>5, <1>6 DEF Passed
<1>9. /\ next[alarm] \in Ring /\ next[alarm] # alarm
      /\ \A a \in Live : a # alarm /\ Before(r, a, next[alarm]) => Before(r, a, alarm)
  <2>1. /\ next[alarm] # Head => next[alarm] \in Live
        /\ \A a \in Live : r[alarm] < r[a] => next[alarm] # Head /\ r[next[alarm]] <= r[a]
        /\ \A a \in Live : r[a] = r[alarm] => a = alarm
    BY <1>0, <1>2 DEF Ordered, Ring
  <2>2. next[alarm] # alarm
    BY <1>2 DEF Live, InList
  <2>3. \A n \in Ring : r[n] \in Int
    BY <1>0 DEF Ordered, Ring, Live, Nodes
  <2>4. ASSUME NEW a \in Live, a # alarm, Before(r, a, next[alarm])
        PROVE  Before(r, a, alarm)
    <3>1. ~(r[alarm] < r[a])
      <4>1. r[a] \in Int /\ r[alarm] \in Int /\ (next[alarm] # Head => r[next[alarm]] \in Int)
        BY <1>2, <2>1, <2>3 DEF Ring
      <4> QED
        BY <2>1, <2>4, <4>1 DEF Before
    <3>2. r[a] # r[alarm] /\ r[a] \in Int /\ r[alarm] \in Int
      BY <1>2, <2>1, <2>3, <2>4 DEF Ring
    <3> QED
      BY <3>1, <3>2 DEF Before
  <2> QED
    BY <2>1, <2>2, <2>4 DEF Ring
<1>10. \A a \in Live : a # alarm =>
         LeftOf(a)' >= 0 /\ (Before(r, a, next[alarm]) => Passed(a)')
  BY <1>2, <1>5, <1>6, <1>8, <1>9
<1>11. next[alarm] \in Nodes
  BY <1>9 DEF Ring, Live, Nodes
<1>12. rollover' \in [Alarms -> BOOLEAN]
  BY <1>1, <1>3 DEF Cleared
<1>13. /\ AlarmTypes' /\ Visited(r)'
       /\ Running' = Head \/ (Left[alarm] = 0 /\ Running' = alarm)
  <2>1. CASE time[alarm] <= nticks /\ ~Cleared(alarm)
    <3>1. pc' = "callback" /\ following' = next[alarm] /\ alarm' = alarm
      BY <1>1, <2>1 DEF Visit
    <3>2. LeftOf(alarm) = 0
      <4>1. LeftOf(alarm) = time[alarm] - nticks
        BY <2>1, <1>2, <1>3 DEF LeftOf, Cleared
      <4> QED
        BY <1>2, <1>3, <2>1, <4>1
    <3>3. \A a \in Alarms : a = alarm => LeftOf(a)' = 0 /\ ~rollover'[a]
      BY <1>2, <1>4, <1>6, <2>1, <3>2 DEF Cleared
    <3>4. ASSUME NEW a \in Live' \ {alarm'}
          PROVE  LeftOf(a)' >= 0 /\ (Before(r, a, following) => Passed(a))'
      <4>1. Before(r, a, following)' <=> Before(r, a, next[alarm])
        BY <3>1 DEF Before
      <4> QED
        BY <1>5, <1>10, <3>1, <4>1
    <3>5. (alarm \in Live => Passed(alarm) \/ (LeftOf(alarm) = 0 /\ ~rollover[alarm]))'
      <4>1. (LeftOf(alarm) = 0)'
        BY <1>2, <3>1, <3>3 DEF LeftOf
      <4> QED
        BY <1>2, <3>1, <3>3, <4>1
    <3>6. AlarmTypes'
      BY <1>1, <1>2, <1>11, <1>12, <3>1 DEF AlarmTypes, AlarmInv
    <3>7. Left[alarm] = 0 /\ Running' = alarm
      BY <1>2, <3>1, <3>2 DEF Left, Live, Running
    <3>8. Visited(r)'
      BY <1>2, <1>5, <1>9, <3>1, <3>4, <3>5 DEF Visited
    <3> QED
      BY <3>6, <3>7, <3>8
  <2>2. CASE ~(time[alarm] <= nticks /\ ~Cleared(alarm))
    <3>1. pc' = pc /\ following' = following /\ alarm' = next[alarm]
      BY <1>1, <2>2 DEF Visit
    <3>2. LeftOf(alarm) > 0
      BY <1>2, <1>3, <2>2, Words DEF LeftOf, Cleared
    <3>4. ASSUME NEW a \in Live'
          PROVE  LeftOf(a)' >= 0 /\ (Before(r, a, alarm) => Passed(a))'
      <4>1. Before(r, a, alarm)' <=> Before(r, a, next[alarm])
        BY <3>1 DEF Before
      <4>2. CASE a = alarm
        <5>1. LeftOf(a)' > 0 /\ LeftOf(a)' \in Int /\ (nticks' = 0 => ~rollover'[a])
          BY <1>1, <1>2, <1>3, <1>4, <1>6, <3>2, <4>2
        <5> QED
          BY <5>1 DEF Passed
      <4>3. CASE a # alarm
        BY <1>5, <1>10, <4>1, <4>3
      <4> QED
        BY <4>2, <4>3
    <3>5. AlarmTypes'
      BY <1>1, <1>11, <1>12, <3>1 DEF AlarmTypes, AlarmInv
    <3>6. Running' = Head
      BY <1>1, <3>1 DEF Running
    <3>7. Visited(r)'
      BY <1>1, <1>5, <1>9, <3>1, <3>4 DEF Visited
    <3> QED
      BY <3>5, <3>6, <3>7
  <2> QED
    BY <2>1, <2>2
<1>14. (\E x : Ordered(x) /\ Visited(x))'
  BY <1>5, <1>13
<1>15. Running = Head
  BY <1>1 DEF Running
<1> QED
  BY <1>2, <1>5, <1>7, <1>13, <1>14, <1>15 DEF AlarmInv

\* An alarm is started: it becomes the first of the list, and its turn has passed.
LEMMA StartAlarms ==
  ASSUME ClockInv, AlarmInv, NEW e \in Alarms, AlarmStart(e)
  PROVE  /\ AlarmInv'
         /\ Left[e] = -1
         /\ \E n \in Waits : Left' = [Left EXCEPT ![e] = n + 1]
         /\ Running' = Running
<1>0. PICK r : Ordered(r) /\ Visited(r)
  BY DEF AlarmInv
<1>1. PICK n \in Waits : time' = [time EXCEPT ![e] = Due(nticks, n + 1)]
                         /\ rollover' = [rollover EXCEPT ![e] = Due(nticks, n + 1) < nticks]
  BY DEF AlarmStart
<1>2. /\ pc \in {"run", "callback"} /\ pc' = pc /\ nticks' = nticks /\ ~InList(e)
      /\ alarm' = alarm /\ following' = following /\ alt_llist_insert(e)
  BY DEF AlarmStart, tickVars
<1>3. /\ nticks \in Int /\ 0 <= nticks /\ nticks < Word
      /\ \A a \in Alarms : /\ time[a] \in Int /\ 0 <= time[a] /\ time[a] < Word
                           /\ rollover[a] \in BOOLEAN /\ LeftOf(a) \in Int
      /\ time \in [Alarms -> 0 .. Word - 1] /\ rollover \in [Alarms -> BOOLEAN]
  BY AlarmNumbers DEF AlarmInv, AlarmTypes
<1>4. n + 1 \in Int /\ 0 < n + 1 /\ n + 1 < Word
  BY SystemClockAssumption
<1>5. /\ Due(nticks, n + 1) = IF nticks + (n + 1) < Word THEN nticks + (n + 1)
                              ELSE nticks + (n + 1) - Word
      /\ Due(nticks, n + 1) \in 0 .. Word - 1
  BY <1>3, <1>4, DueIs
<1>6. /\ time'[e] = Due(nticks, n + 1) /\ rollover'[e] = (Due(nticks, n + 1) < nticks)
      /\ \A a \in Alarms : a # e => time'[a] = time[a] /\ rollover'[a] = rollover[a]
      /\ time' \in [Alarms -> 0 .. Word - 1] /\ rollover' \in [Alarms -> BOOLEAN]
  BY <1>1, <1>3, <1>5
<1>7. LeftOf(e)' = n + 1 /\ Passed(e)'
  <2>1. CASE nticks + (n + 1) < Word
    <3>1. time'[e] = nticks + (n + 1) /\ ~rollover'[e]
      BY <1>3, <1>4, <1>5, <1>6, <2>1
    <3>2. LeftOf(e)' = time'[e] - nticks
      BY <1>2, <3>1 DEF LeftOf
    <3>3. LeftOf(e)' = n + 1
      BY <1>3, <1>4, <3>1, <3>2
    <3> QED
      BY <1>4, <3>1, <3>3 DEF Passed
  <2>2. CASE nticks + (n + 1) >= Word
    <3>1. time'[e] = nticks + (n + 1) - Word /\ rollover'[e] /\ nticks # 0
      BY <1>3, <1>4, <1>5, <1>6, <2>2, Words
    <3>2. LeftOf(e)' = time'[e] + Word - nticks
      BY <1>2, <3>1 DEF LeftOf
    <3>3. LeftOf(e)' = n + 1
      BY <1>3, <1>4, <3>1, <3>2, Words
    <3> QED
      BY <1>2, <1>4, <3>1, <3>3 DEF Passed
  <2> QED
    BY <1>3, <1>4, <2>1, <2>2, Words
<1>8. \A a \in Alarms : a # e => LeftOf(a)' = LeftOf(a) /\ (Passed(a)' <=> Passed(a))
  BY <1>2, <1>6 DEF LeftOf, Passed
<1>9. /\ Linked' /\ Live' = Live \union {e} /\ Ring' = Ring \union {e} /\ e \notin Live
      /\ next' = [m \in Nodes |-> IF m = Head THEN e ELSE IF m = e THEN next[Head] ELSE next[m]]
      /\ next[Head] # e
  BY <1>2, InsertLinks DEF AlarmInv, Ring, Live
<1> DEFINE t == Renumbered(r, e)
<1>10. Ordered(t)'
  BY <1>0, <1>2, InsertOrder DEF AlarmInv
<1>11. \A m \in Ring : m # Head => t[m] = r[m]
  BY <1>0, <1>9 DEF Renumbered, Ordered, Ring, Live, Nodes
<1>12. AlarmTypes'
  BY <1>2, <1>6 DEF AlarmTypes, AlarmInv
<1> HIDE DEF t
<1>13. Visited(t)'
  <2>1. CASE pc = "run"
    BY <1>0, <1>2, <1>7, <1>8, <1>9, <2>1 DEF Visited, Live
  <2>2. CASE pc = "callback"
    <3>1. /\ alarm \in Alarms /\ following \in Ring /\ following # alarm
          /\ alarm \in Live => Passed(alarm) \/ (LeftOf(alarm) = 0 /\ ~rollover[alarm])
          /\ \A a \in Live \ {alarm} : LeftOf(a) >= 0 /\ (Before(r, a, following) => Passed(a))
      BY <1>0, <2>2 DEF Visited
    <3>2. \A c \in Alarms : c = alarm /\ c \in Live' =>
            Passed(c)' \/ (LeftOf(c)' = 0 /\ ~rollover'[c])
      BY <1>2, <1>6, <1>7, <1>8, <1>9, <3>1
    <3>3. (alarm \in Live => Passed(alarm) \/ (LeftOf(alarm) = 0 /\ ~rollover[alarm]))'
      BY <1>2, <3>1, <3>2 DEF LeftOf, Passed
    <3>4. ASSUME NEW a \in Live' \ {alarm'}
          PROVE  LeftOf(a)' >= 0 /\ (Before(t, a, following) => Passed(a))'
      <4>1. CASE a = e
        <5>1. LeftOf(a)' >= 0 /\ Passed(a)'
          BY <1>4, <1>7, <4>1
        <5> QED
          BY <5>1
      <4>2. CASE a # e
        <5>1. a \in Live /\ a \in Alarms /\ a # alarm /\ a # Head /\ a \in Ring
          BY <1>2, <1>9, <4>2, SystemClockAssumption DEF Live, Ring
        <5>2. LeftOf(a)' >= 0 /\ (Before(r, a, following) => Passed(a)')
          BY <1>8, <3>1, <4>2, <5>1
        <5>3. Before(t, a, following)' => Before(r, a, following)
          <6>1. Before(t, a, following)' <=> Before(t, a, following)
            BY <1>2 DEF Before, t, Renumbered
          <6> QED
            BY <1>11, <3>1, <5>1, <6>1 DEF Before
        <5> QED
          BY <5>2, <5>3
      <4> QED
        BY <4>1, <4>2
    <3> QED
      BY <1>2, <1>9, <2>2, <3>1, <3>3, <3>4 DEF Visited
  <2> QED
    BY <1>2, <2>1, <2>2
<1>14. (\E x : Ordered(x) /\ Visited(x))'
  BY <1>10, <1>13
<1>15. AlarmInv'
  BY <1>9, <1>12, <1>14 DEF AlarmInv
<1>16. Left' = [Left EXCEPT ![e] = n + 1]
  <2>1. ASSUME NEW a \in Alarms
        PROVE  Left'[a] = IF a = e THEN n + 1 ELSE Left[a]
    <3>1. a \in Nodes /\ a # Head
      BY SystemClockAssumption DEF Nodes
    <3>2. Left'[a] = IF next'[a] = a THEN -1 ELSE LeftOf(a)'
      BY DEF Left, InList
    <3> QED
      BY <1>7, <1>8, <1>9, <3>1, <3>2 DEF Left, InList
  <2> QED
    BY <2>1 DEF Left
<1> QED
  BY <1>2, <1>15, <1>16 DEF Left, Running

\* The alarms after alt_llist_remove.
LEMMA RemoveLeft ==
  ASSUME ClockInv, AlarmInv, NEW e \in Alarms, alt_llist_remove(e),
         nticks' = nticks, time' = time, rollover' = rollover, NEW r, Ordered(r)
  PROVE  /\ Linked' /\ Ordered(r)' /\ Live' = Live \ {e} /\ Ring' = Ring \ {e}
         /\ \A a : LeftOf(a)' = LeftOf(a) /\ (Passed(a)' <=> Passed(a))
         /\ Left' = [Left EXCEPT ![e] = -1]
<1>0. e # Head /\ \A a \in Alarms : a # Head /\ a \in Nodes
  BY SystemClockAssumption DEF Nodes
<1>1. Linked' /\ Ordered(r)' /\ Live' = Live \ {e}
  <2>1. CASE InList(e)
    <3>1. e \in Live
      BY <2>1 DEF Live
    <3> QED
      BY <3>1, RemoveLinks, RemoveOrder DEF AlarmInv
  <2>2. CASE ~InList(e)
    <3>1. next' = next /\ previous' = previous
      BY <2>2, RemoveNone DEF AlarmInv
    <3>2. Live' = Live /\ e \notin Live /\ Ring' = Ring
      BY <2>2, <3>1 DEF Live, InList, Ring
    <3> QED
      BY <3>1, <3>2 DEF AlarmInv, Linked, Ordered
  <2> QED
    BY <2>1, <2>2
<1>2. Ring' = Ring \ {e}
  BY <1>0, <1>1 DEF Ring
<1>3. \A a : LeftOf(a)' = LeftOf(a) /\ (Passed(a)' <=> Passed(a))
  BY DEF LeftOf, Passed
<1>4. \A a \in Alarms : InList(a)' <=> InList(a) /\ a # e
  BY <1>1 DEF Live
<1>5. Left' = [Left EXCEPT ![e] = -1]
  <2>1. ASSUME NEW a \in Alarms
        PROVE  Left'[a] = IF a = e THEN -1 ELSE Left[a]
    <3>1. Left'[a] = IF ~InList(a)' THEN -1 ELSE LeftOf(a)'
      BY DEF Left
    <3> QED
      BY <1>3, <1>4, <3>1 DEF Left
  <2> QED
    BY <2>1 DEF Left
<1> QED
  BY <1>1, <1>2, <1>3, <1>5

\* An alarm is stopped.
LEMMA StopAlarms ==
  ASSUME ClockInv, AlarmInv, NEW e \in Alarms, AlarmStop(e)
  PROVE  AlarmInv' /\ Left' = [Left EXCEPT ![e] = -1] /\ Running' = Running
<1>0. PICK r : Ordered(r) /\ Visited(r)
  BY DEF AlarmInv
<1>1. /\ pc = "run" \/ (pc = "callback" /\ e # following)
      /\ pc' = pc /\ nticks' = nticks /\ time' = time /\ rollover' = rollover
      /\ alarm' = alarm /\ following' = following /\ alt_llist_remove(e)
  BY DEF AlarmStop, tickVars
<1>2. /\ Linked' /\ Ordered(r)' /\ Live' = Live \ {e} /\ Ring' = Ring \ {e}
      /\ \A a : LeftOf(a)' = LeftOf(a) /\ (Passed(a)' <=> Passed(a))
      /\ Left' = [Left EXCEPT ![e] = -1]
  BY <1>0, <1>1, RemoveLeft
<1>3. AlarmTypes'
  BY <1>1 DEF AlarmTypes, AlarmInv
<1>4. Visited(r)'
  <2>1. CASE pc = "run"
    BY <1>0, <1>1, <1>2, <2>1 DEF Visited
  <2>2. CASE pc = "callback" /\ e # following
    <3>1. /\ alarm \in Alarms /\ following \in Ring /\ following # alarm
          /\ alarm \in Live => Passed(alarm) \/ (LeftOf(alarm) = 0 /\ ~rollover[alarm])
          /\ \A a \in Live \ {alarm} : LeftOf(a) >= 0 /\ (Before(r, a, following) => Passed(a))
      BY <1>0, <2>2 DEF Visited
    <3>2. (alarm \in Live => Passed(alarm) \/ (LeftOf(alarm) = 0 /\ ~rollover[alarm]))'
      BY <1>1, <1>2, <3>1 DEF LeftOf, Passed
    <3>3. ASSUME NEW a \in Live' \ {alarm'}
          PROVE  LeftOf(a)' >= 0 /\ (Before(r, a, following) => Passed(a))'
      <4>1. Before(r, a, following)' <=> Before(r, a, following)
        BY <1>1 DEF Before
      <4> QED
        BY <1>1, <1>2, <3>1, <4>1
    <3> QED
      BY <1>1, <1>2, <2>2, <3>1, <3>2, <3>3 DEF Visited
  <2> QED
    BY <1>1, <2>1, <2>2
<1>5. (\E x : Ordered(x) /\ Visited(x))'
  BY <1>2, <1>4
<1> QED
  BY <1>1, <1>2, <1>3, <1>5 DEF AlarmInv, Running

\* A callback returns, whether it has stopped its own alarm or not, or started it again: an
\* alarm that runs gets the ticks asked for on top of those it has left.
LEMMA ReturnAlarms ==
  ASSUME ClockInv, AlarmInv, CallbackReturns
  PROVE  /\ AlarmInv'
         /\ Running \in Alarms /\ Running' = Head
         /\ \E k \in Periods :
              Left' = [Left EXCEPT ![Running] = IF k = 0 \/ @ = -1 THEN -1 ELSE @ + k]
<1>0. PICK r : Ordered(r) /\ Visited(r)
  BY DEF AlarmInv
<1>1. /\ pc = "callback" /\ pc' = "loop" /\ alarm' = following /\ following' = Head
      /\ nticks' = nticks
  BY DEF CallbackReturns
<1>c. PICK c \in Alarms : c = alarm
  BY <1>0, <1>1 DEF Visited
<1>2. PICK k \in Periods :
        IF k = 0 THEN alt_llist_remove(c) /\ UNCHANGED <<time, rollover>>
        ELSE LET due == Due(time[c], k)
             IN  /\ InList(c) => LeftOf(c) + k < Word
                 /\ time' = [time EXCEPT ![c] = due]
                 /\ rollover' = [rollover EXCEPT ![c] = @ \/ due < nticks]
                 /\ UNCHANGED <<next, previous>>
  BY <1>c DEF CallbackReturns
<1>3. /\ c \in Alarms /\ following \in Ring /\ following # c
      /\ c \in Live => Passed(c) \/ (LeftOf(c) = 0 /\ ~rollover[c])
      /\ \A a \in Live : a # c => LeftOf(a) >= 0 /\ (Before(r, a, following) => Passed(a))
  BY <1>0, <1>1, <1>c DEF Visited
<1>4. /\ nticks \in Int /\ 0 <= nticks /\ nticks < Word
      /\ \A a \in Alarms : /\ time[a] \in Int /\ 0 <= time[a] /\ time[a] < Word
                           /\ rollover[a] \in BOOLEAN /\ LeftOf(a) \in Int
      /\ time \in [Alarms -> 0 .. Word - 1] /\ rollover \in [Alarms -> BOOLEAN]
  BY AlarmNumbers DEF AlarmInv, AlarmTypes
<1>5. following \in Nodes /\ Head \in Nodes
  BY <1>3 DEF Ring, Live, Nodes
<1>6. \A a : Before(r, a, alarm)' <=> Before(r, a, following)
  BY <1>1 DEF Before
<1>r. Running = c /\ Running' = Head
  BY <1>1, <1>c DEF Running
<1>7. CASE k = 0
  <2>1. alt_llist_remove(c) /\ time' = time /\ rollover' = rollover
    BY <1>2, <1>7
  <2>2. /\ Linked' /\ Ordered(r)' /\ Live' = Live \ {c} /\ Ring' = Ring \ {c}
        /\ \A a : LeftOf(a)' = LeftOf(a) /\ (Passed(a)' <=> Passed(a))
        /\ Left' = [Left EXCEPT ![c] = -1]
    BY <1>0, <1>1, <1>3, <2>1, RemoveLeft
  <2>3. AlarmTypes'
    BY <1>1, <1>5, <2>1 DEF AlarmTypes, AlarmInv
  <2>4. Visited(r)'
    <3>1. ASSUME NEW a \in Live'
          PROVE  LeftOf(a)' >= 0 /\ (Before(r, a, alarm) => Passed(a))'
      BY <1>3, <1>6, <2>2
    <3> QED
      BY <1>1, <1>3, <2>2, <3>1 DEF Visited
  <2>5. (\E x : Ordered(x) /\ Visited(x))'
    BY <2>2, <2>4
  <2>6. AlarmInv'
    BY <2>2, <2>3, <2>5 DEF AlarmInv
  <2> QED
    BY <1>3, <1>7, <1>r, <2>2, <2>6
<1>8. CASE k # 0
  <2>0. k \in Int /\ 0 < k /\ k < Word
    BY <1>8, SystemClockAssumption
  <2> DEFINE due == Due(time[c], k)
  <2>1. /\ time' = [time EXCEPT ![c] = due]
        /\ rollover' = [rollover EXCEPT ![c] = @ \/ due < nticks]
        /\ next' = next /\ previous' = previous
    BY <1>2, <1>8
  <2>2. /\ due = IF time[c] + k < Word THEN time[c] + k ELSE time[c] + k - Word
        /\ due \in 0 .. Word - 1
    BY <1>3, <1>4, <2>0, DueIs
  <2> HIDE DEF due
  <2>3. /\ time'[c] = due /\ rollover'[c] = (rollover[c] \/ due < nticks)
        /\ \A a \in Alarms : a # c => time'[a] = time[a] /\ rollover'[a] = rollover[a]
        /\ time' \in [Alarms -> 0 .. Word - 1] /\ rollover' \in [Alarms -> BOOLEAN]
    BY <1>3, <1>4, <2>1, <2>2
  <2>4. Live' = Live /\ Ring' = Ring /\ Linked' /\ Ordered(r)'
    BY <1>0, <2>1 DEF Live, Ring, InList, Linked, Ordered, AlarmInv
  <2>5. \A a \in Alarms : a # c => LeftOf(a)' = LeftOf(a) /\ (Passed(a)' <=> Passed(a))
    BY <1>1, <2>3 DEF LeftOf, Passed
  <2>6. ASSUME c \in Live
        PROVE  LeftOf(c)' = LeftOf(c) + k /\ LeftOf(c)' > 0 /\ Passed(c)'
    <3> DEFINE L == LeftOf(c)
    <3>1. /\ L \in Int /\ 0 <= L /\ L + k < Word
          /\ L = IF rollover[c] THEN time[c] + Word - nticks ELSE time[c] - nticks
          /\ rollover[c] => nticks # 0
      BY <1>2, <1>3, <1>4, <1>8, <2>6 DEF Passed, LeftOf, Live
    <3> HIDE DEF L
    <3>2. CASE ~rollover[c] /\ time[c] + k < Word
      <4>1. time'[c] = time[c] + k /\ ~rollover'[c]
        BY <1>4, <2>0, <2>2, <2>3, <3>1, <3>2
      <4>2. LeftOf(c)' = time'[c] - nticks
        BY <1>1, <4>1 DEF LeftOf
      <4>3. LeftOf(c)' = L + k
        BY <1>4, <2>0, <3>1, <3>2, <4>1, <4>2
      <4>4. LeftOf(c)' > 0
        BY <2>0, <3>1, <4>3
      <4> QED
        BY <4>1, <4>3, <4>4 DEF Passed, L
    <3>3. CASE rollover[c] \/ time[c] + k >= Word
      <4>1. /\ time'[c] = (IF rollover[c] THEN time[c] + k ELSE time[c] + k - Word)
            /\ rollover'[c] /\ nticks # 0
        BY <1>4, <2>0, <2>2, <2>3, <3>1, <3>3, Words
      <4>2. LeftOf(c)' = time'[c] + Word - nticks
        BY <1>1, <4>1 DEF LeftOf
      <4>3. LeftOf(c)' = L + k
        BY <1>4, <2>0, <3>1, <4>1, <4>2, Words
      <4>4. LeftOf(c)' > 0
        BY <2>0, <3>1, <4>3
      <4> QED
        BY <1>1, <4>1, <4>3, <4>4 DEF Passed, L
    <3> QED
      BY <1>3, <1>4, <2>0, <3>2, <3>3, Words
  <2>7. AlarmTypes'
    BY <1>1, <1>5, <2>3 DEF AlarmTypes, AlarmInv
  <2>8. Visited(r)'
    <3>1. ASSUME NEW a \in Live'
          PROVE  LeftOf(a)' >= 0 /\ (Before(r, a, alarm) => Passed(a))'
      <4>1. CASE a = c
        <5>1. c \in Live /\ LeftOf(c) + k \in Int
          BY <1>3, <1>4, <2>0, <2>4, <4>1
        <5>2. LeftOf(c)' >= 0 /\ Passed(c)'
          BY <2>6, <5>1
        <5> QED
          BY <4>1, <5>2
      <4>2. CASE a # c
        BY <1>3, <1>6, <2>4, <2>5, <4>2 DEF Live
      <4> QED
        BY <4>1, <4>2
    <3> QED
      BY <1>1, <1>3, <2>4, <3>1 DEF Visited
  <2>9. (\E x : Ordered(x) /\ Visited(x))'
    BY <2>4, <2>8
  <2>10. AlarmInv'
    BY <2>4, <2>7, <2>9 DEF AlarmInv
  <2>11. ASSUME NEW a \in Alarms
         PROVE  Left'[a] = IF a # c THEN Left[a] ELSE IF Left[c] = -1 THEN -1 ELSE Left[c] + k
    <3>1. Left'[a] = IF ~InList(a) THEN -1 ELSE LeftOf(a)'
      BY <2>1 DEF Left, InList
    <3>2. /\ Left[a] = IF ~InList(a) THEN -1 ELSE LeftOf(a)
          /\ a \in Live <=> InList(a)
      BY DEF Left, Live
    <3>3. c \in Live => LeftOf(c) # -1
      BY <1>3, <1>4 DEF Passed
    <3> QED
      BY <2>5, <2>6, <3>1, <3>2, <3>3
  <2>12. Left' = [Left EXCEPT ![c] = IF k = 0 \/ @ = -1 THEN -1 ELSE @ + k]
    BY <1>8, <2>11 DEF Left
  <2> QED
    BY <1>3, <1>r, <2>10, <2>12
<1> QED
  BY <1>7, <1>8
----------------------------------------------------------------------------
(* The invariant and the theorems *)

IInv == ClockInv /\ DayInv /\ WaitInv /\ AlarmInv

\* The invariant holds when the system starts, and no alarm runs.
LEMMA InitIInv == Init => IInv /\ Clock!Init
<1> SUFFICES ASSUME Init PROVE IInv /\ Clock!Init
  OBVIOUS
<1>1. ClockInv /\ WaitInv
  BY Words DEF Init, ClockInv, WaitInv
<1>2. DayInv
  <2>1. setAt * TickLength = 0 /\ resettime.sec * US = 0 /\ set.sec * US = 0
    BY Words, TickLengthIs DEF Init
  <2> QED
    BY <2>1, Words DEF Init, DayInv
<1>3. Linked /\ AlarmTypes
  <2>1. next = [n \in Nodes |-> n] /\ previous = [n \in Nodes |-> n]
    BY DEF Init
  <2>2. Linked
    BY <2>1 DEF Linked
  <2>3. 0 \in 0 .. Word - 1 /\ Head \in Nodes
    BY Words DEF Nodes
  <2> QED
    BY <2>2, <2>3 DEF Init, AlarmTypes
<1>4. Live = {} /\ Ring = {Head} /\ Head \in Nodes
  BY DEF Init, Live, Ring, InList, Nodes
<1> DEFINE r == [n \in Nodes |-> 0]
<1>5. Ordered(r)
  BY <1>4 DEF Init, Ordered
<1>6. Visited(r)
  BY <1>4 DEF Init, Visited
<1>7. Clock!Init
  BY <1>4 DEF Init, Clock!Init, Clock!Idle, Left, Live, Running
<1> QED
  BY <1>1, <1>2, <1>3, <1>5, <1>6, <1>7 DEF IInv, AlarmInv

\* A step that sets no time of day keeps what is known of it.
LEMMA AsideDay ==
  ASSUME DayInv, UNCHANGED dayVars
  PROVE  DayInv'
BY DEF dayVars, DayInv

\* A step of no wait keeps what is known of the waits, unless the rate changes in one.
LEMMA AsideWait ==
  ASSUME ClockInv, WaitInv, UNCHANGED waitVars, UNCHANGED nticks,
         rate' = rate \/ rate = 0
  PROVE  WaitInv'
<1>1. Asked' = Asked /\ Phase' = Phase
  BY DEF Asked, Phase, waitVars
<1>2. wait # "none" => rate' = rate
  BY Words DEF WaitInv
<1> QED
  BY <1>1, <1>2 DEF WaitInv, waitVars

\* The steps of the list, seen from AlarmClock.
LEMMA AlarmStep ==
  ASSUME IInv, [Next]_vars
  PROVE  AlarmInv' /\ (Clock!Next \/ UNCHANGED <<Left, Running>>)
<1>0. ClockInv /\ AlarmInv
  BY DEF IInv
<1>1. ASSUME UNCHANGED <<nticks, listVars, tickVars>>
      PROVE  AlarmInv' /\ UNCHANGED <<Left, Running>>
  BY <1>0, <1>1, AsideAlarms DEF listVars, tickVars
<1>2. CASE TimerInit
  BY <1>1, <1>2 DEF TimerInit
<1>3. CASE Tick
  <2>1. Clock!Tick
    BY <1>0, <1>3, TickAlarms DEF Clock!Tick, Clock!Idle
  <2> QED
    BY <1>0, <1>3, <2>1, TickAlarms DEF Clock!Next
<1>4. CASE Visit
  <2>1. CASE Running' = Head
    BY <1>0, <1>4, <2>1, VisitAlarms
  <2>2. ASSUME NEW a \in Alarms, Left[a] = 0, Running' = a
        PROVE  Clock!Call(a)
    BY <1>0, <1>4, <2>2, VisitAlarms DEF Clock!Call
  <2> QED
    BY <1>0, <1>4, <2>1, <2>2, VisitAlarms DEF Clock!Next
<1>5. CASE CallbackReturns
  <2>1. Clock!Return
    BY <1>0, <1>5, ReturnAlarms, SystemClockAssumption DEF Clock!Return, Clock!Idle
  <2> QED
    BY <1>0, <1>5, <2>1, ReturnAlarms DEF Clock!Next
<1>6. CASE TickDone
  BY <1>0, <1>6, TickDoneAlarms
<1>7. ASSUME NEW a \in Alarms, AlarmStart(a)
      PROVE  AlarmInv' /\ Clock!Next
  <2>1. Clock!Start(a)
    BY <1>0, <1>7, StartAlarms DEF Clock!Start, Clock!Idle
  <2> QED
    BY <1>0, <1>7, <2>1, StartAlarms DEF Clock!Next
<1>8. ASSUME NEW a \in Alarms, AlarmStop(a)
      PROVE  AlarmInv' /\ Clock!Next
  <2>1. Clock!Stop(a)
    BY <1>0, <1>8, StopAlarms DEF Clock!Stop, Clock!Idle
  <2> QED
    BY <1>0, <1>8, <2>1, StopAlarms DEF Clock!Next
<1>9. CASE WaitFor("settle", SettleTime) \/ WaitFor("xfer", XferTimeout)
  BY <1>1, <1>9 DEF WaitFor
<1>10. CASE Expire \/ Answered
  BY <1>1, <1>10 DEF Expire, Answered, EndWait
<1>11. ASSUME NEW t \in Times, settimeofday(t)
       PROVE  AlarmInv' /\ UNCHANGED <<Left, Running>>
  BY <1>1, <1>11 DEF settimeofday
<1>12. CASE UNCHANGED vars
  BY <1>1, <1>12 DEF vars
<1> QED
  BY <1>2, <1>3, <1>4, <1>5, <1>6, <1>7, <1>8, <1>9, <1>10, <1>11, <1>12 DEF Next, Loop

\* The inductive step.
LEMMA StepIInv == IInv /\ [Next]_vars => IInv'
<1> SUFFICES ASSUME IInv, [Next]_vars PROVE IInv'
  OBVIOUS
<1>0. ClockInv /\ DayInv /\ WaitInv
  BY DEF IInv
<1> SUFFICES ClockInv' /\ DayInv' /\ WaitInv'
  BY AlarmStep DEF IInv
<1>2. ASSUME UNCHANGED <<nticks, dayVars, waitVars>>, rate' = rate \/ (rate = 0 /\ rate' = TickRate)
      PROVE  ClockInv' /\ DayInv' /\ WaitInv'
  BY <1>0, <1>2, AsideDay, AsideWait DEF ClockInv
<1>3. CASE TimerInit
  BY <1>2, <1>3 DEF TimerInit
<1>4. CASE Tick
  <2>1. ClockInv'
    BY <1>0, <1>4, PhaseMoves DEF Tick, ClockInv
  <2> QED
    BY <1>0, <1>4, <2>1, AsideDay, TickKeepsWait DEF Tick
<1>5. CASE Loop
  BY <1>2, <1>5 DEF Loop, Visit, CallbackReturns, TickDone
<1>6. CASE \E a \in Alarms : AlarmStart(a) \/ AlarmStop(a)
  BY <1>2, <1>6 DEF AlarmStart, AlarmStop
<1>7. ASSUME NEW kind, NEW ms, WaitFor(kind, ms),
             <<kind, ms>> \in {<<"settle", SettleTime>>, <<"xfer", XferTimeout>>}
      PROVE  ClockInv' /\ DayInv' /\ WaitInv'
  <2>1. WaitInv'
    BY <1>0, <1>7, WaitForKeeps
  <2> QED
    BY <1>0, <1>7, <2>1, AsideDay DEF WaitFor, ClockInv
<1>8. CASE Expire \/ Answered
  <2>1. EndWait
    BY <1>8 DEF Expire, Answered
  <2>2. WaitInv'
    BY <2>1, Words DEF EndWait, WaitInv
  <2> QED
    BY <1>0, <2>1, <2>2, AsideDay DEF EndWait, ClockInv
<1>9. ASSUME NEW t \in Times, settimeofday(t)
      PROVE  ClockInv' /\ DayInv' /\ WaitInv'
  <2>1. DayInv'
    BY <1>0, <1>9, SetKeeps
  <2> QED
    BY <1>0, <1>9, <2>1, AsideWait DEF settimeofday, ClockInv
<1>10. CASE UNCHANGED vars
  BY <1>2, <1>10 DEF vars
<1> QED
  BY <1>3, <1>4, <1>5, <1>6, <1>7, <1>8, <1>9, <1>10 DEF Next

\* The invariant holds in every state (alt_tick.c, alt_alarm_start.c, transfer.c,
\* alt_gettimeofday.c).
THEOREM Invariance == Spec => []IInv
<1>1. Init => IInv
  BY InitIInv
<1> QED
  BY <1>1, StepIInv, PTL DEF Spec

\* gettimeofday never loses or gains a microsecond, whatever the rate of the timer, as
\* long as the counter and the product in settimeofday do not wrap (alt_gettimeofday.c,
\* alt_settod.c).
THEOREM DayAlwaysKept == Spec => []DayIsKept
<1>1. IInv => DayIsKept
  BY ReadingIsExact DEF IInv
<1> QED
  BY <1>1, Invariance, PTL

\* Neither wait of transfer.c ends before its time is over, however often the
\* milliseconds wrap while it lasts.
THEOREM NoWaitCutShort == Spec => NeverCutShort
<1> DEFINE A == Expire => waited * Thousand > (IF wait = "settle" THEN SettleTime
                                               ELSE XferTimeout - 1) * TickRate
<1>1. IInv /\ [Next]_vars => [A]_vars
  BY OverInTime DEF IInv
<1> QED
  BY <1>1, Invariance, PTL DEF Spec, NeverCutShort

\* The list of alarms implements the safety part of AlarmClock: whatever callbacks start
\* and stop while alt_tick is on its way through the list, their own alarms too, each
\* alarm runs on its tick.
THEOREM ImplementsAlarmClock == Spec => Clock!Init /\ [][Clock!Next]_<<Left, Running>>
<1>1. Init => Clock!Init
  BY InitIInv
<1>2. IInv /\ [Next]_vars => [Clock!Next]_<<Left, Running>>
  BY AlarmStep
<1> QED
  BY <1>1, <1>2, Invariance, PTL DEF Spec
----------------------------------------------------------------------------
(* A tick comes to an end *)

\* The alarms that a walk of the list reaches from a node before it meets the head.
Leads(from, S) == from \in S /\ \A n \in S \ {Head} : next[n] \in S
Reached(from) == {a \in Live : \A S \in SUBSET Nodes : Leads(from, S) => a \in S}

\* The alarms that alt_tick still looks at in this tick.
ToCome == Reached(IF pc = "callback" THEN following ELSE alarm)

\* While alt_tick walks, no alarm comes before it a second time: it looks at one after the
\* other, and callbacks add none to those to come and only take out what they stop.
OncePerTick ==
  [][pc # "run" =>
       IF Visit THEN alarm \in ToCome /\ ToCome' = ToCome \ {alarm}
       ELSE ToCome' \subseteq ToCome /\ \A a \in ToCome \ ToCome' : ~InList(a)']_vars

\* From an alarm of the ring the walk reaches the alarm itself, once, and what follows.
LEMMA ReachedNext ==
  ASSUME Linked, NEW r, Ordered(r), NEW a \in Live
  PROVE  a \in Reached(a) /\ Reached(next[a]) = Reached(a) \ {a}
<1>0. a \in Nodes /\ a # Head /\ next[a] \in Nodes /\ a \in Ring /\ Head \in Ring
  BY SystemClockAssumption DEF Linked, Live, Nodes, Ring
<1>1. a \in Reached(a)
  BY DEF Reached, Leads
<1>2. a \notin Reached(next[a])
  <2> DEFINE S == {n \in Ring : r[a] < r[n]} \union {Head}
  <2>1. S \in SUBSET Nodes /\ a \notin S
    BY <1>0 DEF Ring, Live, Nodes, Ordered
  <2>2. next[a] \in S
    BY <1>0 DEF Ordered, Ring
  <2>3. ASSUME NEW n \in S \ {Head} PROVE next[n] \in S
    <3>1. n \in Ring /\ r[a] < r[n] /\ r[a] \in Int /\ r[n] \in Int
      BY <1>0, <2>1, <2>3 DEF Ordered
    <3>2. CASE next[n] # Head
      <4>1. next[n] \in Ring /\ r[n] < r[next[n]] /\ r[next[n]] \in Int
        BY <3>1, <3>2 DEF Ordered, Ring, Live, Nodes
      <4>2. r[a] < r[next[n]]
        BY <3>1, <4>1
      <4> QED
        BY <4>1, <4>2
    <3> QED
      BY <3>2
  <2> HIDE DEF S
  <2> QED
    BY <2>1, <2>2, <2>3 DEF Reached, Leads
<1>3. ASSUME NEW x \in Reached(next[a]) PROVE x \in Reached(a)
  BY <1>0, <1>3 DEF Reached, Leads
<1>4. ASSUME NEW x \in Reached(a), x # a PROVE x \in Reached(next[a])
  <2> SUFFICES ASSUME NEW S \in SUBSET Nodes, Leads(next[a], S) PROVE x \in S
    BY <1>4 DEF Reached
  <2>1. S \union {a} \in SUBSET Nodes /\ Leads(a, S \union {a})
    BY <1>0 DEF Leads
  <2> QED
    BY <1>4, <2>1 DEF Reached
<1> QED
  BY <1>1, <1>2, <1>3, <1>4 DEF Reached

\* An alarm that becomes the first is behind the walk.
LEMMA ReachedStart ==
  ASSUME Linked, NEW c \in Ring, NEW e \in Alarms, ~InList(e), alt_llist_insert(e)
  PROVE  Reached(c)' = Reached(c)
<1>0. /\ e \in Nodes /\ e # Head /\ Head \in Nodes /\ next[e] = e /\ c # e
      /\ next' = [n \in Nodes |-> IF n = Head THEN e ELSE IF n = e THEN next[Head] ELSE next[n]]
      /\ next[Head] # e
  BY SystemClockAssumption, InsertLinks, Neighbours
     DEF Linked, Nodes, Ring, Live, InList, alt_llist_insert
<1>1. Live' = Live \union {e} /\ e \notin Live
  <2>1. next'[e] # e /\ \A n \in Alarms \ {e} : next'[n] = next[n]
    BY <1>0, SystemClockAssumption DEF Nodes
  <2> QED
    BY <1>0, <2>1 DEF Live, InList
<1>2. \A n \in Nodes \ {e} : next[n] # e
  BY <1>0, Neighbours
<1>3. ASSUME NEW S \in SUBSET Nodes, Leads(c, S)
      PROVE  S \ {e} \in SUBSET Nodes /\ Leads(c, S \ {e})'
  BY <1>0, <1>2, <1>3 DEF Leads
<1>4. ASSUME NEW S \in SUBSET Nodes, Leads(c, S)'
      PROVE  S \ {e} \in SUBSET Nodes /\ Leads(c, S \ {e})
  BY <1>0, <1>2, <1>4 DEF Leads
<1>5. ASSUME NEW x \in Reached(c) PROVE x \in Reached(c)'
  BY <1>1, <1>4, <1>5 DEF Reached
<1>6. ASSUME NEW x \in Reached(c)' PROVE x \in Reached(c)
  <2>1. c \in Nodes
    BY DEF Ring, Live, Nodes
  <2>2. Leads(c, Nodes \ {e})'
    BY <1>0, <1>2, <2>1, Neighbours DEF Leads
  <2>3. x \in Live
    BY <1>1, <1>6, <2>2 DEF Reached
  <2> QED
    BY <1>3, <1>6, <2>3 DEF Reached
<1> QED
  BY <1>5, <1>6

\* An alarm that leaves its list is missing from the walk; the rest of it stays.
LEMMA ReachedStop ==
  ASSUME Linked, NEW r, Ordered(r), NEW c \in Ring, NEW e \in Live, c # e, alt_llist_remove(e)
  PROVE  Reached(c)' = Reached(c) \ {e} /\ ~InList(e)'
<1>0. /\ e \in Nodes /\ e # Head /\ next[e] # e
      /\ previous[e] \in Nodes \ {e} /\ next[previous[e]] = e /\ next[e] \in Nodes
      /\ \A n \in Nodes : next[n] = e => n = previous[e]
      /\ next' = [n \in Nodes |-> IF n = e THEN e ELSE IF n = previous[e] THEN next[e]
                                  ELSE next[n]]
  BY SystemClockAssumption, RemoveLinks, Neighbours DEF Linked, Nodes, Live, InList
<1>1. Live' = Live \ {e} /\ ~InList(e)'
  BY <1>0, RemoveOrder DEF InList
<1>2. ASSUME NEW S \in SUBSET Nodes, Leads(c, S)
      PROVE  Leads(c, S)'
  BY <1>0, <1>2 DEF Leads
<1>3. ASSUME NEW x \in Reached(c)' PROVE x \in Reached(c) /\ x # e
  BY <1>1, <1>2, <1>3 DEF Reached
<1>4. ASSUME NEW x \in Reached(c), x # e PROVE x \in Reached(c)'
  <2> SUFFICES ASSUME NEW S \in SUBSET Nodes, Leads(c, S)' PROVE x \in S
    BY <1>1, <1>4 DEF Reached
  <2> DEFINE T == IF previous[e] \in S \ {Head} THEN S \union {e} ELSE S \ {e}
  <2>1. T \in SUBSET Nodes /\ c \in T
    BY <1>0 DEF Leads
  <2>2. ASSUME NEW n \in T \ {Head} PROVE next[n] \in T
    <3>1. CASE previous[e] \in S \ {Head}
      BY <1>0, <2>2, <3>1 DEF Leads
    <3>2. CASE previous[e] \notin S \ {Head}
      BY <1>0, <2>2, <3>2 DEF Leads
    <3> QED
      BY <3>1, <3>2
  <2>3. x \in T
    BY <1>4, <2>1, <2>2 DEF Reached, Leads
  <2> QED
    BY <1>4, <2>3
<1> QED
  BY <1>1, <1>3, <1>4

\* A step of anybody while alt_tick walks.
LEMMA WalkStep ==
  ASSUME IInv, [Next]_vars, vars' # vars, pc # "run"
  PROVE  IF Visit THEN alarm \in ToCome /\ ToCome' = ToCome \ {alarm}
         ELSE ToCome' \subseteq ToCome /\ \A a \in ToCome \ ToCome' : ~InList(a)'
<1>0. Linked /\ AlarmTypes /\ \E r : Ordered(r) /\ Visited(r)
  BY DEF IInv, AlarmInv
<1>1. PICK r : Ordered(r) /\ Visited(r)
  BY <1>0
<1>2. PICK c : /\ c = (IF pc = "callback" THEN following ELSE alarm)
               /\ c \in Ring /\ ToCome = Reached(c)
  BY <1>0, <1>1 DEF Visited, AlarmTypes, ToCome
<1>3. ASSUME next' = next PROVE \A n : Reached(n)' = Reached(n)
  BY <1>3 DEF Reached, Leads, Live, InList
<1>4. CASE Visit
  <2>1. alarm \in Live /\ pc = "loop" /\ next' = next /\ pc' \in {"loop", "callback"}
        /\ (IF pc = "callback" THEN following ELSE alarm)' = next[alarm]
    BY <1>1, <1>4 DEF Visit, Visited, Ring
  <2>2. ToCome' = Reached(next[alarm])
    BY <1>3, <2>1 DEF ToCome
  <2> QED
    BY <1>0, <1>1, <1>2, <1>4, <2>1, <2>2, ReachedNext
<1>5. CASE CallbackReturns
  <2>1. /\ pc = "callback" /\ pc' = "loop" /\ c = following /\ alarm' = c
        /\ alarm \in Alarms /\ following # alarm
        /\ next' = next \/ alt_llist_remove(alarm)
    BY <1>1, <1>2, <1>5 DEF CallbackReturns, Visited
  <2>2. ToCome' = Reached(c)' /\ ~Visit
    BY <2>1 DEF ToCome, Visit
  <2>3. CASE next' = next
    BY <1>2, <1>3, <2>2, <2>3
  <2>4. CASE alt_llist_remove(alarm) /\ alarm \in Live
    BY <1>0, <1>1, <1>2, <2>1, <2>2, <2>4, ReachedStop
  <2>5. CASE alt_llist_remove(alarm) /\ alarm \notin Live
    BY <1>0, <2>1, <2>3, <2>5, RemoveNone DEF Live
  <2> QED
    BY <2>1, <2>3, <2>4, <2>5
<1>6. ASSUME UNCHANGED <<next, tickVars>>, ~Visit
      PROVE  ToCome' = ToCome
  BY <1>3, <1>6 DEF ToCome, tickVars
<1>7. CASE TickDone
  <2>1. alarm = Head /\ c = Head /\ alarm' = Head /\ pc' = "run" /\ next' = next /\ ~Visit
    BY <1>2, <1>7 DEF TickDone, Visit, listVars
  <2>2. ToCome' = Reached(c)'
    BY <2>1 DEF ToCome
  <2> QED
    BY <1>2, <1>3, <2>1, <2>2
<1>8. ASSUME NEW a \in Alarms, AlarmStart(a)
      PROVE  ~Visit /\ ToCome' = ToCome
  <2>1. /\ pc = "callback" /\ UNCHANGED tickVars /\ ~InList(a) /\ alt_llist_insert(a)
    BY <1>8 DEF AlarmStart
  <2>2. ToCome' = Reached(c)' /\ ~Visit
    BY <1>2, <2>1 DEF ToCome, tickVars, Visit
  <2> QED
    BY <1>0, <1>2, <2>1, <2>2, ReachedStart
<1>9. ASSUME NEW a \in Alarms, AlarmStop(a)
      PROVE  ~Visit /\ ToCome' \subseteq ToCome /\ \A b \in ToCome \ ToCome' : ~InList(b)'
  <2>1. pc = "callback" /\ UNCHANGED tickVars /\ a # following /\ alt_llist_remove(a)
    BY <1>9 DEF AlarmStop
  <2>2. ToCome' = Reached(c)' /\ a # c /\ ~Visit
    BY <1>2, <2>1 DEF ToCome, tickVars, Visit
  <2>3. CASE a \in Live
    BY <1>0, <1>1, <1>2, <2>1, <2>2, <2>3, ReachedStop
  <2>4. CASE a \notin Live
    BY <1>0, <1>2, <1>3, <2>1, <2>2, <2>4, RemoveNone DEF Live
  <2> QED
    BY <2>3, <2>4
<1>10. CASE \/ WaitFor("settle", SettleTime) \/ WaitFor("xfer", XferTimeout)
            \/ Expire \/ Answered \/ \E t \in Times : settimeofday(t)
  BY <1>10 DEF WaitFor, Expire, Answered, settimeofday
<1>11. CASE TimerInit
  <2>1. UNCHANGED <<next, tickVars>>
    BY <1>11 DEF TimerInit, listVars
  <2>2. ~Visit
    BY <1>11, Words DEF TimerInit, Visit, listVars, tickVars
  <2> QED
    BY <1>6, <2>1, <2>2
<1>12. CASE Tick
  BY <1>12 DEF Tick
<1> QED
  BY <1>4, <1>5, <1>7, <1>8, <1>9, <1>10, <1>11, <1>12 DEF Next, Loop

\* alt_tick looks at an alarm at most once in a tick: its walk through the list ends though
\* callbacks change the list under it and start their own alarm again at once.
THEOREM TickAlwaysEnds == Spec => OncePerTick
<1>1. IInv /\ [Next]_vars =>
        [pc # "run" =>
           IF Visit THEN alarm \in ToCome /\ ToCome' = ToCome \ {alarm}
           ELSE ToCome' \subseteq ToCome /\ \A a \in ToCome \ ToCome' : ~InList(a)']_vars
  BY WalkStep
<1> QED
  BY <1>1, Invariance, PTL DEF Spec, OncePerTick
----------------------------------------------------------------------------
(* The timing of the picture *)

HeldAtZero == Reset => clkdiv = 0 /\ hc = 0 /\ vc = 0 /\ hs = 0 /\ vs = 0
PulseInv == TypeOK /\ HeldAtZero /\ PulseShape

\* The invariant holds when the board is switched on.
LEMMA InitPulse == TimingInit => PulseInv
BY VgaAssumption DEF TimingInit, PulseInv, TypeOK, HeldAtZero, PulseShape, fresh

\* A pixel clock keeps the counters in the frame and the pulses at their places.
LEMMA PixelKeepsPulse ==
  ASSUME PulseInv, Pixel, Reset' = FALSE, clkdiv' \in {0, 1}
  PROVE  PulseInv'
<1> USE VgaAssumption
<1>0. /\ hpixels \in Nat /\ hpixels >= 1 /\ vlines \in Nat /\ vlines >= 491
      /\ hc \in Nat /\ hc <= hpixels /\ vc \in Nat /\ vc <= vlines
  BY DEF PulseInv, TypeOK
<1>1. TypeOK'
  <2>1. hc' \in Nat /\ hc' <= hpixels
    BY <1>0 DEF Pixel, atEndOfLine
  <2>2. vc' \in Nat /\ vc' <= vlines
    BY <1>0 DEF Pixel
  <2>3. hs' \in {0, 1} /\ vs' \in {0, 1}
    BY DEF Pixel
  <2>4. hc' \in 0 .. hpixels /\ vc' \in 0 .. vlines
    BY <1>0, <2>1, <2>2
  <2>5. Reset' \in BOOLEAN
    BY ZenonT(60)
  <2> QED
    BY <2>3, <2>4, <2>5 DEF TypeOK
<1>2. HeldAtZero'
  BY DEF HeldAtZero
<1>3. ~fresh' /\ (vs' = 0 <=> inPulse')
  <2>1. vs \in {0, 1} /\ (vs = 0 => fresh \/ inPulse)
    BY DEF PulseInv, TypeOK, PulseShape
  <2>2. CASE atEndOfLine
    BY <1>0, <2>1, <2>2 DEF Pixel, atEndOfLine, VsLow, fresh, inPulse
  <2>3. CASE ~atEndOfLine
    BY <1>0, <2>1, <2>3 DEF Pixel, atEndOfLine, VsLow, fresh, inPulse
  <2> QED
    BY <2>2, <2>3
<1>4. hs' = 0 <=> hc' \in 656 .. 751
  <2>1. hs' = 0 <=> hc \in 655 .. 750
    BY <1>0 DEF Pixel, HsLow
  <2>3. CASE atEndOfLine
    BY <1>0, <2>1, <2>3, VgaAssumption DEF Pixel, atEndOfLine
  <2>4. CASE ~atEndOfLine
    BY <1>0, <2>1, <2>4 DEF Pixel
  <2> QED
    BY <2>3, <2>4
<1> QED
  BY <1>1, <1>2, <1>3, <1>4 DEF PulseInv, PulseShape

\* The inductive step.
THEOREM StepPulse == PulseInv /\ [TimingNext]_timingVars => PulseInv'
<1> SUFFICES ASSUME PulseInv, [TimingNext]_timingVars
             PROVE  PulseInv'
  OBVIOUS
<1>1. CASE Clk
  <2>1. Reset' = FALSE /\ clkdiv' \in {0, 1}
    BY <1>1 DEF Clk, PulseInv, TypeOK
  <2>2. CASE clkdiv = 0
    BY <1>1, <2>1, <2>2, PixelKeepsPulse DEF Clk
  <2>3. CASE clkdiv # 0
    BY <1>1, <2>1, <2>3 DEF Clk, PulseInv, TypeOK, HeldAtZero, PulseShape, fresh, inPulse
  <2> QED
    BY <2>2, <2>3
<1>2. CASE PressReset
  BY <1>2, VgaAssumption DEF PressReset, PulseInv, TypeOK, HeldAtZero, PulseShape, fresh
<1>3. CASE ReleaseReset
  BY <1>3 DEF ReleaseReset, PulseInv, TypeOK, HeldAtZero, PulseShape, fresh, inPulse
<1>4. CASE UNCHANGED timingVars
  BY <1>4 DEF timingVars, PulseInv, TypeOK, HeldAtZero, PulseShape, fresh, inPulse
<1> QED
  BY <1>1, <1>2, <1>3, <1>4 DEF TimingNext

\* The invariant holds in every state (VGA_controller.sv).
THEOREM PulseInvariance == TimingSpec => []PulseInv
BY InitPulse, StepPulse, PTL DEF TimingSpec

\* DrawX and DrawY never leave the frame.
THEOREM TypeCorrect == TimingSpec => []TypeOK
<1>1. PulseInv => TypeOK
  BY DEF PulseInv
<1> QED
  BY <1>1, PulseInvariance, PTL

\* The sync pulses are where the counters say.
THEOREM PulsesInPlace == TimingSpec => []PulseShape
<1>1. PulseInv => PulseShape
  BY DEF PulseInv
<1> QED
  BY <1>1, PulseInvariance, PTL

\* No step of the game is clocked while a pixel is shown, but the one after a reset.
THEOREM TicksOnlyInBlanking == TimingSpec => TicksInBlanking
<1> DEFINE A == vs = 0 /\ vs' = 1 /\ ~fresh => ~display /\ ~display'
<1>1. PulseInv /\ [TimingNext]_timingVars => [A]_timingVars
  <2> SUFFICES ASSUME PulseInv, TimingNext, vs = 0, vs' = 1, ~fresh
               PROVE  ~display /\ ~display'
    OBVIOUS
  <2>1. Clk /\ clkdiv = 0 /\ Pixel
    BY DEF TimingNext, Clk, PressReset, ReleaseReset
  <2> QED
    BY <2>1, VgaAssumption DEF PulseInv, TypeOK, PulseShape, Pixel, atEndOfLine, VsLow, inPulse,
       display
<1> QED
  BY <1>1, PulseInvariance, PTL DEF TimingSpec, TicksInBlanking

----------------------------------------------------------------------------
(* The implementation of FrameClock *)

\* The timing starts as FrameClock does.
LEMMA FrameInit == TimingInit => Frame!Init
BY DEF TimingInit, Frame!Init, stage, fresh

\* A pixel is the move of the beam that the stage allows, or leaves the stage alone.
LEMMA FramePixel ==
  ASSUME PulseInv, Clk, Pixel
  PROVE  Frame!Advance \/ UNCHANGED Frame!vars
<1> USE VgaAssumption DEF PulseInv, TypeOK, PulseShape, Frame!Advance, Frame!Move, Frame!vars
<1>0. ~Reset /\ ~Reset' /\ ~fresh'
  BY StepPulse DEF Clk, Pixel, atEndOfLine, VsLow, fresh, inPulse
<1>1. CASE fresh
  BY <1>0, <1>1 DEF Pixel, atEndOfLine, VsLow, stage, fresh, Frame!Start
<1>2. CASE ~fresh /\ vs = 0
  BY <1>0, <1>2 DEF Pixel, atEndOfLine, VsLow, stage, inPulse, Frame!Back
<1>3. CASE ~fresh /\ vs = 1 /\ vc < 480
  BY <1>0, <1>3 DEF Pixel, atEndOfLine, VsLow, stage, inPulse, Frame!Front
<1>4. CASE ~fresh /\ vs = 1 /\ vc \in 480 .. 489
  BY <1>0, <1>4 DEF Pixel, atEndOfLine, VsLow, stage, inPulse, Frame!Pulse
<1>5. CASE ~fresh /\ vs = 1 /\ vc > 489
  BY <1>0, <1>5 DEF Pixel, atEndOfLine, VsLow, stage, inPulse, Frame!Again
<1> QED
  BY <1>1, <1>2, <1>3, <1>4, <1>5

\* Every step of the counters is a step of FrameClock or a stutter.
LEMMA FrameStep == PulseInv /\ [TimingNext]_timingVars => [Frame!Next]_(Frame!vars)
<1> SUFFICES ASSUME PulseInv, [TimingNext]_timingVars
             PROVE  Frame!Next \/ UNCHANGED Frame!vars
  OBVIOUS
<1>1. CASE Clk
  <2>1. CASE clkdiv = 0
    BY <1>1, <2>1, FramePixel DEF Clk, Frame!Next
  <2>2. CASE clkdiv # 0
    BY <1>1, <2>2 DEF Clk, stage, fresh, Frame!vars
  <2> QED
    BY <2>1, <2>2
<1>2. CASE PressReset
  BY <1>2 DEF PressReset, stage, Frame!Next, Frame!Press
<1>3. CASE ReleaseReset
  BY <1>3 DEF ReleaseReset, PulseInv, HeldAtZero, stage, fresh, Frame!Next, Frame!Release,
     Frame!Move
<1>4. CASE UNCHANGED timingVars
  BY <1>4 DEF timingVars, stage, fresh, Frame!vars
<1> QED
  BY <1>1, <1>2, <1>3, <1>4 DEF TimingNext

\* Leaving fairness aside, the controller implements the clock of the game.
THEOREM ImplementsFrameClock == TimingSpec => Frame!Init /\ [][Frame!Next]_(Frame!vars)
<1> QED
  BY FrameInit, FrameStep, PulseInvariance, PTL DEF TimingSpec
=============================================================================
