--------------------------- MODULE MCSystemClock ---------------------------
\* The system clock with short words.
EXTENDS SystemClock

MCTimes == {[sec |-> 0, usec |-> 0], [sec |-> 3, usec |-> 5]}
=============================================================================
