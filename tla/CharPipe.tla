------------------------------ MODULE CharPipe ------------------------------
(***************************************************************************)
(* What both ends of one direction of the JTAG UART may rely on.           *)
(* Characters are numbered as they are put in; they come out in the order  *)
(* in which they went in, none is lost, doubled or overwritten, and at     *)
(* most Capacity of them are under way.                                    *)
(***************************************************************************)
EXTENDS Naturals, Sequences

CONSTANT Capacity

VARIABLES
  last,     \* the number of the last character put in
  queue     \* the characters under way

Init == last \in Nat /\ queue = <<>>

\* Several at a time: a call fills or empties a buffer.
Put == \E n \in 1 .. Capacity - Len(queue) :
         /\ last' = last + n
         /\ queue' = queue \o [i \in 1 .. n |-> last + i]

Take == \E n \in 1 .. Len(queue) :
          /\ queue' = SubSeq(queue, n + 1, Len(queue))
          /\ last' = last

Next == Put \/ Take

Spec == Init /\ [][Next]_<<last, queue>>
=============================================================================
