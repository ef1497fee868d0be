---------------------------- MODULE RegisterPort ----------------------------
(***************************************************************************)
(* The registers of the MAX3421E as the rest of the program takes them:    *)
(* an access names a register and either writes bytes to it or reads bytes *)
(* from it, one after the other, each exactly once, and touches no other   *)
(* register; the chip changes them meanwhile.                              *)
(***************************************************************************)
EXTENDS Naturals, Sequences

CONSTANTS
  Byte, Garbage,        \* all bytes; those an empty FIFO gives
  rRCVFIFO, rSUDFIFO,   \* the FIFOs, where each byte read or written is another one
  rHIRQ                 \* where a written 1 clears a request (of which there is one here)

VARIABLES
  busy, call,   \* an access is under way, and which: [reg, data] or [reg, n]
  done,         \* how many of its bytes are done
  read,         \* what it has read
  regs, rcv, sud
vars == <<busy, call, done, read, regs, rcv, sud>>

IsWrite(c) == "data" \in DOMAIN c
Count(c) == IF IsWrite(c) THEN Len(c.data) ELSE c.n

\* What one byte does to the chip.
Put(reg, b) ==
  /\ sud' = IF reg = rSUDFIFO THEN Append(sud, b) ELSE sud
  /\ regs' = IF reg = rSUDFIFO THEN regs
             ELSE IF reg = rHIRQ THEN [regs EXCEPT ![reg] = IF b = 0 THEN @ ELSE 0]
             ELSE [regs EXCEPT ![reg] = b]
  /\ UNCHANGED rcv

Get(reg, b) ==
  /\ IF reg # rRCVFIFO THEN b = regs[reg] /\ UNCHANGED rcv
     ELSE IF rcv = <<>> THEN b \in Garbage /\ UNCHANGED rcv
     ELSE b = Head(rcv) /\ rcv' = Tail(rcv)
  /\ UNCHANGED <<regs, sud>>

Init == ~busy /\ done = 0 /\ read = <<>>

\* Any access begins.
Begin == /\ ~busy /\ busy' = TRUE
         /\ done' = 0 /\ read' = <<>>
         /\ UNCHANGED <<regs, rcv, sud>>

Step == /\ busy /\ done < Count(call)
        /\ done' = done + 1
        /\ IF IsWrite(call)
           THEN Put(call.reg, call.data[done + 1]) /\ UNCHANGED read
           ELSE \E b \in Byte : Get(call.reg, b) /\ read' = Append(read, b)
        /\ UNCHANGED <<busy, call>>

Return == /\ busy /\ done = Count(call)
          /\ busy' = FALSE /\ done' = 0
          /\ UNCHANGED <<call, read, regs, rcv, sud>>

\* The chip requests service, receives a packet, or sends what the SUDFIFO holds.
Chip == /\ UNCHANGED <<busy, call, done, read>>
        /\ \E q \in {0, 1} : regs' = [regs EXCEPT ![rHIRQ] = q]

Next == Begin \/ Step \/ Return \/ Chip

Spec == Init /\ [][Next]_vars
=============================================================================
