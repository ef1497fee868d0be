-------------------------------- MODULE Spi ---------------------------------
(***************************************************************************)
(* An access to a register of the MAX3421E: MAXreg_wr, MAXreg_rd,          *)
(* MAXbytes_wr and MAXbytes_rd, each one call of alt_avalon_spi_command,   *)
(* which pushes bytes through the SPI core one at a time while the core    *)
(* exchanges bytes with the chip at its own pace.  The first byte a        *)
(* selected chip gets is a command: a register's address, plus 2 to write. *)
(* The core and the chip are hardware outside this repository, modelled    *)
(* from what the code writes to them and reads from them.                  *)
(***************************************************************************)
EXTENDS Integers, Sequences

CONSTANTS
  Data,         \* bound: the bytes written to a plain register or read from nothing
  Setups,       \* bound: what is written to the SUDFIFO
  Packets,      \* bound: what the chip receives into the RCVFIFO
  MaxBytes      \* bound: the bytes one access reads

Byte == 0 .. 255
NoByte == 256

ASSUME SpiAssumption == /\ Data \subseteq Byte
                        /\ Setups \subseteq Seq(Byte) /\ Packets \subseteq Seq(Byte)
                        /\ MaxBytes \in Nat

\* The addresses of registers: the two FIFOs, the requests, and a plain one.
rRCVFIFO == 8
rSUDFIFO == 32
rHIRQ == 200
rPERADDR == 224

VARIABLES
  pc,
  call,         \* the access under way, or the last one: [reg, data] or [reg, n]
  written, write_zeros, read_ignore, credits, read, status,    \* locals of the command
  SSO, hold, shift, rxdata, rrdy, toe, roe,    \* the core: TXDATA, the byte on the wire, RXDATA
  command,      \* the command byte the chip has got
  regs, rcv, sud
locals == <<written, write_zeros, read_ignore, credits, read>>
core == <<hold, shift, rxdata, rrdy, toe, roe>>
chip == <<command, regs, rcv, sud>>
vars == <<pc, call, locals, status, SSO, core, chip>>
----------------------------------------------------------------------------
(* The accesses *)

\* MAXreg_wr and MAXbytes_wr; MAXreg_rd and MAXbytes_rd.
Writes == [reg : {rHIRQ, rPERADDR}, data : {<<b>> : b \in Data}]
          \union [reg : {rSUDFIFO}, data : Setups]
Reads == [reg : {rHIRQ, rPERADDR}, n : {1}] \union [reg : {rRCVFIFO}, n : 0 .. MaxBytes]

NoCall == [reg |-> 0, n |-> 0]      \* before the first one

IsWrite(c) == "data" \in DOMAIN c

\* Mutant: a write is commanded as a read.
ReadCommand(c) == c.reg
CommandByte(c) == IF IsWrite(c) THEN c.reg + 2 ELSE c.reg

toSend(c) == <<CommandByte(c)>> \o (IF IsWrite(c) THEN c.data ELSE <<>>)
write_length(c) == Len(toSend(c))
read_length(c) == IF IsWrite(c) THEN 0 ELSE c.n
----------------------------------------------------------------------------
(* alt_avalon_spi_command *)

\* Mutant: a stale byte is not discarded.
KeepStale == UNCHANGED rrdy

StartCredits == 1
Discard == rrdy' = FALSE

\* The chip is selected and what RXDATA may still hold is discarded.
Start ==
  /\ pc = "idle"
  /\ call' \in Writes \union Reads
  /\ call'.reg = rSUDFIFO => sud = <<>>
  /\ written' = 0 /\ write_zeros' = read_length(call') /\ read_ignore' = write_length(call')
  /\ credits' = StartCredits /\ read' = <<>> /\ status' = {}
  /\ SSO' = TRUE
  /\ Discard
  /\ pc' = "poll"
  /\ UNCHANGED <<hold, shift, rxdata, toe, roe, chip>>

Status == (IF hold = NoByte THEN {"TRDY"} ELSE {})
          \union (IF rrdy THEN {"RRDY"} ELSE {})
          \union (IF hold = NoByte /\ shift = NoByte THEN {"TMT"} ELSE {})

\* There is a byte to fetch, or room for one and leave to send it.
Poll ==
  /\ pc = "poll"
  /\ "RRDY" \in Status \/ ("TRDY" \in Status /\ credits # 0)
  /\ status' = Status
  /\ pc' = "send"
  /\ UNCHANGED <<call, locals, SSO, core, chip>>

Transmit(b) == hold' = b /\ toe' = (toe \/ hold # NoByte)

Send ==
  /\ pc = "send"
  /\ pc' = "fetch"
  /\ IF "TRDY" \notin status \/ credits <= 0
     THEN UNCHANGED <<written, write_zeros, credits, hold, toe>>
     ELSE IF written < write_length(call)
     THEN /\ Transmit(toSend(call)[written + 1])
          /\ written' = written + 1 /\ credits' = credits - 1
          /\ UNCHANGED write_zeros
     ELSE IF write_zeros > 0
     THEN /\ Transmit(0)
          /\ write_zeros' = write_zeros - 1 /\ credits' = credits - 1
          /\ UNCHANGED written
     ELSE /\ credits' = -1024
          /\ UNCHANGED <<written, write_zeros, hold, toe>>
  /\ UNCHANGED <<call, read_ignore, read, status, SSO, shift, rxdata, rrdy, roe, chip>>

\* Mutant: what comes in for the command gives no leave to send.
CreditForData == credits + (IF read_ignore > 0 THEN 0 ELSE 1)
Credit == credits + 1

Ends(ignore, got) == ignore = 0 /\ Len(got) = read_length(call)

\* A byte is fetched; those that come in while the command and the data go out mean nothing.
Fetch ==
  /\ pc = "fetch"
  /\ IF "RRDY" \notin status
     THEN pc' = "poll" /\ UNCHANGED <<read_ignore, read, credits, rrdy>>
     ELSE /\ rrdy' = FALSE
          /\ read_ignore' = IF read_ignore > 0 THEN read_ignore - 1 ELSE 0
          /\ read' = IF read_ignore > 0 THEN read ELSE Append(read, rxdata)
          /\ credits' = Credit
          /\ pc' = IF Ends(read_ignore', read') THEN "drain" ELSE "poll"
  /\ status' = {}
  /\ UNCHANGED <<call, written, write_zeros, SSO, hold, shift, rxdata, toe, roe, chip>>

\* A chip that is no longer selected takes the next byte for a command.
Deselect == SSO' = FALSE /\ command' = NoByte

\* When the last byte has gone out the chip is released and the call returns.
Drain ==
  /\ pc = "drain"
  /\ "TMT" \in Status
  /\ Deselect
  /\ written' = 0 /\ write_zeros' = 0 /\ read_ignore' = 0 /\ credits' = 0
  /\ pc' = "idle"
  /\ UNCHANGED <<call, read, status, core, regs, rcv, sud>>
----------------------------------------------------------------------------
(* The hardware *)

\* The bytes of the call that the core was given, and those of them that the chip has got.
InHold == IF hold = NoByte THEN 0 ELSE 1
InShift == IF shift = NoByte THEN 0 ELSE 1
Sent == written + read_length(call) - write_zeros
Exchanged == Sent - InHold - InShift

\* The command is not one of the bytes of the access; what the call has read, with the byte
\* it has not fetched yet.
done == IF command = NoByte THEN 0 ELSE Exchanged - 1
got == IF pc # "idle" /\ rrdy /\ read_ignore = 0 THEN Append(read, rxdata) ELSE read

Port == INSTANCE RegisterPort WITH Garbage <- Data, busy <- pc # "idle", read <- got

Load ==
  /\ hold # NoByte /\ shift = NoByte
  /\ shift' = hold /\ hold' = NoByte
  /\ UNCHANGED <<pc, call, locals, status, SSO, rxdata, rrdy, toe, roe, chip>>

\* Without a chip that is selected nobody answers.
Nobody == rxdata' \in Data /\ UNCHANGED chip

\* The chip tells its requests while it gets a command.
Command == /\ command' = shift
           /\ rxdata' = regs[rHIRQ]
           /\ UNCHANGED <<regs, rcv, sud>>

\* It then takes each byte, or gives one for it.
Writing == /\ (command \div 2) % 2 = 1
           /\ Port!Put(command - 2, shift)
           /\ rxdata' \in Data
           /\ UNCHANGED command
Reading == /\ (command \div 2) % 2 = 0
           /\ Port!Get(command, rxdata')
           /\ UNCHANGED command

\* A byte has gone out and another one has come in.
Exchange ==
  /\ shift # NoByte
  /\ IF ~SSO THEN Nobody ELSE IF command = NoByte THEN Command ELSE Writing \/ Reading
  /\ shift' = NoByte
  /\ rrdy' = TRUE /\ roe' = (roe \/ rrdy)
  /\ UNCHANGED <<pc, call, locals, status, SSO, hold, toe>>

Request == /\ regs' = [regs EXCEPT ![rHIRQ] = 1]
           /\ UNCHANGED <<pc, call, locals, status, SSO, core, command, rcv, sud>>

Packet == /\ rcv = <<>>
          /\ rcv' \in Packets
          /\ UNCHANGED <<pc, call, locals, status, SSO, core, command, regs, sud>>

Setup == /\ pc = "idle"
         /\ sud' = <<>>
         /\ UNCHANGED <<pc, call, locals, status, SSO, core, command, regs, rcv>>
----------------------------------------------------------------------------
\* RXDATA may hold a byte from before the program was started.
Init ==
  /\ pc = "idle" /\ call = NoCall
  /\ written = 0 /\ write_zeros = 0 /\ read_ignore = 0 /\ credits = 0 /\ read = <<>> /\ status = {}
  /\ SSO = FALSE /\ hold = NoByte /\ shift = NoByte /\ toe = FALSE /\ roe = FALSE
  /\ rrdy \in BOOLEAN /\ rxdata \in Data
  /\ command = NoByte /\ regs = [r \in {rHIRQ, rPERADDR} |-> 0] /\ rcv = <<>> /\ sud = <<>>

Driver == Poll \/ Send \/ Fetch \/ Drain
Hardware == Load \/ Exchange
Next == Start \/ Driver \/ Hardware \/ Request \/ Packet \/ Setup

\* The processor runs a call to its end, and the core exchanges what it is given.
Spec == Init /\ [][Next]_vars /\ WF_vars(Driver) /\ WF_vars(Hardware)
----------------------------------------------------------------------------
(* Properties *)

TypeOK ==
  /\ pc \in {"idle", "poll", "send", "fetch", "drain"}
  /\ call \in Writes \union Reads \union {NoCall}
  /\ written \in 0 .. write_length(call) /\ write_zeros \in 0 .. read_length(call)
  /\ read_ignore \in 0 .. write_length(call) /\ credits \in {0, 1}
  /\ read \in Seq(Byte) /\ status \subseteq {"TRDY", "RRDY", "TMT"}
  /\ SSO \in BOOLEAN /\ rrdy \in BOOLEAN /\ toe \in BOOLEAN /\ roe \in BOOLEAN
  /\ hold \in Byte \union {NoByte} /\ shift \in Byte \union {NoByte}
  /\ command \in Byte \union {NoByte} /\ rxdata \in Byte
  /\ regs \in [{rHIRQ, rPERADDR} -> Byte] /\ regs[rHIRQ] \in {0, 1}
  /\ rcv \in Seq(Byte) /\ sud \in Seq(Byte)

\* No byte is written over one that still has to go out, and none comes in over one that
\* has not been fetched.
NoOverrun == ~toe /\ ~roe

\* When a call returns the wire is still, nothing is left to fetch, and the chip takes the next
\* byte for a command.
Quiet == pc = "idle" => /\ hold = NoByte /\ shift = NoByte /\ command = NoByte /\ ~SSO
                        /\ (call # NoCall => ~rrdy)

\* The rest of the program may take an access as RegisterPort describes it: every byte is
\* written to the register meant or read from it, once and in order.
PortSpec == Port!Spec

\* Every access comes to an end.
AccessEnds == pc # "idle" ~> pc = "idle"
=============================================================================
