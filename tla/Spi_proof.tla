----------------------------- MODULE Spi_proof ------------------------------
(***************************************************************************)
(* Proofs about the SPI command: no byte is overrun, the wire is quiet     *)
(* when a call returns, every access is one of RegisterPort, and each of   *)
(* its steps brings its end nearer.  All of it rests on one count: a       *)
(* single token, the credit, the byte to send, the byte on the wire or the *)
(* byte to fetch, goes round.                                              *)
(***************************************************************************)
EXTENDS Spi, TLAPS

InRx == IF rrdy THEN 1 ELSE 0

\* The bytes of the call for which the answer was fetched.
Got == write_length(call) - read_ignore + Len(read)
Total == write_length(call) + read_length(call)
Wire(k) == IF k <= write_length(call) THEN toSend(call)[k] ELSE 0

Idle ==
  pc = "idle" => /\ hold = NoByte /\ shift = NoByte /\ command = NoByte /\ ~SSO
                 /\ status = {} /\ written = 0 /\ write_zeros = 0
                 /\ (call # NoCall => ~rrdy)

OneToken == pc # "idle" => credits + InHold + InShift + InRx = 1
Counted == pc # "idle" => /\ Sent = Got + InHold + InShift + InRx
                          /\ Len(read) <= read_length(call)
                          /\ write_zeros < read_length(call) => written = write_length(call)
                          /\ read_ignore > 0 => read = <<>>
                          /\ Got <= Total
Commanded == pc # "idle" => /\ SSO /\ call # NoCall
                            /\ command = IF Exchanged = 0 THEN NoByte ELSE CommandByte(call)
Carried == pc # "idle" => /\ hold # NoByte => hold = Wire(Sent)
                          /\ shift # NoByte => shift = Wire(Sent)
Progress ==
  /\ pc \in {"poll", "send", "fetch"} => Got < Total
  /\ pc = "drain" => Got = Total
  /\ pc \in {"poll", "drain"} => status = {}
  /\ pc = "send" /\ "TRDY" \in status => hold = NoByte
  /\ pc \in {"send", "fetch"} /\ "RRDY" \in status => rrdy

Inv == TypeOK /\ NoOverrun /\ Idle /\ OneToken /\ Counted /\ Commanded /\ Carried /\ Progress
-----------------------------------------------------------------------------
\* What a call asks for: at least a command goes out, and nothing is written by a call
\* that reads.
LEMMA Accesses ==
  ASSUME SpiAssumption, NEW c, c \in Writes \union Reads \union {NoCall}
  PROVE  /\ write_length(c) \in Nat /\ read_length(c) \in Nat /\ write_length(c) >= 1
         /\ c.reg \in {0, rRCVFIFO, rSUDFIFO, rHIRQ, rPERADDR}
         /\ CommandByte(c) \in Byte
         /\ toSend(c) \in Seq(Byte) /\ toSend(c)[1] = CommandByte(c)
         /\ IsWrite(c) => /\ c \in Writes
                       /\ read_length(c) = 0 /\ write_length(c) = Len(c.data) + 1
                       /\ c.data \in Seq(Byte)
                       /\ \A k \in 1 .. Len(c.data) : toSend(c)[k + 1] = c.data[k]
         /\ ~IsWrite(c) => write_length(c) = 1 /\ read_length(c) = c.n /\ c \notin Writes
<1> USE DEF rRCVFIFO, rSUDFIFO, rHIRQ, rPERADDR
<1>1. CASE c \in Writes
  <2>1. IsWrite(c) /\ c.data \in Seq(Byte) /\ c.reg \in {rSUDFIFO, rHIRQ, rPERADDR}
    <3>1. CASE c \in [reg : {rHIRQ, rPERADDR}, data : {<<b>> : b \in Data}]
      <4>1. c.data \in {<<b>> : b \in Data} /\ c.reg \in {rHIRQ, rPERADDR}
        BY <3>1
      <4>2. PICK b \in Data : c.data = <<b>>
        BY <4>1
      <4>3. b \in Byte
        BY <4>2 DEF SpiAssumption
      <4>4. DOMAIN c = {"reg", "data"}
        BY <3>1
      <4> QED BY <4>1, <4>2, <4>3, <4>4 DEF IsWrite
    <3>2. CASE c \in [reg : {rSUDFIFO}, data : Setups]
      <4>1. c.data \in Setups /\ c.reg = rSUDFIFO
        BY <3>2
      <4>2. DOMAIN c = {"reg", "data"}
        BY <3>2
      <4> QED BY <4>1, <4>2 DEF IsWrite, SpiAssumption
    <3> QED BY <1>1, <3>1, <3>2 DEF Writes
  <2>2. CommandByte(c) \in Byte
    <3>1. CommandByte(c) = c.reg + 2
      BY <2>1 DEF CommandByte
    <3>2. c.reg \in {32, 200, 224}
      BY <2>1
    <3>3. c.reg \in Int /\ 0 <= c.reg /\ c.reg <= 224
      BY <3>2
    <3>4. c.reg + 2 \in 0 .. 255
      <4> HIDE DEF rRCVFIFO, rSUDFIFO, rHIRQ, rPERADDR
      <4> DEFINE r == c.reg
      <4>1. r \in Int /\ 0 <= r /\ r <= 224
        BY <3>3
      <4> HIDE DEF r
      <4>2. r + 2 \in 0 .. 255
        BY <4>1
      <4> QED BY <4>2 DEF r
    <3> QED BY <3>1, <3>4 DEF Byte
  <2>3. toSend(c) = <<CommandByte(c)>> \o c.data
    BY <2>1 DEF toSend
  <2> QED BY <1>1, <2>1, <2>2, <2>3 DEF write_length, read_length
<1>2. CASE c \in Reads \union {NoCall}
  <2>1. ~IsWrite(c) /\ c.n \in Nat /\ c.reg \in {0, rRCVFIFO, rHIRQ, rPERADDR}
    <3>1. CASE c \in [reg : {rHIRQ, rPERADDR}, n : {1}]
      BY <3>1 DEF IsWrite
    <3>2. CASE c \in [reg : {rRCVFIFO}, n : 0 .. MaxBytes]
      BY <3>2 DEF IsWrite, SpiAssumption
    <3>3. CASE c = NoCall
      BY <3>3 DEF IsWrite, NoCall
    <3> QED BY <1>2, <3>1, <3>2, <3>3 DEF Reads
  <2>2. CommandByte(c) \in Byte
    <3>1. CommandByte(c) = c.reg
      BY <2>1 DEF CommandByte
    <3> QED BY <2>1, <3>1 DEF Byte
  <2>3. toSend(c) = <<CommandByte(c)>>
    BY <2>1, <2>2 DEF toSend
  <2>4. c \notin Writes
    BY <2>1 DEF IsWrite, Writes
  <2> QED BY <2>1, <2>2, <2>3, <2>4 DEF write_length, read_length
<1> QED BY <1>1, <1>2
-----------------------------------------------------------------------------
\* The initial states satisfy the invariant.
LEMMA InitInv == SpiAssumption /\ Init => Inv
<1> SUFFICES ASSUME SpiAssumption, Init PROVE Inv
  OBVIOUS
<1>1. call = NoCall /\ call \in Writes \union Reads \union {NoCall}
  BY DEF Init
<1>2. write_length(call) \in Nat /\ read_length(call) \in Nat
  BY <1>1, Accesses
<1>3. TypeOK
  <2>1. read \in Seq(Byte) /\ rcv \in Seq(Byte) /\ sud \in Seq(Byte)
    BY DEF Init
  <2>2. rxdata \in Byte
    BY DEF Init, SpiAssumption
  <2>3. regs \in [{rHIRQ, rPERADDR} -> Byte] /\ regs[rHIRQ] \in {0, 1}
    BY DEF Init, Byte, rHIRQ, rPERADDR
  <2>4. written \in 0 .. write_length(call) /\ write_zeros \in 0 .. read_length(call)
        /\ read_ignore \in 0 .. write_length(call) /\ credits \in {0, 1}
    BY <1>2 DEF Init
  <2> QED BY <1>1, <2>1, <2>2, <2>3, <2>4 DEF Init, TypeOK
<1> QED BY <1>3 DEF Init, Inv, NoOverrun, Idle, OneToken, Counted, Commanded, Carried, Progress

\* A call begins with the credit.
LEMMA StartInv ==
  ASSUME SpiAssumption, Inv, Start
  PROVE  Inv'
<1>1. call' \in Writes \union Reads
  BY DEF Start
<1>2. /\ write_length(call') \in Nat /\ read_length(call') \in Nat /\ write_length(call') >= 1
  BY <1>1, Accesses
<1>3. call' # NoCall
  <2>1. NoCall \notin Writes
    BY DEF NoCall, Writes, rHIRQ, rPERADDR, rSUDFIFO
  <2>2. NoCall \notin Reads
    BY DEF NoCall, Reads, rHIRQ, rPERADDR, rRCVFIFO
  <2> QED BY <1>1, <2>1, <2>2
<1>4. TypeOK'
  <2>1. call' \in Writes \union Reads \union {NoCall}
    BY <1>1
  <2>2. written' \in 0 .. write_length(call') /\ write_zeros' \in 0 .. read_length(call')
        /\ read_ignore' \in 0 .. write_length(call') /\ credits' \in {0, 1}
    BY <1>2 DEF Start, StartCredits
  <2>3. read' \in Seq(Byte) /\ status' = {}
    BY DEF Start
  <2> QED BY <2>1, <2>2, <2>3 DEF Start, Discard, chip, Inv, TypeOK
<1>5. hold' = NoByte /\ shift' = NoByte /\ ~rrdy' /\ command' = NoByte
  BY DEF Start, Discard, chip, Inv, Idle
<1> QED BY <1>2, <1>3, <1>4, <1>5
        DEF Start, StartCredits, Inv, NoOverrun, Idle, OneToken, Counted, Commanded, Carried, Progress,
            Sent, Exchanged, Got, Total, InHold, InShift, InRx

\* The bits of a command say in which direction it goes.
LEMMA Direction ==
  ASSUME SpiAssumption, NEW c \in Writes \union Reads
  PROVE  /\ IsWrite(c) => /\ c.reg \in {rSUDFIFO, rHIRQ, rPERADDR}
                          /\ CommandByte(c) = c.reg + 2 /\ CommandByte(c) - 2 = c.reg
                          /\ (CommandByte(c) \div 2) % 2 = 1
         /\ ~IsWrite(c) => /\ c.reg \in {rRCVFIFO, rHIRQ, rPERADDR}
                           /\ CommandByte(c) = c.reg
                           /\ (CommandByte(c) \div 2) % 2 = 0
<1> USE DEF rRCVFIFO, rSUDFIFO, rHIRQ, rPERADDR
<1>1. CASE IsWrite(c)
  <2>1. c \in Writes
    BY <1>1, Accesses
  <2>2. c.reg = 32 \/ c.reg = 200 \/ c.reg = 224
    BY <2>1 DEF Writes
  <2>3. CommandByte(c) = c.reg + 2
    BY <1>1 DEF CommandByte
  <2> QED BY <1>1, <2>2, <2>3
<1>2. CASE ~IsWrite(c)
  <2>1. c \in Reads
    BY <1>2, Accesses
  <2>2. c.reg = 8 \/ c.reg = 200 \/ c.reg = 224
    BY <2>1 DEF Reads
  <2>3. CommandByte(c) = c.reg
    BY <1>2 DEF CommandByte
  <2> QED BY <1>2, <2>2, <2>3
<1> QED BY <1>1, <1>2

\* The lengths of the call under way.
LEMMA Lengths ==
  ASSUME SpiAssumption, TypeOK
  PROVE  /\ write_length(call) \in Nat /\ read_length(call) \in Nat /\ write_length(call) >= 1
         /\ toSend(call) \in Seq(Byte) /\ write_length(call) = Len(toSend(call))
         /\ toSend(call)[1] = CommandByte(call) /\ CommandByte(call) \in Byte
         /\ Len(read) \in Nat /\ (read = <<>> => Len(read) = 0)
BY Accesses DEF TypeOK, write_length

\* The counts are numbers.
LEMMA Counts ==
  ASSUME SpiAssumption, TypeOK
  PROVE  /\ Sent \in Int /\ Got \in Int /\ Total \in Int /\ Exchanged \in Int
         /\ Got >= 0 /\ Sent <= Total
         /\ InHold \in {0, 1} /\ InShift \in {0, 1} /\ InRx \in {0, 1}
         /\ credits \in {0, 1}
<1>1. /\ write_length(call) \in Nat /\ read_length(call) \in Nat /\ Len(read) \in Nat
  BY Lengths
<1>2. /\ written \in Nat /\ write_zeros \in Nat /\ read_ignore \in Nat
      /\ written <= write_length(call) /\ read_ignore <= write_length(call)
      /\ credits \in {0, 1}
  BY <1>1 DEF TypeOK
<1> QED BY <1>1, <1>2, SMTT(30) DEF Sent, Got, Total, Exchanged, InHold, InShift, InRx

\* No byte is the absent one.
LEMMA NoByteApart == \A b \in Byte : b # NoByte
BY DEF Byte, NoByte

\* A look at the status preserves the invariant.
LEMMA PollInv ==
  ASSUME SpiAssumption, Inv, Poll
  PROVE  Inv'
<1>1. TypeOK'
  BY DEF Poll, Status, locals, core, chip, Inv, TypeOK
<1> QED BY <1>1 DEF Poll, Status, locals, core, chip, Inv, NoOverrun, Idle, OneToken, Counted,
                    Commanded, Carried, Progress, Sent, Exchanged, Got, Total, InHold, InShift,
                    InRx, Wire

\* A byte put into TXDATA takes the credit.
LEMMA SendInv ==
  ASSUME SpiAssumption, Inv, Send
  PROVE  /\ Inv' /\ Exchanged' = Exchanged
         /\ "TRDY" \in status /\ ~(credits <= 0) =>
              hold = NoByte /\ hold' # NoByte /\ Sent' = Sent + 1
<1> DEFINE W == write_length(call)
           R == read_length(call)
<1>1. /\ W \in Nat /\ R \in Nat /\ W >= 1 /\ toSend(call) \in Seq(Byte)
      /\ W = Len(toSend(call)) /\ Len(read) \in Nat
  BY Lengths DEF Inv
<1>2. call' = call /\ pc = "send" /\ pc' = "fetch"
  BY DEF Send
<1>3. CASE "TRDY" \notin status \/ credits <= 0
  <2>1. UNCHANGED <<call, locals, status, SSO, core, chip>>
    BY <1>3 DEF Send, locals, core
  <2>2. TypeOK'
    BY <1>2, <2>1 DEF locals, core, chip, Inv, TypeOK
  <2> QED BY <1>2, <1>3, <2>1, <2>2
          DEF locals, core, chip, Inv, NoOverrun, Idle, OneToken, Counted, Commanded, Carried,
              Progress, Sent, Exchanged, Got, Total, InHold, InShift, InRx, Wire
<1>4. CASE "TRDY" \in status /\ ~(credits <= 0)
  <2>1. credits = 1 /\ hold = NoByte /\ shift = NoByte /\ ~rrdy
    BY <1>2, <1>4 DEF Inv, TypeOK, OneToken, Progress, InHold, InShift, InRx
  <2>2. /\ written \in Nat /\ write_zeros \in Nat /\ read_ignore \in Nat
        /\ written <= W /\ write_zeros <= R
    BY <1>1 DEF Inv, TypeOK
  <2>3. /\ Sent = Got /\ Got < Total
        /\ write_zeros < R => written = W
    BY <1>1, <1>2, <2>1, <2>2 DEF Inv, Counted, Progress, InHold, InShift, InRx, Sent, Got, Total
  <2>4. \E b \in Byte :
          /\ hold' = b /\ b = Wire(Sent + 1)
          /\ written' \in 0 .. W /\ write_zeros' \in 0 .. R
          /\ Sent' = Sent + 1 /\ credits' = 0 /\ ~toe'
          /\ write_zeros' < R => written' = W
    <3>1. CASE written < W
      <4>1. toSend(call)[written + 1] \in Byte
        BY <1>1, <2>2, <3>1
      <4>2. Sent = written
        BY <1>1, <2>2, <2>3, <3>1 DEF Sent
      <4>3. /\ hold' = toSend(call)[written + 1] /\ ~toe'
            /\ written' = written + 1 /\ credits' = credits - 1 /\ write_zeros' = write_zeros
        BY <1>4, <2>1, <3>1 DEF Send, Transmit, Inv, NoOverrun
      <4>4. toSend(call)[written + 1] = Wire(Sent + 1)
        BY <1>1, <2>2, <3>1, <4>2 DEF Wire
      <4>5. Sent' = Sent + 1
        BY <1>1, <1>2, <2>2, <4>3 DEF Sent
      <4>6. write_zeros' = R
        BY <1>1, <2>2, <2>3, <3>1, <4>3
      <4> QED BY <1>1, <2>1, <2>2, <3>1, <4>1, <4>3, <4>4, <4>5, <4>6
    <3>2. CASE ~(written < W) /\ write_zeros > 0
      <4>1. /\ hold' = 0 /\ ~toe'
            /\ written' = written /\ credits' = credits - 1 /\ write_zeros' = write_zeros - 1
        BY <1>4, <2>1, <3>2 DEF Send, Transmit, Inv, NoOverrun
      <4>2. written = W
        BY <1>1, <2>2, <3>2
      <4>3. Sent + 1 > W /\ Sent \in Int
        BY <1>1, <2>2, <4>2 DEF Sent
      <4>4. Wire(Sent + 1) = 0
        BY <1>1, <4>3 DEF Wire
      <4>5. Sent' = Sent + 1
        BY <1>1, <1>2, <2>2, <4>1 DEF Sent
      <4>6. 0 \in Byte
        BY DEF Byte
      <4> QED BY <1>1, <2>1, <2>2, <3>2, <4>1, <4>2, <4>4, <4>5, <4>6
    <3>3. CASE ~(written < W) /\ ~(write_zeros > 0)
      BY <1>1, <2>2, <2>3, <3>3 DEF Sent, Total
    <3> QED BY <3>1, <3>2, <3>3
  <2>5. PICK b \in Byte :
          /\ hold' = b /\ b = Wire(Sent + 1)
          /\ written' \in 0 .. W /\ write_zeros' \in 0 .. R
          /\ Sent' = Sent + 1 /\ credits' = 0 /\ ~toe'
          /\ write_zeros' < R => written' = W
    BY <2>4
  <2>6. hold' # NoByte
    BY <2>5, NoByteApart
  <2>7. UNCHANGED <<call, read_ignore, read, status, SSO, shift, rxdata, rrdy, roe, chip>>
    BY DEF Send
  <2>8. TypeOK'
    <3>1. toe' \in BOOLEAN
      BY <1>4, <2>1, <2>5 DEF Send, Transmit, Inv, TypeOK
    <3> QED BY <1>2, <2>5, <2>7, <3>1 DEF chip, Inv, TypeOK
  <2>9. Sent \in Int /\ Sent' \in Int /\ Got \in Int /\ Total \in Int
    BY <1>1, <2>2, <2>5, SMTT(30) DEF Sent, Got, Total
  <2>10. Got' = Got /\ Total' = Total
    BY <1>2, <2>7 DEF Got, Total
  <2>11. Exchanged' = Exchanged
    BY <2>1, <2>5, <2>6, <2>7, <2>9 DEF Exchanged, InHold, InShift
  <2>12. Wire(Sent)' = Wire(Sent + 1)
    BY <1>2, <2>5 DEF Wire
  <2>13. InHold' = 1 /\ InShift' = 0 /\ InRx' = 0
    BY <2>1, <2>6, <2>7 DEF InHold, InShift, InRx
  <2>14. Counted'
    BY <1>2, <2>3, <2>5, <2>7, <2>9, <2>10, <2>13 DEF Counted, Inv
  <2>15. Commanded'
    BY <1>2, <2>7, <2>11 DEF Commanded, Inv, chip
  <2>16. Carried'
    BY <2>1, <2>5, <2>7, <2>12 DEF Carried
  <2>17. OneToken'
    BY <2>5, <2>13 DEF OneToken
  <2>18. Progress'
    BY <1>2, <2>3, <2>7, <2>10, <2>1 DEF Progress, Inv
  <2>19. Inv'
    BY <1>2, <2>5, <2>7, <2>8, <2>14, <2>15, <2>16, <2>17, <2>18 DEF Inv, NoOverrun, Idle
  <2> QED BY <2>1, <2>5, <2>6, <2>11, <2>19
<1> QED BY <1>3, <1>4

\* A byte fetched gives it back.
LEMMA FetchInv ==
  ASSUME SpiAssumption, Inv, Fetch
  PROVE  Inv'
<1> DEFINE W == write_length(call)
           R == read_length(call)
<1>1. /\ W \in Nat /\ R \in Nat /\ W >= 1 /\ Len(read) \in Nat /\ (read = <<>> => Len(read) = 0)
  BY Lengths DEF Inv
<1>2. /\ UNCHANGED <<call, written, write_zeros, SSO, hold, shift, rxdata, toe, roe, chip>>
      /\ pc = "fetch" /\ status' = {}
  BY DEF Fetch
<1>3. /\ written \in Nat /\ write_zeros \in Nat /\ read_ignore \in Nat
      /\ read_ignore <= W
  BY <1>1 DEF Inv, TypeOK
<1>4. UNCHANGED <<Sent, Exchanged, InHold, InShift, Total>>
  BY <1>2 DEF Sent, Exchanged, InHold, InShift, Total
<1>5. CASE "RRDY" \notin status
  <2>1. pc' = "poll" /\ UNCHANGED <<read_ignore, read, credits, rrdy>>
    BY <1>5 DEF Fetch
  <2>2. TypeOK'
    BY <1>2, <2>1 DEF chip, Inv, TypeOK
  <2> QED BY <1>2, <1>4, <2>1, <2>2
          DEF chip, Inv, NoOverrun, Idle, OneToken, Counted, Commanded, Carried, Progress, Got, InRx,
              Wire
<1>6. CASE "RRDY" \in status
  <2>1. rrdy /\ credits = 0 /\ hold = NoByte /\ shift = NoByte
    BY <1>2, <1>6 DEF Inv, TypeOK, OneToken, Progress, InHold, InShift, InRx
  <2>2. /\ rrdy' = FALSE
        /\ read_ignore' = (IF read_ignore > 0 THEN read_ignore - 1 ELSE 0)
        /\ read' = (IF read_ignore > 0 THEN read ELSE Append(read, rxdata))
        /\ credits' = 1
        /\ pc' = IF Ends(read_ignore', read') THEN "drain" ELSE "poll"
    BY <1>2, <1>6, <2>1 DEF Fetch, Credit, Ends
  <2>3. /\ Got < Total /\ Sent = Got + 1 /\ Len(read) <= R
        /\ write_zeros < R => written = W
        /\ read_ignore > 0 => read = <<>>
    <3>1. InHold = 0 /\ InShift = 0 /\ InRx = 1
      BY <2>1 DEF InHold, InShift, InRx
    <3> QED BY <1>2, <3>1, Counts DEF Inv, Progress, Counted
  <2>4. /\ read' \in Seq(Byte)
        /\ Len(read') = IF read_ignore > 0 THEN Len(read) ELSE Len(read) + 1
    BY <2>2 DEF Inv, TypeOK
  <2>5. Got \in Int /\ Total \in Int /\ Got' = Got + 1
    BY <1>1, <1>2, <1>3, <2>2, <2>4 DEF Got, Total
  <2>6. Len(read') \in Nat /\ Len(read') <= R /\ (read_ignore' > 0 => read' = <<>>)
        /\ (read_ignore' > 0 => Len(read') = 0)
    BY <1>1, <1>3, <2>2, <2>3, <2>4 DEF Got, Total
  <2>7. read_ignore' \in 0 .. W
    BY <1>1, <1>3, <2>2
  <2>8. TypeOK'
    <3>1. pc' \in {"poll", "drain"}
      BY <2>2
    <3>2. read_ignore' \in 0 .. write_length(call')
      BY <1>2, <2>7
    <3> QED BY <1>2, <2>2, <2>4, <3>1, <3>2 DEF chip, Inv, TypeOK
  <2>9. pc' \in {"poll", "drain"} /\ (pc' = "drain" <=> read_ignore' = 0 /\ Len(read') = R)
    BY <1>2, <2>2 DEF Ends
  <2>10. pc' = "poll" => Got' < Total'
    <3>1. Got' = W - read_ignore' + Len(read')
      BY <1>2 DEF Got
    <3> QED BY <1>1, <1>2, <1>4, <2>6, <2>7, <2>9, <3>1 DEF Total
  <2>11. pc' = "drain" => Got' = Total'
    <3>1. Got' = W - read_ignore' + Len(read')
      BY <1>2 DEF Got
    <3> QED BY <1>1, <1>2, <1>4, <2>6, <2>7, <2>9, <3>1 DEF Total
  <2>12. Progress'
    BY <1>2, <2>9, <2>10, <2>11 DEF Progress
  <2>13. InRx' = 0 /\ InHold' = 0 /\ InShift' = 0
    BY <1>2, <2>1, <2>2 DEF InRx, InHold, InShift
  <2>14. Counted'
    BY <1>2, <1>4, <2>3, <2>5, <2>6, <2>13 DEF Counted
  <2>15. OneToken'
    BY <2>2, <2>13 DEF OneToken
  <2>16. Commanded' /\ Carried' /\ Idle' /\ NoOverrun'
    BY <1>2, <1>4, <2>1, <2>9 DEF Commanded, Carried, Idle, NoOverrun, Inv, chip
  <2> QED BY <2>8, <2>12, <2>14, <2>15, <2>16 DEF Inv
<1> QED BY <1>5, <1>6

\* What holds when the last answer has been fetched: nothing is under way.
LEMMA DrainInv ==
  ASSUME SpiAssumption, Inv, Drain
  PROVE  /\ Inv'
         /\ Exchanged = Total /\ ~rrdy
<1> DEFINE W == write_length(call)
           R == read_length(call)
<1>1. /\ W \in Nat /\ R \in Nat /\ W >= 1 /\ Len(read) \in Nat
  BY Lengths DEF Inv
<1>2. /\ written \in Nat /\ write_zeros \in Nat /\ read_ignore \in Nat
      /\ read_ignore <= W /\ written <= W
  BY <1>1 DEF Inv, TypeOK
<1>3. pc = "drain" /\ status = {} /\ hold = NoByte /\ shift = NoByte
  BY DEF Drain, Status, Inv, Progress
<1>4. Sent = Got + InRx /\ Got = Total
  <2>1. InHold = 0 /\ InShift = 0
    BY <1>3 DEF InHold, InShift
  <2> QED BY <1>3, <2>1, Counts DEF Inv, Counted, Progress
<1>5. ~rrdy
  BY <1>1, <1>2, <1>4 DEF Sent, Total, InRx
<1>6. Exchanged = Total
  BY <1>1, <1>2, <1>3, <1>4, <1>5 DEF Exchanged, Sent, Total, InHold, InShift, InRx
<1>7. /\ SSO' = FALSE /\ command' = NoByte
      /\ written' = 0 /\ write_zeros' = 0 /\ read_ignore' = 0 /\ credits' = 0
      /\ pc' = "idle"
      /\ UNCHANGED <<call, read, status, core, regs, rcv, sud>>
  BY DEF Drain, Deselect
<1>8. TypeOK'
  <2>1. /\ written' \in 0 .. write_length(call') /\ write_zeros' \in 0 .. read_length(call')
        /\ read_ignore' \in 0 .. write_length(call') /\ credits' \in {0, 1}
    BY <1>1, <1>7
  <2>2. command' \in Byte \union {NoByte} /\ SSO' \in BOOLEAN
    BY <1>7
  <2> QED BY <1>7, <2>1, <2>2 DEF core, Inv, TypeOK
<1> QED BY <1>3, <1>5, <1>6, <1>7, <1>8
        DEF core, Inv, NoOverrun, Idle, OneToken, Counted, Commanded, Carried, Progress

\* The core moves the byte onto the wire.
LEMMA LoadInv ==
  ASSUME SpiAssumption, Inv, Load
  PROVE  Inv' /\ pc # "idle" /\ Exchanged' = Exchanged
<1>1. pc # "idle"
  BY DEF Load, Inv, Idle
<1>2. /\ hold # NoByte /\ shift = NoByte /\ shift' = hold /\ hold' = NoByte
      /\ UNCHANGED <<pc, call, locals, status, SSO, rxdata, rrdy, toe, roe, chip>>
  BY DEF Load
<1>3. TypeOK'
  BY <1>2 DEF locals, chip, Inv, TypeOK
<1>4. InHold = 1 /\ InShift = 0 /\ InHold' = 0 /\ InShift' = 1
  BY <1>2 DEF InHold, InShift
<1>5. UNCHANGED <<Sent, Got, Total, InRx>> /\ \A k : Wire(k)' = Wire(k)
  BY <1>2 DEF locals, Sent, Got, Total, InRx, Wire
<1>6. Sent \in Int
  BY Counts DEF Inv
<1>7. Exchanged' = Exchanged
  BY <1>4, <1>5, <1>6 DEF Exchanged
<1>8. OneToken'
  BY <1>1, <1>2, <1>4, <1>5, Counts DEF locals, Inv, OneToken
<1>9. Counted'
  <2>1. UNCHANGED <<written, write_zeros, read_ignore, read>>
    BY <1>2 DEF locals
  <2> QED BY <1>1, <1>2, <1>4, <1>5, <2>1, Counts DEF Inv, Counted
<1>12. Progress'
  BY <1>1, <1>2, <1>5 DEF Inv, Progress
<1>10. Commanded' /\ Idle' /\ NoOverrun'
  BY <1>1, <1>2, <1>7 DEF locals, chip, Inv, Commanded, Idle, NoOverrun
<1>11. Carried'
  BY <1>1, <1>2, <1>5 DEF Inv, Carried
<1> QED BY <1>1, <1>3, <1>7, <1>8, <1>9, <1>10, <1>11, <1>12 DEF Inv

\* What a byte exchanged with the chip finds: it is the next one of the call.
LEMMA OnTheWire ==
  ASSUME SpiAssumption, Inv, shift # NoByte
  PROVE  /\ pc # "idle" /\ SSO /\ ~rrdy /\ hold = NoByte /\ credits = 0
         /\ call \in Writes \union Reads
         /\ Sent = Got + 1 /\ Exchanged = Got
         /\ shift = Wire(Sent) /\ shift \in Byte
         /\ command = IF Got = 0 THEN NoByte ELSE CommandByte(call)
<1>1. pc # "idle"
  BY DEF Inv, Idle
<1>2. InShift = 1 /\ InHold = 0 /\ InRx = 0
  BY <1>1, Counts DEF Inv, OneToken, InShift
<1>3. ~rrdy /\ hold = NoByte
  BY <1>2 DEF InHold, InRx
<1>4. credits = 0
  BY <1>1, <1>2, Counts DEF Inv, OneToken
<1>5. Sent = Got + 1
  BY <1>1, <1>2, Counts DEF Inv, Counted
<1>6. Exchanged = Got
  BY <1>2, <1>5, Counts DEF Inv, Exchanged
<1>7. call \in Writes \union Reads /\ shift \in Byte
  BY <1>1 DEF Inv, TypeOK, Commanded
<1> QED BY <1>1, <1>3, <1>4, <1>5, <1>6, <1>7 DEF Inv, Carried, Commanded

\* The registers a call can name.
LEMMA Get ==
  ASSUME SpiAssumption, TypeOK, NEW reg \in {rRCVFIFO, rHIRQ, rPERADDR}, Port!Get(reg, rxdata')
  PROVE  /\ rxdata' \in Byte /\ rcv' \in Seq(Byte) /\ regs' = regs /\ sud' = sud
<1>1. CASE reg # rRCVFIFO
  BY <1>1 DEF Port!Get, TypeOK
<1>2. CASE reg = rRCVFIFO /\ rcv = <<>>
  BY <1>2 DEF Port!Get, TypeOK, SpiAssumption
<1>3. CASE reg = rRCVFIFO /\ rcv # <<>>
  <2>1. Head(rcv) \in Byte /\ Tail(rcv) \in Seq(Byte)
    BY <1>3 DEF TypeOK
  <2> QED BY <1>3, <2>1 DEF Port!Get
<1> QED BY <1>1, <1>2, <1>3

\* What a write puts into a register is a byte.
LEMMA Put ==
  ASSUME SpiAssumption, TypeOK, NEW reg \in {rSUDFIFO, rHIRQ, rPERADDR}, NEW b \in Byte,
         Port!Put(reg, b)
  PROVE  /\ sud' \in Seq(Byte) /\ rcv' = rcv
         /\ regs' \in [{rHIRQ, rPERADDR} -> Byte] /\ regs'[rHIRQ] \in {0, 1}
<1>1. sud' \in Seq(Byte) /\ rcv' = rcv
  <2>1. sud \in Seq(Byte) /\ Append(sud, b) \in Seq(Byte)
    BY DEF TypeOK
  <2>2. sud' = sud \/ sud' = Append(sud, b)
    BY DEF Port!Put
  <2>3. rcv' = rcv
    BY DEF Port!Put
  <2> QED BY <2>1, <2>2, <2>3
<1>2. 0 \in Byte
  BY DEF Byte
<1>3. CASE reg = rSUDFIFO
  BY <1>3 DEF Port!Put, TypeOK
<1>4. CASE reg = rHIRQ
  BY <1>2, <1>4 DEF Port!Put, TypeOK, rHIRQ, rSUDFIFO, rPERADDR
<1>5. CASE reg = rPERADDR
  BY <1>5 DEF Port!Put, TypeOK, rHIRQ, rSUDFIFO, rPERADDR
<1> QED BY <1>1, <1>3, <1>4, <1>5

\* Which way a byte goes is what the call asks for.
LEMMA Answer ==
  ASSUME SpiAssumption, Inv, Exchange
  PROVE  /\ shift # NoByte
         /\ Got = 0 => Command
         /\ Got # 0 => IF IsWrite(call)
                       THEN /\ Port!Put(call.reg, shift) /\ rxdata' \in Data
                            /\ UNCHANGED command
                       ELSE Port!Get(call.reg, rxdata') /\ UNCHANGED command
<1>1. shift # NoByte
  BY DEF Exchange
<1>2. SSO /\ command = IF Got = 0 THEN NoByte ELSE CommandByte(call)
  BY <1>1, OnTheWire
<1>3. call \in Writes \union Reads
  BY <1>1, OnTheWire
<1>4. CommandByte(call) # NoByte
  BY Lengths, NoByteApart DEF Inv
<1>5. ASSUME Got # 0
      PROVE  IF IsWrite(call)
             THEN Port!Put(call.reg, shift) /\ rxdata' \in Data /\ UNCHANGED command
             ELSE Port!Get(call.reg, rxdata') /\ UNCHANGED command
  <2>1. command = CommandByte(call) /\ (Writing \/ Reading)
    BY <1>2, <1>4, <1>5 DEF Exchange
  <2>2. CASE IsWrite(call)
    <3>1. CommandByte(call) - 2 = call.reg /\ (CommandByte(call) \div 2) % 2 = 1
      BY <1>3, <2>2, Direction
    <3>2. Writing
      BY <2>1, <3>1 DEF Reading
    <3> QED BY <2>1, <2>2, <3>1, <3>2 DEF Writing
  <2>3. CASE ~IsWrite(call)
    <3>1. CommandByte(call) = call.reg /\ (CommandByte(call) \div 2) % 2 = 0
      BY <1>3, <2>3, Direction
    <3>2. Reading
      BY <2>1, <3>1 DEF Writing
    <3> QED BY <2>1, <2>3, <3>1, <3>2 DEF Reading
  <2> QED BY <2>2, <2>3
<1> QED BY <1>1, <1>2, <1>5 DEF Exchange

\* The chip takes the byte and answers with one.
LEMMA ExchangeInv ==
  ASSUME SpiAssumption, Inv, Exchange
  PROVE  Inv'
<1>1. shift # NoByte
  BY Answer
<1>2. /\ pc # "idle" /\ SSO /\ ~rrdy /\ hold = NoByte /\ credits = 0
      /\ call \in Writes \union Reads
      /\ Sent = Got + 1 /\ Exchanged = Got
      /\ shift = Wire(Sent) /\ shift \in Byte
      /\ command = IF Got = 0 THEN NoByte ELSE CommandByte(call)
  BY <1>1, OnTheWire
<1>3. /\ shift' = NoByte /\ rrdy' = TRUE /\ ~roe'
      /\ UNCHANGED <<pc, call, locals, status, SSO, hold, toe>>
  BY <1>2 DEF Exchange, Inv, NoOverrun
<1>4. UNCHANGED <<Sent, Got, Total>> /\ \A k : Wire(k)' = Wire(k)
  BY <1>3 DEF locals, Sent, Got, Total, Wire
<1>5. InHold' = 0 /\ InShift' = 0 /\ InRx' = 1
  BY <1>2, <1>3 DEF InHold, InShift, InRx
<1>6. Exchanged' = Got + 1
  BY <1>2, <1>4, <1>5, Counts DEF Exchanged, Inv
<1>7. /\ command' = CommandByte(call) /\ command' \in Byte /\ rxdata' \in Byte
      /\ regs' \in [{rHIRQ, rPERADDR} -> Byte] /\ regs'[rHIRQ] \in {0, 1}
      /\ rcv' \in Seq(Byte) /\ sud' \in Seq(Byte)
  <2>1. CommandByte(call) \in Byte
    BY Lengths DEF Inv
  <2>2. CASE Got = 0
    <3>1. Command
      BY <2>2, Answer
    <3>2. Sent = 1
      BY <1>2, <2>2
    <3>3. shift = CommandByte(call)
      BY <1>2, <3>2, Lengths DEF Wire, Inv
    <3> QED BY <2>1, <3>1, <3>3 DEF Command, Inv, TypeOK
  <2>3. CASE Got # 0 /\ IsWrite(call)
    <3>1. Port!Put(call.reg, shift) /\ rxdata' \in Data /\ UNCHANGED command
      BY <2>3, Answer
    <3>2. call.reg \in {rSUDFIFO, rHIRQ, rPERADDR}
      BY <1>2, <2>3, Direction
    <3> QED BY <1>2, <2>1, <2>3, <3>1, <3>2, Put DEF Inv, SpiAssumption, TypeOK
  <2>4. CASE Got # 0 /\ ~IsWrite(call)
    <3>1. Port!Get(call.reg, rxdata') /\ UNCHANGED command
      BY <2>4, Answer
    <3>2. call.reg \in {rRCVFIFO, rHIRQ, rPERADDR}
      BY <1>2, <2>4, Direction
    <3> QED BY <1>2, <2>1, <2>4, <3>1, <3>2, Get DEF Inv, TypeOK
  <2> QED BY <2>2, <2>3, <2>4
<1>8. TypeOK'
  <2>1. roe' \in BOOLEAN
    BY DEF Exchange, Inv, TypeOK
  <2> QED BY <1>3, <1>7, <2>1 DEF locals, Inv, TypeOK
<1>9. OneToken'
  <2>1. credits' = 0
    BY <1>2, <1>3 DEF locals
  <2> QED BY <1>5, <2>1 DEF OneToken
<1>10. Counted'
  <2>1. UNCHANGED <<written, write_zeros, read_ignore, read>>
    BY <1>3 DEF locals
  <2> QED BY <1>2, <1>3, <1>4, <1>5, <2>1, Counts DEF Inv, Counted
<1>11. Progress'
  BY <1>2, <1>3, <1>4 DEF Inv, Progress
<1>12. Commanded'
  <2>1. Exchanged' # 0
    BY <1>6, Counts DEF Inv
  <2> QED BY <1>2, <1>3, <1>7, <2>1 DEF Inv, Commanded
<1>13. Carried' /\ Idle' /\ NoOverrun'
  BY <1>2, <1>3 DEF Inv, Carried, Idle, NoOverrun
<1> QED BY <1>8, <1>9, <1>10, <1>11, <1>12, <1>13 DEF Inv

\* The chip changes its registers, or nothing happens.
LEMMA OtherInv ==
  ASSUME SpiAssumption, Inv, Request \/ Packet \/ Setup \/ UNCHANGED vars
  PROVE  Inv'
<1>1. UNCHANGED <<pc, call, locals, status, SSO, core, command>>
  BY DEF Request, Packet, Setup, vars, chip
<1>2. /\ regs' \in [{rHIRQ, rPERADDR} -> Byte] /\ regs'[rHIRQ] \in {0, 1}
      /\ rcv' \in Seq(Byte) /\ sud' \in Seq(Byte)
  <2>1. CASE Request
    <3>1. 1 \in Byte
      BY DEF Byte
    <3> QED BY <2>1, <3>1 DEF Request, Inv, TypeOK, rHIRQ, rPERADDR
  <2>2. CASE Packet
    BY <2>2 DEF Packet, Inv, TypeOK, SpiAssumption
  <2>3. CASE Setup
    BY <2>3 DEF Setup, Inv, TypeOK
  <2>4. CASE UNCHANGED vars
    BY <2>4 DEF vars, chip, Inv, TypeOK
  <2> QED BY <2>1, <2>2, <2>3, <2>4
<1>3. TypeOK'
  BY <1>1, <1>2 DEF locals, core, Inv, TypeOK
<1> QED BY <1>1, <1>3
        DEF locals, core, Inv, NoOverrun, Idle, OneToken, Counted, Commanded, Carried, Progress,
            Sent, Exchanged, Got, Total, InHold, InShift, InRx, Wire
-----------------------------------------------------------------------------
\* The inductive invariant holds of every state.
THEOREM Invariance == SpiAssumption => (Spec => []Inv)
<1> SUFFICES ASSUME SpiAssumption PROVE Spec => []Inv
  OBVIOUS
<1>1. Init => Inv
  BY InitInv
<1>2. Inv /\ [Next]_vars => Inv'
  BY StartInv, PollInv, SendInv, FetchInv, DrainInv, LoadInv, ExchangeInv, OtherInv
     DEF Next, Driver, Hardware
<1> QED BY <1>1, <1>2, PTL DEF Spec

\* The variables keep their types, whatever the lengths of the accesses.
THEOREM TypeCorrect == SpiAssumption => (Spec => []TypeOK)
<1>1. Inv => TypeOK
  BY DEF Inv
<1> QED BY <1>1, Invariance, PTL

\* The loop of the command never loses a byte: neither one it sends nor one that comes in.
THEOREM NeverOverrun == SpiAssumption => (Spec => []NoOverrun)
<1>1. Inv => NoOverrun
  BY DEF Inv
<1> QED BY <1>1, Invariance, PTL

\* When a call returns nothing of it is left on the wire, in the core or in the chip.
THEOREM QuietAtReturn == SpiAssumption => (Spec => []Quiet)
<1>1. Inv => Quiet
  BY DEF Inv, Idle, Quiet
<1> QED BY <1>1, Invariance, PTL
-----------------------------------------------------------------------------
(* Every access is one of RegisterPort. *)

\* The bytes of an access that RegisterPort counts.
LEMMA CountIsTotal ==
  ASSUME SpiAssumption, Inv, pc # "idle"
  PROVE  Port!Count(call) = Total - 1
<1>1. call \in Writes \union Reads
  BY DEF Inv, TypeOK, Commanded
<1> QED BY <1>1, Accesses DEF Port!Count, Port!IsWrite, IsWrite, Total

\* A byte exchanged: the command is nothing to the registers, every other one is the next
\* byte of the access.
LEMMA ExchangeRefines ==
  ASSUME SpiAssumption, Inv, Exchange
  PROVE  Port!Step \/ UNCHANGED Port!vars
<1> DEFINE W == write_length(call)
           R == read_length(call)
<1>1. shift # NoByte
  BY Answer
<1>2. /\ pc # "idle" /\ SSO /\ ~rrdy /\ hold = NoByte /\ credits = 0
      /\ call \in Writes \union Reads
      /\ Sent = Got + 1 /\ Exchanged = Got
      /\ shift = Wire(Sent) /\ shift \in Byte
      /\ command = IF Got = 0 THEN NoByte ELSE CommandByte(call)
  BY <1>1, OnTheWire
<1>3. /\ rrdy' = TRUE
      /\ UNCHANGED <<pc, call, written, write_zeros, read_ignore, read>>
  BY DEF Exchange, locals
<1>4. /\ W \in Nat /\ R \in Nat /\ W >= 1 /\ Len(read) \in Nat
      /\ (read = <<>> => Len(read) = 0)
  BY Lengths DEF Inv
<1>5. /\ read_ignore \in Nat /\ read_ignore <= W /\ Len(read) <= R
      /\ read_ignore > 0 => read = <<>>
      /\ Got \in Int /\ Got >= 0 /\ Sent <= Total
      /\ Got = W - read_ignore + Len(read)
  BY <1>2, <1>4, Counts DEF Inv, TypeOK, Counted, Got
<1>6. got = read
  BY <1>2 DEF got
<1>7. Exchanged' = Got + 1
  <2>1. Sent' = Sent /\ InHold' = 0 /\ InShift' = 0
    BY <1>2, <1>3 DEF Exchange, Sent, InHold, InShift
  <2> QED BY <1>2, <1>5, <2>1 DEF Exchanged
<1>8. CommandByte(call) # NoByte
  BY Lengths, NoByteApart DEF Inv
<1>9. CASE Got = 0
  <2>1. command' = shift /\ UNCHANGED <<regs, rcv, sud>>
    BY <1>9, Answer DEF Command
  <2>2. done = 0 /\ done' = 0
    <3>1. Exchanged' - 1 = 0
      BY <1>7, <1>9
    <3> QED BY <1>2, <1>9, <3>1 DEF done
  <2>3. read_ignore # 0
    BY <1>4, <1>5, <1>9
  <2>4. got' = read
    BY <1>3, <2>3 DEF got
  <2> QED BY <1>3, <1>6, <2>1, <2>2, <2>4 DEF Port!vars
<1>10. CASE Got # 0
  <2>1. command = CommandByte(call) /\ command' = command
    BY <1>2, <1>10, Answer
  <2>2. done = Got - 1 /\ done' = Got
    BY <1>2, <1>5, <1>7, <1>8, <2>1 DEF done
  <2>3. Port!Count(call) = Total - 1 /\ Total \in Int
    BY <1>2, CountIsTotal, Counts DEF Inv
  <2>4. done < Port!Count(call) /\ done' = done + 1
    BY <1>2, <1>5, <2>2, <2>3, SMTT(30)
  <2>5. CASE IsWrite(call)
    <3>1. /\ R = 0 /\ W = Len(call.data) + 1 /\ call.data \in Seq(Byte)
          /\ \A k \in 1 .. Len(call.data) : toSend(call)[k + 1] = call.data[k]
      BY <1>2, <2>5, Accesses
    <3>2. Total = W
      BY <1>4, <3>1 DEF Total
    <3>3. Got \in 1 .. Len(call.data)
      BY <1>2, <1>4, <1>5, <1>10, <3>1, <3>2
    <3>4. shift = call.data[Got]
      BY <1>2, <1>4, <3>1, <3>3 DEF Wire
    <3>5. call.data[done + 1] = shift
      BY <1>5, <2>2, <3>4
    <3>6. Port!Put(call.reg, shift)
      BY <1>10, <2>5, Answer
    <3>7. read_ignore # 0
      BY <1>4, <1>5, <3>1, <3>3
    <3>8. got' = read
      BY <1>3, <3>7 DEF got
    <3> QED BY <1>2, <1>3, <1>6, <2>4, <2>5, <3>5, <3>6, <3>8
            DEF Port!Step, Port!IsWrite, IsWrite
  <2>6. CASE ~IsWrite(call)
    <3>1. W = 1
      BY <1>2, <2>6, Accesses
    <3>2. read_ignore = 0
      BY <1>4, <1>5, <1>10, <3>1
    <3>3. got' = Append(read, rxdata')
      BY <1>2, <1>3, <3>2 DEF got
    <3>4. Port!Get(call.reg, rxdata')
      BY <1>10, <2>6, Answer
    <3>5. rxdata' \in Byte
      BY ExchangeInv DEF Inv, TypeOK
    <3> QED BY <1>2, <1>3, <1>6, <2>4, <2>6, <3>3, <3>4, <3>5
            DEF Port!Step, Port!IsWrite, IsWrite
  <2> QED BY <2>5, <2>6
<1> QED BY <1>9, <1>10

\* The start of a call begins an access of the port.
LEMMA StartRefines == ASSUME SpiAssumption, Inv, Start PROVE Port!Begin
<1>1. pc = "idle" /\ pc' = "poll" /\ rrdy' = FALSE /\ command' = command /\ read' = <<>>
      /\ UNCHANGED <<regs, rcv, sud>>
  BY DEF Start, Discard, chip
<1>2. command = NoByte
  BY <1>1 DEF Inv, Idle
<1> QED BY <1>1, <1>2 DEF Port!Begin, done, got

\* The end of a call returns from the access.
LEMMA DrainRefines == ASSUME SpiAssumption, Inv, Drain PROVE Port!Return
<1>1. /\ pc = "drain" /\ pc' = "idle" /\ command' = NoByte
      /\ UNCHANGED <<call, read, rrdy, rxdata, regs, rcv, sud>>
  BY DEF Drain, Deselect, core
<1>2. Exchanged = Total /\ ~rrdy
  BY DrainInv
<1>3. Total \in Int /\ Total >= 1
  BY Lengths, Counts DEF Inv, Total
<1>4. command # NoByte
  <2>1. command = IF Exchanged = 0 THEN NoByte ELSE CommandByte(call)
    BY <1>1 DEF Inv, Commanded
  <2> QED BY <1>2, <1>3, <2>1, Lengths, NoByteApart DEF Inv
<1>5. done = Port!Count(call)
  BY <1>1, <1>2, <1>4, CountIsTotal DEF done
<1> QED BY <1>1, <1>2, <1>5 DEF Port!Return, done, got

\* What the driver does between the bytes is not seen at the registers.
LEMMA StutterRefines ==
  ASSUME SpiAssumption, Inv, Poll \/ Send \/ Fetch \/ Load \/ UNCHANGED vars
  PROVE  UNCHANGED Port!vars
<1>1. UNCHANGED <<call, regs, rcv, sud, command>> /\ (pc' = "idle" <=> pc = "idle")
  BY DEF Poll, Send, Fetch, Load, vars, chip, Ends
<1>2. Exchanged' = Exchanged
  <2>1. CASE Poll \/ Fetch \/ UNCHANGED vars
    BY <2>1 DEF Poll, Fetch, vars, locals, core, Exchanged, Sent, InHold, InShift
  <2>2. CASE Load
    BY <2>2, LoadInv
  <2>3. CASE Send
    BY <2>3, SendInv
  <2> QED BY <2>1, <2>2, <2>3
<1>3. done' = done
  BY <1>1, <1>2 DEF done
<1>4. got' = got
  <2>1. CASE Poll \/ Send \/ Load \/ UNCHANGED vars
    BY <1>1, <2>1 DEF Poll, Send, Load, vars, locals, core, got
  <2>2. CASE Fetch
    <3>1. CASE "RRDY" \notin status
      BY <1>1, <2>2, <3>1 DEF Fetch, got
    <3>2. CASE "RRDY" \in status
      <4>1. /\ rrdy /\ pc = "fetch" /\ rrdy' = FALSE
            /\ read' = IF read_ignore > 0 THEN read ELSE Append(read, rxdata)
        BY <2>2, <3>2 DEF Fetch, Inv, Progress
      <4>2. read_ignore \in Nat
        BY Lengths DEF Inv, TypeOK
      <4> QED BY <4>1, <4>2 DEF got
    <3> QED BY <3>1, <3>2
  <2> QED BY <2>1, <2>2
<1> QED BY <1>1, <1>3, <1>4 DEF Port!vars

\* The chip's own changes.
LEMMA ChipRefines ==
  ASSUME SpiAssumption, Inv, Request \/ Packet \/ Setup
  PROVE  Port!Chip
<1>1. UNCHANGED <<pc, call, locals, status, SSO, core, command>>
  BY DEF Request, Packet, Setup
<1>2. \E q \in {0, 1} : regs' = [regs EXCEPT ![rHIRQ] = q]
  <2>1. CASE Request
    BY <2>1 DEF Request
  <2>2. CASE Packet \/ Setup
    <3>1. regs' = regs /\ regs = [regs EXCEPT ![rHIRQ] = regs[rHIRQ]] /\ regs[rHIRQ] \in {0, 1}
      BY <2>2 DEF Packet, Setup, Inv, TypeOK
    <3> QED BY <3>1
  <2> QED BY <2>1, <2>2
<1>3. done' = done /\ got' = got
  BY <1>1 DEF locals, core, done, got, Exchanged, Sent, InHold, InShift
<1> QED BY <1>1, <1>2, <1>3 DEF Port!Chip

\* The rest of the program may take an access as RegisterPort describes it, for accesses of
\* every length and any bytes.
THEOREM ImplementsPort == SpiAssumption => (Spec => PortSpec)
<1> SUFFICES ASSUME SpiAssumption PROVE Spec => PortSpec
  OBVIOUS
<1>1. Init => Port!Init
  BY DEF Init, Port!Init, done, got
<1>2. Inv /\ [Next]_vars => [Port!Next]_(Port!vars)
  BY StartRefines, ExchangeRefines, DrainRefines, StutterRefines, ChipRefines
     DEF Next, Driver, Hardware, Port!Next
<1>3. Spec => []Inv
  BY Invariance
<1> QED BY <1>1, <1>2, <1>3, PTL DEF Spec, PortSpec, Port!Spec
-----------------------------------------------------------------------------
(* An access comes to an end *)

\* How often the bytes of the access still have to be handed on: from the call to TXDATA, from
\* there to the wire, from there to RXDATA, and from there to the call.
Work == 4 * (Total - Sent) + 3 * InHold + 2 * InShift + InRx

\* How far the loop is from handing one on, or from returning.
Distance ==
  CASE pc = "poll"  -> 2
    [] pc = "send"  -> 1
    [] pc = "fetch" -> IF "RRDY" \in status THEN 0 ELSE 3
    [] pc = "drain" -> 1
    [] OTHER        -> 0

Left == IF pc = "idle" THEN 0 ELSE 4 * Work + Distance

\* Each step of the command and of the core brings the end of the access nearer, and what the
\* chip does meanwhile never puts it off.
AccessAdvances ==
  [][pc # "idle" => Left' <= Left /\ (Driver \/ Hardware => Left' < Left)]_vars

\* What made the loop go on: a byte to fetch, or leave to send one.
Asked == pc = "send" => "RRDY" \in status \/ ("TRDY" \in status /\ credits = 1)

\* The command waits only for a byte that is under way.
NeverStuck ==
  /\ pc = "poll" => \/ "RRDY" \in Status \/ ("TRDY" \in Status /\ credits # 0)
                    \/ InHold + InShift = 1
  /\ pc = "drain" => "TMT" \in Status

\* The command goes round only for a reason.
LEMMA AskedStep ==
  ASSUME SpiAssumption, Inv, Asked, [Next]_vars
  PROVE  Asked'
<1> USE DEF Asked
<1>1. CASE Start
  BY <1>1 DEF Start
<1>2. CASE Poll
  <2>1. credits # 0 => credits = 1
    BY Counts DEF Inv
  <2>2. UNCHANGED credits /\ status' = Status
    BY <1>2 DEF Poll, locals
  <2> QED  BY <1>2, <2>1, <2>2 DEF Poll
<1>3. CASE Send
  BY <1>3 DEF Send
<1>4. CASE Fetch
  BY <1>4 DEF Fetch
<1>5. CASE Drain
  BY <1>5 DEF Drain
<1>6. CASE Hardware \/ Request \/ Packet \/ Setup \/ UNCHANGED vars
  <2>1. UNCHANGED <<pc, status, credits>>
    BY <1>6 DEF Hardware, Load, Exchange, Request, Packet, Setup, vars, locals
  <2> QED  BY <2>1
<1> QED  BY <1>1, <1>2, <1>3, <1>4, <1>5, <1>6 DEF Next, Driver

\* The one token is somewhere: to wait is to wait for a byte that the core has.
LEMMA WaitsForByte == SpiAssumption /\ Inv => NeverStuck
<1> SUFFICES ASSUME SpiAssumption, Inv PROVE NeverStuck
  OBVIOUS
<1>1. pc # "idle" => credits + InHold + InShift + InRx = 1
  BY DEF Inv, OneToken
<1>2. InHold \in {0, 1} /\ InShift \in {0, 1} /\ InRx \in {0, 1} /\ credits \in {0, 1}
  BY Counts DEF Inv
<1>3. ASSUME pc = "poll"
      PROVE  \/ "RRDY" \in Status \/ ("TRDY" \in Status /\ credits # 0)
             \/ InHold + InShift = 1
  <2>1. CASE credits = 1
    BY <1>1, <1>2, <1>3, <2>1 DEF Status, InHold
  <2>2. CASE InRx = 1
    BY <2>2 DEF Status, InRx
  <2>3. CASE credits # 1 /\ InRx # 1
    BY <1>1, <1>2, <1>3, <2>3
  <2> QED  BY <2>1, <2>2, <2>3
<1>4. ASSUME pc = "drain" PROVE "TMT" \in Status
  <2>1. Sent = Got + InHold + InShift + InRx /\ Got = Total /\ Sent <= Total
    BY <1>4, Counts DEF Inv, Counted, Progress
  <2>2. InHold = 0 /\ InShift = 0
    BY <1>2, <2>1, Counts DEF Inv
  <2> QED  BY <2>2 DEF Status, InHold, InShift
<1> QED  BY <1>3, <1>4 DEF NeverStuck

\* What is left is a number, bounded by the bytes of the access.
LEMMA LeftType ==
  ASSUME SpiAssumption, Inv
  PROVE  /\ Work \in Nat /\ Distance \in 0 .. 3 /\ Left \in Nat
         /\ Left <= 16 * Total + 3
<1>1. Distance \in 0 .. 3
  BY DEF Distance, Inv, TypeOK
<1>2. CASE pc = "idle"
  <2>1. Sent \in Int /\ Total \in Int /\ Sent <= Total /\ Total >= 0
    <3>1. write_length(call) \in Nat /\ read_length(call) \in Nat
      BY Lengths DEF Inv
    <3>2. Total >= 0
      BY <3>1 DEF Total
    <3> QED  BY <3>2, Counts DEF Inv
  <2>2. InHold \in {0, 1} /\ InShift \in {0, 1} /\ InRx \in {0, 1}
    BY Counts DEF Inv
  <2>3. Work \in Nat
    <3> HIDE DEF Total
    <3> QED  BY <2>1, <2>2 DEF Work
  <2> QED  BY <1>1, <1>2, <2>1, <2>3 DEF Left
<1>3. CASE pc # "idle"
  <2>1. /\ Sent \in Int /\ Got \in Int /\ Total \in Int /\ Got >= 0 /\ Sent <= Total
        /\ Sent = Got + InHold + InShift + InRx
        /\ InHold + InShift + InRx <= 1
        /\ InHold \in {0, 1} /\ InShift \in {0, 1} /\ InRx \in {0, 1}
    BY <1>3, Counts DEF Inv, Counted, OneToken
  <2>2. Work \in Nat /\ Work <= 4 * Total
    BY <2>1 DEF Work
  <2> HIDE DEF Work
  <2> QED  BY <1>1, <1>3, <2>1, <2>2 DEF Left
<1> QED  BY <1>2, <1>3

\* It still is after a step.
LEMMA LeftTypeNext == Inv' => Work' \in Nat /\ Left' \in Nat
<1>1. Inv => Work \in Nat /\ Left \in Nat
  BY LeftType, SpiAssumption
<1>2. Inv' => (Work \in Nat /\ Left \in Nat)'
  BY <1>1, PTL
<1> QED  BY <1>2

\* A byte handed on pays for any distance.
LEMMA WorkPays ==
  ASSUME NEW w \in Nat, NEW u \in Nat, NEW d \in 0 .. 3, NEW e \in 0 .. 3,
         u + 1 <= w \/ (u = w /\ e + 1 <= d)
  PROVE  4 * u + e < 4 * w + d
OBVIOUS

\* What counts for the work is left alone.
LEMMA WorkKept ==
  ASSUME UNCHANGED <<call, written, write_zeros, hold, shift, rrdy>>
  PROVE  Work' = Work
BY DEF Work, Total, Sent, InHold, InShift, InRx

\* A step of the command hands a byte on, or gets nearer to it.
LEMMA DriverAdvances ==
  ASSUME SpiAssumption, Inv, Inv', Asked, Driver
  PROVE  Left' < Left
<1>1. pc # "idle" /\ Distance \in 0 .. 3 /\ Distance' \in 0 .. 3
  BY SMTT(30) DEF Driver, Poll, Send, Fetch, Drain, Distance, Inv, TypeOK
<1>2. Work \in Nat
  BY LeftType
<1>3. CASE Drain
  <2>1. Left = 4 * Work + 1 /\ Left' = 0
    BY <1>3 DEF Drain, Left, Distance
  <2> QED  BY <1>2, <2>1
<1>4. CASE Poll
  <2>1. Work' = Work
    BY <1>4, WorkKept DEF Poll, locals, core
  <2>2. Left = 4 * Work + 2 /\ Left' = 4 * Work' + 1
    BY <1>4 DEF Poll, Left, Distance
  <2> QED  BY <1>2, <2>1, <2>2
<1>5. CASE Send
  <2>1. pc' = "fetch" /\ pc = "send" /\ UNCHANGED <<call, status, shift, rrdy>>
    BY <1>5 DEF Send
  <2>2. Left = 4 * Work + Distance /\ Left' = 4 * Work' + Distance' /\ Distance = 1
    BY <2>1 DEF Left, Distance
  <2>3. CASE "TRDY" \notin status \/ credits <= 0
    <3>1. "RRDY" \in status
      BY <2>1, <2>3 DEF Asked
    <3>2. Work' = Work
      BY <1>5, <2>1, <2>3, WorkKept DEF Send
    <3>3. Distance' = 0
      BY <2>1, <3>1 DEF Distance
    <3> QED  BY <1>2, <2>2, <3>2, <3>3
  <2>4. CASE "TRDY" \in status /\ ~(credits <= 0)
    <3>1. hold = NoByte /\ Sent' = Sent + 1 /\ hold' # NoByte /\ Total' = Total
      BY <1>5, <2>1, <2>4, SendInv DEF Total
    <3>2. InHold = 0 /\ InHold' = 1 /\ InShift' = InShift /\ InRx' = InRx
      BY <2>1, <3>1 DEF InHold, InShift, InRx
    <3>3. Work' = Work - 1
      <4>1. Sent \in Int /\ Total \in Int /\ InShift \in Int /\ InRx \in Int
        BY Counts DEF Inv
      <4> QED  BY <3>1, <3>2, <4>1 DEF Work
    <3>4. Work' \in Nat
      BY LeftTypeNext
    <3>5. Work' + 1 <= Work
      BY <1>2, <3>3
    <3>6. 4 * Work' + Distance' < 4 * Work + Distance
      BY <1>1, <1>2, <3>4, <3>5, WorkPays
    <3> QED  BY <2>2, <3>6
  <2> QED  BY <2>3, <2>4
<1>6. CASE Fetch
  <2>1. /\ pc = "fetch" /\ pc' \in {"poll", "drain"}
        /\ UNCHANGED <<call, written, write_zeros, hold, shift>>
    BY <1>6 DEF Fetch
  <2>2. Left = 4 * Work + Distance /\ Left' = 4 * Work' + Distance'
    BY <2>1 DEF Left
  <2>3. CASE "RRDY" \notin status
    <3>1. Distance = 3 /\ Distance' = 2
      BY <1>6, <2>1, <2>3 DEF Fetch, Distance
    <3>2. Work' = Work
      BY <1>6, <2>1, <2>3, WorkKept DEF Fetch
    <3> QED  BY <1>2, <2>2, <3>1, <3>2
  <2>4. CASE "RRDY" \in status
    <3>1. rrdy /\ ~rrdy'
      BY <1>6, <2>1, <2>4 DEF Fetch, Inv, Progress
    <3>2. Total' = Total /\ Sent' = Sent /\ InHold' = InHold /\ InShift' = InShift
      BY <2>1 DEF Total, Sent, InHold, InShift
    <3>3. InRx = 1 /\ InRx' = 0
      BY <3>1 DEF InRx
    <3>4. Work' = Work - 1
      <4>1. Sent \in Int /\ Total \in Int /\ InHold \in Int /\ InShift \in Int
        BY Counts DEF Inv
      <4> QED  BY <3>2, <3>3, <4>1 DEF Work
    <3>5. Work' \in Nat
      BY LeftTypeNext
    <3>6. Work' + 1 <= Work
      BY <1>2, <3>4
    <3>7. 4 * Work' + Distance' < 4 * Work + Distance
      BY <1>1, <1>2, <3>5, <3>6, WorkPays
    <3> QED  BY <2>2, <3>7
  <2> QED  BY <2>3, <2>4
<1> QED  BY <1>3, <1>4, <1>5, <1>6 DEF Driver

\* So does a step of the core, once a byte is in it.
LEMMA HardwareAdvances ==
  ASSUME SpiAssumption, Inv, pc # "idle", Hardware
  PROVE  Left' < Left
<1>1. Work \in Nat /\ Distance \in 0 .. 3
  BY LeftType
<1>2. /\ UNCHANGED <<pc, status, call, written, write_zeros>>
  BY DEF Hardware, Load, Exchange, locals
<1>3. Total' = Total /\ Sent' = Sent /\ Distance' = Distance
  BY <1>2 DEF Total, Sent, Distance
<1>4. Left = 4 * Work + Distance /\ Left' = 4 * Work' + Distance
  BY <1>2, <1>3 DEF Left
<1>5. Sent \in Int /\ Total \in Int /\ InHold \in {0, 1} /\ InShift \in {0, 1} /\ InRx \in {0, 1}
  BY Counts DEF Inv
<1>6. CASE Load
  <2>1. InHold = 1 /\ InHold' = 0 /\ InShift = 0 /\ InShift' = 1 /\ InRx' = InRx
    BY <1>6 DEF Load, InHold, InShift, InRx
  <2>2. Work' = Work - 1
    BY <1>3, <1>5, <2>1 DEF Work
  <2> HIDE DEF Work
  <2> QED  BY <1>1, <1>4, <2>2
<1>7. CASE Exchange
  <2>1. InShift = 1 /\ InShift' = 0 /\ InRx' = 1 /\ InHold' = InHold
    BY <1>7 DEF Exchange, InHold, InShift, InRx
  <2>2. Work' = Work - 2 + InRx' - InRx
    BY <1>3, <1>5, <2>1 DEF Work
  <2>3. Work' = Work - 1 \/ Work' = Work - 2
    BY <1>1, <1>5, <2>1, <2>2
  <2> HIDE DEF Work
  <2> QED  BY <1>1, <1>4, <2>3
<1> QED  BY <1>6, <1>7 DEF Hardware

\* The chip, which meanwhile requests and receives, has no part in it.
LEMMA ChipKeeps ==
  ASSUME SpiAssumption, Inv, Request \/ Packet \/ Setup \/ UNCHANGED vars
  PROVE  Left' = Left
<1>1. UNCHANGED <<pc, call, locals, status, core>>
  BY DEF Request, Packet, Setup, vars
<1>2. Work' = Work
  BY <1>1, WorkKept DEF locals, core
<1>3. Distance' = Distance
  BY <1>1 DEF Distance
<1> QED  BY <1>1, <1>2, <1>3 DEF Left

\* alt_avalon_spi_command returns after a number of steps that the bytes of the access bound,
\* whatever the pace of the core and the chip, and never waits without a byte under way.
THEOREM AccessAlwaysAdvances ==
  SpiAssumption => (Spec => AccessAdvances /\ [](NeverStuck /\ Left \in 0 .. 16 * Total + 3))
<1> SUFFICES ASSUME SpiAssumption
             PROVE  Spec => AccessAdvances /\ [](NeverStuck /\ Left \in 0 .. 16 * Total + 3)
  OBVIOUS
<1>1. Init => Asked
  BY DEF Init, Asked
<1>2. Inv /\ Asked /\ [Next]_vars => Asked'
  BY AskedStep
<1>3. Inv /\ Inv' /\ Asked /\ [Next]_vars
        => [pc # "idle" => Left' <= Left /\ (Driver \/ Hardware => Left' < Left)]_vars
  <2> SUFFICES ASSUME Inv, Inv', Asked, [Next]_vars, pc # "idle"
               PROVE  Left' <= Left /\ (Driver \/ Hardware => Left' < Left)
    OBVIOUS
  <2>1. Left \in Nat /\ Left' \in Nat
    BY LeftType, LeftTypeNext
  <2>2. CASE Driver \/ Hardware
    <3>1. Left' < Left
      BY <2>2, DriverAdvances, HardwareAdvances
    <3> QED  BY <2>1, <3>1
  <2>3. CASE ~(Driver \/ Hardware)
    <3>1. Request \/ Packet \/ Setup \/ UNCHANGED vars
      BY <2>3 DEF Next, Start
    <3> QED  BY <2>1, <2>3, <3>1, ChipKeeps
  <2> QED  BY <2>2, <2>3
<1>4. Inv => NeverStuck /\ Left \in 0 .. 16 * Total + 3
  <2> SUFFICES ASSUME Inv PROVE Left \in 0 .. 16 * Total + 3
    BY WaitsForByte
  <2>1. Left \in Nat /\ Left <= 16 * Total + 3
    BY LeftType
  <2>2. 16 * Total + 3 \in Int
    <3>1. Total \in Int
      BY Counts DEF Inv
    <3> HIDE DEF Total
    <3> QED  BY <3>1
  <2> HIDE DEF Left, Total
  <2> QED  BY <2>1, <2>2
<1> QED  BY <1>1, <1>2, <1>3, <1>4, Invariance, PTL DEF Spec, AccessAdvances
=============================================================================
