--------------------------- MODULE JtagUart_proof ---------------------------
(***************************************************************************)
(* Proofs about the driver of the JTAG UART, for buffers and FIFOs of any  *)
(* length and calls of any number of characters: that what is in a buffer  *)
(* never waits for an interrupt nobody has enabled, in either direction,   *)
(* that the system comes up without an interrupt it cannot serve, and that *)
(* both directions are pipes, and that the interrupt handlers return.  For *)
(* the pipes the invariant says what a call may rely on between two of its *)
(* steps: the handlers only make room for what write has found room for,   *)
(* and only add to what read has found.                                    *)
(***************************************************************************)
EXTENDS JtagUart, TLAPS

\* The parts of TypeOK.
ControlTypes ==
  /\ pc \in {"irq_init", "timer_init", "uart_enable", "uart_register", "uart_alarm", "ready",
             "w_look", "w_copy", "w_in", "w_kick", "w_wait", "w_check",
             "r_look", "r_out", "r_enable", "r_wait", "r_check", "c_wait"}
  /\ isr \in {"none", "dispatch", "control", "rx", "rx_end", "tx", "timer"}
  /\ ienable \subseteq Lines /\ handlers \subseteq Lines
  /\ alarm \in BOOLEAN /\ tpend \in BOOLEAN
  /\ wi \in BOOLEAN /\ ravail \in BOOLEAN /\ ac \in BOOLEAN
  /\ irq_enable \subseteq {"RE", "WE"}
  /\ host_inactive \in 0 .. IntMax - 2 /\ timeout \in 2 .. IntMax
CallTypes ==
  /\ some \in BOOLEAN /\ nonblock \in BOOLEAN
  /\ in \in Index /\ out \in Index
  /\ n \in 0 .. BufLen /\ left \in 0 .. MaxCount
  /\ pc \in {"w_copy", "w_in", "r_out"} => n <= left
BufferTypes ==
  /\ tx_buf \in [Index -> Nat] /\ rx_buf \in [Index -> Nat]
  /\ tx_in \in Index /\ tx_out \in Index /\ rx_in \in Index /\ rx_out \in Index
  /\ written \in Nat
FifoTypes ==
  /\ space \in 0 .. WriteDepth
  /\ wfifo \in Seq(Nat) /\ rfifo \in Seq(Nat)
  /\ Len(wfifo) + space <= WriteDepth /\ Len(rfifo) <= ReadDepth
  /\ sent \in Nat

\* A line that is enabled has a handler, and handlers run once the lines are under control.
Lined == /\ pc # "irq_init" => ienable \subseteq handlers
         /\ pc = "irq_init" => isr = "none"

\* Nothing is written before the system is up.
Booting == {"irq_init", "timer_init", "uart_enable", "uart_register", "uart_alarm"}
BootEmpty == pc \in Booting => tx_in = tx_out

\* Characters are left in the UART only if the buffer is full, so that there is something
\* to read when read interrupts go off.
LeftIfFull == isr = "rx_end" /\ ravail => Full

Inv == /\ ControlTypes /\ CallTypes /\ BufferTypes /\ FifoTypes
       /\ Lined /\ BootEmpty /\ LeftIfFull /\ TxKicked /\ RxOpen
-----------------------------------------------------------------------------
\* The pointers of a ring buffer stay inside it, and no cell is next to itself.
LEMMA AfterInRing ==
  ASSUME JtagUartAssumption, NEW i \in Index, NEW k \in Nat
  PROVE  After(i, k) \in Index
<1>1. i + k \in Nat /\ BufLen \in Nat /\ BufLen >= 2
  BY DEF Index, JtagUartAssumption
<1> QED BY <1>1 DEF After, Index

\* A pointer that moves is somewhere else.
LEMMA AfterMoves ==
  ASSUME JtagUartAssumption, NEW i \in Index
  PROVE  After(i, 1) # i
<1>1. i \in Nat /\ i < BufLen /\ BufLen \in Nat /\ BufLen >= 2
  BY DEF Index, JtagUartAssumption
<1>2. CASE i + 1 < BufLen
  <2>1. (i + 1) % BufLen = i + 1
    BY <1>1, <1>2
  <2> QED BY <1>1, <2>1 DEF After
<1>3. CASE i + 1 = BufLen
  <2>1. (i + 1) % BufLen = 0
    BY <1>1, <1>3
  <2> QED BY <1>1, <1>3, <2>1 DEF After
<1> QED BY <1>1, <1>2, <1>3

\* A full buffer is not empty.
LEMMA FullNotEmpty ==
  ASSUME JtagUartAssumption, BufferTypes, Full
  PROVE  rx_in # rx_out
BY AfterMoves DEF BufferTypes, Full

\* The invariant gives the type invariant and the properties.
LEMMA InvGives == Inv /\ JtagUartAssumption => TypeOK /\ Served
<1> SUFFICES ASSUME Inv, JtagUartAssumption PROVE TypeOK /\ Served
  OBVIOUS
<1>1. Len(wfifo) <= WriteDepth
  BY DEF Inv, FifoTypes, JtagUartAssumption
<1>2. Served
  BY DEF Inv, Lined, Served, Pending
<1> QED BY <1>1, <1>2 DEF Inv, ControlTypes, CallTypes, BufferTypes, FifoTypes, TypeOK
-----------------------------------------------------------------------------
\* The initial states satisfy the invariant.
LEMMA InitInv == JtagUartAssumption /\ Init => Inv
<1> SUFFICES ASSUME JtagUartAssumption, Init PROVE Inv
  OBVIOUS
<1>1. /\ 0 \in Index /\ 0 \in 0 .. BufLen /\ 0 \in 0 .. MaxCount
      /\ 0 \in 0 .. IntMax - 2 /\ DefaultTimeout \in 2 .. IntMax
  BY DEF Index, JtagUartAssumption
<1>2. ControlTypes
  BY <1>1 DEF Init, ControlTypes, Lines
<1>3. CallTypes
  BY <1>1 DEF Init, CallTypes
<1>4. BufferTypes
  BY <1>1 DEF Init, BufferTypes, JtagUartAssumption
<1>5. FifoTypes
  <2>1. sent \in Nat
    BY DEF Init, JtagUartAssumption
  <2> QED BY <2>1 DEF Init, FifoTypes, JtagUartAssumption
<1>6. Lined /\ BootEmpty /\ LeftIfFull /\ TxKicked /\ RxOpen
  BY DEF Init, Lined, BootEmpty, LeftIfFull, TxKicked, RxOpen
<1> QED BY <1>2, <1>3, <1>4, <1>5, <1>6 DEF Inv
-----------------------------------------------------------------------------
(* The system comes up *)

\* What a step of alt_main leaves alone.
BootFrame ==
  /\ isr = "none" /\ isr' = isr
  /\ UNCHANGED <<tpend, tx_buf, tx_in, tx_out, written>>
  /\ UNCHANGED <<rx_buf, rx_in, rx_out, wfifo, rfifo, ac, sent>>
  /\ UNCHANGED <<in, out, n, left, some, nonblock, wi, space, ravail>>

\* A step of alt_main keeps what it does not touch.
LEMMA BootFrameInv ==
  ASSUME JtagUartAssumption, Inv, BootFrame, pc \in Booting,
         pc' \in {"timer_init", "uart_enable", "uart_register", "uart_alarm", "ready"}
  PROVE  CallTypes' /\ BufferTypes' /\ FifoTypes' /\ BootEmpty' /\ LeftIfFull' /\ TxKicked'
BY DEF Inv, BootFrame, CallTypes, BufferTypes, FifoTypes, BootEmpty, LeftIfFull, TxKicked

\* A step of alt_main.
LEMMA BootInv ==
  ASSUME JtagUartAssumption, Inv, Boot
  PROVE  Inv'
<1> USE DEF BootFrame, Booting, Program, bootVars, txVars, rxVars, hostVars, timeVars, callVars, isrVars
<1>1. CASE alt_irq_init
  <2>1. /\ BootFrame /\ pc = "irq_init" /\ pc' = "timer_init" /\ ienable' = {}
        /\ UNCHANGED <<handlers, alarm, irq_enable, host_inactive, timeout>>
    BY <1>1 DEF alt_irq_init, altera_nios2_gen2_irq_init
  <2>2. ControlTypes' /\ Lined'
    BY <2>1 DEF Inv, ControlTypes, Lined
  <2>3. RxOpen'
    BY <2>1 DEF Inv, RxOpen
  <2> QED BY <2>1, <2>2, <2>3, BootFrameInv DEF Inv
<1>2. CASE TimerInit
  <2>1. /\ BootFrame /\ pc = "timer_init" /\ pc' = "uart_enable"
        /\ handlers' = handlers \union {"timer"} /\ ienable' = ienable \union {"timer"}
        /\ UNCHANGED <<alarm, irq_enable, host_inactive, timeout>>
    BY <1>2 DEF TimerInit, alt_iic_isr_register
  <2>2. ControlTypes' /\ Lined'
    BY <2>1 DEF Inv, ControlTypes, Lined, Lines
  <2>3. RxOpen'
    BY <2>1 DEF Inv, RxOpen
  <2> QED BY <2>1, <2>2, <2>3, BootFrameInv DEF Inv
<1>3. CASE UartEnable
  <2>1. /\ BootFrame /\ pc = "uart_enable" /\ pc' = "uart_register" /\ irq_enable' = {"RE"}
        /\ UNCHANGED <<alarm, ienable, handlers, host_inactive, timeout>>
    BY <1>3 DEF UartEnable
  <2>2. ControlTypes' /\ Lined'
    BY <2>1 DEF Inv, ControlTypes, Lined
  <2>3. RxOpen'
    BY <2>1 DEF Inv, RxOpen
  <2> QED BY <2>1, <2>2, <2>3, BootFrameInv DEF Inv
<1>4. CASE UartRegister
  <2>1. /\ BootFrame /\ pc = "uart_register" /\ pc' = "uart_alarm"
        /\ handlers' = handlers \union {"jtag"} /\ ienable' = ienable \union {"jtag"}
        /\ UNCHANGED <<alarm, irq_enable, host_inactive, timeout>>
    BY <1>4 DEF UartRegister, alt_iic_isr_register
  <2>2. ControlTypes' /\ Lined'
    BY <2>1 DEF Inv, ControlTypes, Lined, Lines
  <2>3. RxOpen'
    BY <2>1 DEF Inv, RxOpen
  <2> QED BY <2>1, <2>2, <2>3, BootFrameInv DEF Inv
<1>5. CASE UartAlarm
  <2>1. /\ BootFrame /\ pc = "uart_alarm" /\ pc' = "ready"
        /\ host_inactive' = 0
        /\ UNCHANGED <<ienable, handlers, irq_enable>>
    BY <1>5 DEF UartAlarm
  <2>2. alarm' \in BOOLEAN
    BY <1>5 DEF UartAlarm
  <2>3. timeout' \in 2 .. IntMax
    <3>1. timeout' = timeout \/ timeout' = IntMax
      BY <1>5 DEF UartAlarm
    <3> QED BY <3>1 DEF Inv, ControlTypes, JtagUartAssumption
  <2>4. 0 \in 0 .. IntMax - 2
    BY DEF JtagUartAssumption
  <2>5. ControlTypes' /\ Lined'
    BY <2>1, <2>2, <2>3, <2>4 DEF Inv, ControlTypes, Lined
  <2>6. RxOpen'
    BY <2>1 DEF Inv, RxOpen
  <2> QED BY <2>1, <2>5, <2>6, BootFrameInv DEF Inv
<1> QED BY <1>1, <1>2, <1>3, <1>4, <1>5 DEF Boot
-----------------------------------------------------------------------------
(* The program calls the driver *)

\* What a step of a call leaves alone.
CallFrame ==
  /\ isr = "none" /\ isr' = isr
  /\ UNCHANGED <<tpend, wi, space, ravail, ienable, handlers, alarm, host_inactive>>
  /\ UNCHANGED <<wfifo, rfifo, ac, sent>>
  /\ pc \notin Booting /\ pc' \notin Booting

\* A step of a call keeps what it does not touch.
LEMMA CallFrameInv ==
  ASSUME JtagUartAssumption, Inv, CallFrame
  PROVE  FifoTypes' /\ Lined' /\ BootEmpty' /\ LeftIfFull'
BY DEF Inv, CallFrame, FifoTypes, Lined, BootEmpty, LeftIfFull, Booting

\* A call is made, or what the timeout is to be is set.
LEMMA CallInv ==
  ASSUME JtagUartAssumption, Inv, Call \/ SetTimeout
  PROVE  Inv'
<1> USE DEF CallFrame, Program, bootVars, txVars, rxVars, hostVars, timeVars, callVars, isrVars
<1>1. CASE Call
  <2>1. /\ CallFrame /\ pc = "ready" /\ pc' \in {"w_look", "r_look", "c_wait"}
        /\ left' \in 1 .. MaxCount /\ nonblock' \in BOOLEAN /\ some' = FALSE
        /\ UNCHANGED <<tx_buf, tx_in, tx_out, written, rx_buf, rx_in, rx_out>>
        /\ UNCHANGED <<irq_enable, timeout, in, out, n>>
    BY <1>1 DEF Call, Booting
  <2>2. left' \in 0 .. MaxCount
    BY <2>1 DEF JtagUartAssumption
  <2>3. ControlTypes'
    BY <2>1 DEF Inv, ControlTypes
  <2>4. CallTypes'
    BY <2>1, <2>2 DEF Inv, CallTypes
  <2>5. BufferTypes'
    BY <2>1 DEF Inv, BufferTypes
  <2>6. TxKicked' /\ RxOpen'
    BY <2>1 DEF Inv, TxKicked, RxOpen
  <2> QED BY <2>1, <2>3, <2>4, <2>5, <2>6, CallFrameInv DEF Inv
<1>2. CASE SetTimeout
  <2>1. /\ CallFrame /\ pc = "ready" /\ pc' = pc
        /\ UNCHANGED <<tx_buf, tx_in, tx_out, written, rx_buf, rx_in, rx_out>>
        /\ UNCHANGED <<irq_enable, in, out, n, left, some, nonblock>>
    BY <1>2 DEF SetTimeout, Booting
  <2>2. timeout' \in 2 .. IntMax
    <3>1. PICK t \in Timeouts : timeout' = IF t >= 2 /\ t < IntMax THEN t ELSE IntMax - 1
      BY <1>2 DEF SetTimeout
    <3>2. t \in 0 .. IntMax /\ IntMax \in Nat /\ IntMax >= 4
      BY DEF JtagUartAssumption
    <3> QED BY <3>1, <3>2
  <2>3. ControlTypes'
    BY <2>1, <2>2 DEF Inv, ControlTypes
  <2>4. CallTypes' /\ BufferTypes'
    BY <2>1 DEF Inv, CallTypes, BufferTypes
  <2>5. TxKicked' /\ RxOpen'
    BY <2>1 DEF Inv, TxKicked, RxOpen
  <2> QED BY <2>1, <2>3, <2>4, <2>5, CallFrameInv DEF Inv
<1> QED BY <1>1, <1>2

\* A length fits the buffer, and what is asked for.
LEMMA RoomFits ==
  ASSUME JtagUartAssumption, NEW i \in Index, NEW o \in Index
  PROVE  Room(i, o) \in 0 .. BufLen
<1>1. i \in Nat /\ o \in Nat /\ i < BufLen /\ o < BufLen /\ BufLen \in Nat
  BY DEF Index, JtagUartAssumption
<1> QED BY <1>1 DEF Room

\* A piece is no more than is wanted, nor than fits.
LEMMA MinFits ==
  ASSUME JtagUartAssumption, NEW a \in 0 .. BufLen, NEW b \in 0 .. MaxCount
  PROVE  Min2(a, b) \in 0 .. BufLen /\ Min2(a, b) <= b
BY DEF Min2, JtagUartAssumption

\* What is left of a call after a piece.
LEMMA LessLeft ==
  ASSUME JtagUartAssumption, CallTypes, n <= left
  PROVE  left - n \in 0 .. MaxCount
BY DEF CallTypes, JtagUartAssumption

\* The locals of a call that returns, or goes on.
LEMMA GoToTypes ==
  ASSUME JtagUartAssumption, Inv, NEW next \in {"ready", "w_wait", "w_look", "r_look"},
         GoTo(next, callVars)
  PROVE  CallTypes' /\ pc' = next
<1>1. pc' = next
  BY DEF GoTo
<1>2. CASE next = "ready"
  <2>1. in' = 0 /\ out' = 0 /\ n' = 0 /\ left' = 0 /\ some' = FALSE /\ nonblock' = FALSE
    BY <1>2 DEF GoTo, NoCall
  <2>2. 0 \in Index /\ 0 \in 0 .. BufLen /\ 0 \in 0 .. MaxCount
    BY DEF Index, JtagUartAssumption
  <2> QED BY <1>1, <1>2, <2>1, <2>2 DEF CallTypes
<1>3. CASE next # "ready"
  <2>1. UNCHANGED <<in, out, n, left, some, nonblock>>
    BY <1>3 DEF GoTo, callVars
  <2> QED BY <1>1, <2>1 DEF Inv, CallTypes
<1> QED BY <1>1, <1>2, <1>3

\* A step of write.
LEMMA WriteInv ==
  ASSUME JtagUartAssumption, Inv, Write
  PROVE  Inv'
<1> USE DEF CallFrame, Program, Booting,
            bootVars, txVars, rxVars, hostVars, timeVars, isrVars
<1>1. CASE WriteLook
  <2>1. /\ CallFrame /\ pc = "w_look" /\ pc' \in {"w_kick", "w_copy"}
        /\ in' = tx_in /\ out' = tx_out /\ n' = Min2(Room(tx_in, tx_out), left)
        /\ UNCHANGED <<tx_buf, tx_in, tx_out, written, rx_buf, rx_in, rx_out>>
        /\ UNCHANGED <<irq_enable, timeout, left, some, nonblock>>
    BY <1>1 DEF WriteLook
  <2>2. tx_in \in Index /\ tx_out \in Index /\ left \in 0 .. MaxCount
    BY DEF Inv, BufferTypes, CallTypes
  <2>3. n' \in 0 .. BufLen /\ n' <= left'
    BY <2>1, <2>2, RoomFits, MinFits
  <2>4. CallTypes'
    BY <2>1, <2>2, <2>3 DEF Inv, CallTypes
  <2>5. ControlTypes' /\ BufferTypes'
    BY <2>1 DEF Inv, ControlTypes, BufferTypes
  <2>6. TxKicked' /\ RxOpen'
    BY <2>1 DEF Inv, TxKicked, RxOpen
  <2> QED BY <2>1, <2>4, <2>5, <2>6, CallFrameInv DEF Inv
<1>2. CASE WriteCopy
  <2>1. /\ CallFrame /\ pc = "w_copy" /\ pc' = "w_in"
        /\ tx_buf' = [i \in Index |-> IF i \in in .. in + n - 1 THEN written + 1 + i - in
                                                              ELSE tx_buf[i]]
        /\ UNCHANGED <<tx_in, tx_out, written, rx_buf, rx_in, rx_out>>
        /\ UNCHANGED <<irq_enable, timeout, in, out, n, left, some, nonblock>>
    BY <1>2 DEF WriteCopy, callVars
  <2>2. tx_buf' \in [Index -> Nat]
    <3>1. in \in Nat /\ n \in Nat /\ written \in Nat
      BY DEF Inv, CallTypes, BufferTypes, Index, JtagUartAssumption
    <3>2. \A i \in Index : i \in Nat /\ tx_buf[i] \in Nat
      BY DEF Inv, BufferTypes, Index
    <3>3. \A i \in Index : i \in in .. in + n - 1 => written + 1 + i - in \in Nat
      BY <3>1, <3>2
    <3> QED BY <2>1, <3>2, <3>3
  <2>3. ControlTypes' /\ CallTypes'
    BY <2>1 DEF Inv, ControlTypes, CallTypes
  <2>4. BufferTypes'
    BY <2>1, <2>2 DEF Inv, BufferTypes
  <2>5. TxKicked' /\ RxOpen'
    BY <2>1 DEF Inv, TxKicked, RxOpen
  <2> QED BY <2>1, <2>3, <2>4, <2>5, CallFrameInv DEF Inv
<1>3. CASE WriteIn
  <2>1. /\ CallFrame /\ pc = "w_in" /\ pc' = "w_look"
        /\ tx_in' = After(in, n) /\ written' = written + n /\ left' = left - n /\ some' = TRUE
        /\ UNCHANGED <<tx_buf, tx_out, rx_buf, rx_in, rx_out>>
        /\ UNCHANGED <<irq_enable, timeout, in, out, n, nonblock>>
    BY <1>3 DEF WriteIn
  <2>2. in \in Index /\ n \in Nat /\ n <= left /\ written \in Nat
    BY <2>1 DEF Inv, CallTypes, BufferTypes, JtagUartAssumption
  <2>3. tx_in' \in Index /\ written' \in Nat /\ left' \in 0 .. MaxCount
    BY <2>1, <2>2, AfterInRing, LessLeft DEF Inv
  <2>4. ControlTypes'
    BY <2>1 DEF Inv, ControlTypes
  <2>5. CallTypes'
    BY <2>1, <2>3 DEF Inv, CallTypes
  <2>6. BufferTypes'
    BY <2>1, <2>3 DEF Inv, BufferTypes
  <2>7. TxKicked' /\ RxOpen'
    BY <2>1 DEF Inv, TxKicked, RxOpen
  <2> QED BY <2>1, <2>4, <2>5, <2>6, <2>7, CallFrameInv DEF Inv
<1>4. CASE WriteKick
  <2>1. /\ pc = "w_kick" /\ isr = "none" /\ isr' = isr
        /\ irq_enable' = irq_enable \union {"WE"}
        /\ GoTo(IF left > 0 /\ ~nonblock THEN "w_wait" ELSE "ready", callVars)
        /\ UNCHANGED <<tx_buf, tx_in, tx_out, written, rx_buf, rx_in, rx_out, timeout>>
    BY <1>4 DEF WriteKick, Kick
  <2>2. CallTypes' /\ pc' \in {"w_wait", "ready"}
    BY <2>1, GoToTypes
  <2>3. CallFrame
    BY <1>4, <2>1, <2>2 DEF WriteKick
  <2>4. ControlTypes' /\ BufferTypes'
    BY <2>1, <2>2, <2>3 DEF Inv, ControlTypes, BufferTypes
  <2>5. TxKicked' /\ RxOpen'
    BY <2>1, <2>2 DEF Inv, TxKicked, RxOpen
  <2> QED BY <2>2, <2>3, <2>4, <2>5, CallFrameInv DEF Inv
<1>5. CASE WriteWait
  <2>1. /\ CallFrame /\ pc = "w_wait" /\ pc' = "w_check"
        /\ UNCHANGED <<tx_buf, tx_in, tx_out, written, rx_buf, rx_in, rx_out>>
        /\ UNCHANGED <<irq_enable, timeout, in, out, n, left, some, nonblock>>
    BY <1>5 DEF WriteWait, callVars
  <2>2. ControlTypes' /\ CallTypes' /\ BufferTypes'
    BY <2>1 DEF Inv, ControlTypes, CallTypes, BufferTypes
  <2>3. TxKicked' /\ RxOpen'
    BY <2>1 DEF Inv, TxKicked, RxOpen
  <2> QED BY <2>1, <2>2, <2>3, CallFrameInv DEF Inv
<1>6. CASE WriteCheck
  <2>1. /\ pc = "w_check" /\ isr = "none" /\ isr' = isr
        /\ GoTo(IF host_inactive > 0 THEN "ready" ELSE "w_look", callVars)
        /\ UNCHANGED <<tx_buf, tx_in, tx_out, written, rx_buf, rx_in, rx_out>>
        /\ UNCHANGED <<irq_enable, timeout>>
    BY <1>6 DEF WriteCheck
  <2>2. CallTypes' /\ pc' \in {"w_look", "ready"}
    BY <2>1, GoToTypes
  <2>3. CallFrame
    BY <1>6, <2>1, <2>2 DEF WriteCheck
  <2>4. ControlTypes' /\ BufferTypes'
    BY <2>1, <2>2, <2>3 DEF Inv, ControlTypes, BufferTypes
  <2>5. TxKicked' /\ RxOpen'
    BY <2>1, <2>2 DEF Inv, TxKicked, RxOpen
  <2> QED BY <2>2, <2>3, <2>4, <2>5, CallFrameInv DEF Inv
<1> QED BY <1>1, <1>2, <1>3, <1>4, <1>5, <1>6 DEF Write
-----------------------------------------------------------------------------
\* A step of read.
LEMMA ReadInv ==
  ASSUME JtagUartAssumption, Inv, Read
  PROVE  Inv'
<1> USE DEF CallFrame, Program, Booting,
            bootVars, txVars, rxVars, hostVars, timeVars, isrVars
<1>1. CASE ReadLook
  <2> DEFINE all == IF rx_in >= rx_out THEN rx_in - rx_out ELSE BufLen - rx_out
             k == Min2(all, left)
  <2>1. /\ pc = "r_look" /\ isr = "none" /\ isr' = isr
        /\ UNCHANGED <<tx_buf, tx_in, tx_out, written, rx_buf, rx_in, rx_out>>
        /\ UNCHANGED <<irq_enable, timeout>>
    BY <1>1 DEF ReadLook
  <2>2. rx_in \in Index /\ rx_out \in Index /\ left \in 0 .. MaxCount
    BY DEF Inv, BufferTypes, CallTypes
  <2>3. all \in 0 .. BufLen
    BY <2>2 DEF Index, JtagUartAssumption
  <2>4. k \in 0 .. BufLen /\ k <= left
    BY <2>2, <2>3, MinFits
  <2>5. CASE k = 0 /\ ~some /\ nonblock
    <3>1. pc' = "ready" /\ NoCall
      BY <1>1, <2>5 DEF ReadLook
    <3>2. 0 \in Index /\ 0 \in 0 .. BufLen /\ 0 \in 0 .. MaxCount
      BY DEF Index, JtagUartAssumption
    <3>3. CallTypes'
      BY <3>1, <3>2 DEF NoCall, CallTypes
    <3>4. CallFrame
      BY <1>1, <2>1, <3>1 DEF ReadLook
    <3>5. ControlTypes' /\ BufferTypes'
      BY <2>1, <3>1, <3>4 DEF Inv, ControlTypes, BufferTypes
    <3>6. TxKicked' /\ RxOpen'
      BY <2>1, <2>5, <3>1 DEF Inv, TxKicked, RxOpen
    <3> QED BY <3>3, <3>4, <3>5, <3>6, CallFrameInv DEF Inv
  <2>6. CASE ~(k = 0 /\ ~some /\ nonblock)
    <3>1. /\ in' = rx_in /\ out' = rx_out /\ n' = k
          /\ pc' = IF k > 0 THEN "r_out" ELSE IF some THEN "r_enable" ELSE "r_wait"
          /\ UNCHANGED <<left, some, nonblock>>
      BY <1>1, <2>6 DEF ReadLook
    <3>2. k > 0 => rx_in # rx_out
      BY <2>2 DEF Min2, Index
    <3> HIDE DEF k
    <3>3. pc' \in {"r_out", "r_enable", "r_wait"}
      BY <3>1
    <3>4. CallTypes'
      BY <2>2, <2>4, <3>1, <3>3 DEF Inv, CallTypes
    <3>5. CallFrame
      BY <1>1, <2>1, <3>3 DEF ReadLook
    <3>6. ControlTypes' /\ BufferTypes'
      BY <2>1, <3>3, <3>5 DEF Inv, ControlTypes, BufferTypes
    <3>7. TxKicked'
      BY <2>1 DEF Inv, TxKicked
    <3>8. RxOpen'
      <4>1. "RE" \in irq_enable \/ rx_in # rx_out \/ some
        BY <2>1 DEF Inv, RxOpen
      <4> QED BY <2>1, <3>1, <3>2, <4>1 DEF RxOpen
    <3> QED BY <3>4, <3>5, <3>6, <3>7, <3>8, CallFrameInv DEF Inv
  <2> QED BY <2>5, <2>6
<1>2. CASE ReadOut
  <2>1. /\ pc = "r_out" /\ isr = "none" /\ isr' = isr
        /\ rx_out' = After(out, n) /\ left' = left - n /\ some' = TRUE
        /\ pc' \in {"r_look", "r_enable"}
        /\ UNCHANGED <<tx_buf, tx_in, tx_out, written, rx_buf, rx_in>>
        /\ UNCHANGED <<irq_enable, timeout, in, out, n, nonblock>>
    BY <1>2 DEF ReadOut
  <2>2. out \in Index /\ n \in Nat /\ n <= left
    BY <2>1 DEF Inv, CallTypes, JtagUartAssumption
  <2>3. rx_out' \in Index /\ left' \in 0 .. MaxCount
    BY <2>1, <2>2, AfterInRing, LessLeft DEF Inv
  <2>4. CallFrame
    BY <1>2, <2>1 DEF ReadOut
  <2>5. ControlTypes'
    BY <2>1, <2>4 DEF Inv, ControlTypes
  <2>6. CallTypes'
    BY <2>1, <2>3 DEF Inv, CallTypes
  <2>7. BufferTypes'
    BY <2>1, <2>3 DEF Inv, BufferTypes
  <2>8. TxKicked' /\ RxOpen'
    BY <2>1 DEF Inv, TxKicked, RxOpen
  <2> QED BY <2>4, <2>5, <2>6, <2>7, <2>8, CallFrameInv DEF Inv
<1>3. CASE ReadEnable
  <2>1. /\ pc = "r_enable" /\ isr = "none" /\ isr' = isr
        /\ irq_enable' = irq_enable \union {"RE"} /\ GoTo("ready", callVars)
        /\ UNCHANGED <<tx_buf, tx_in, tx_out, written, rx_buf, rx_in, rx_out, timeout>>
    BY <1>3 DEF ReadEnable, EnableRead
  <2>2. CallTypes' /\ pc' = "ready"
    BY <2>1, GoToTypes
  <2>3. CallFrame
    BY <1>3, <2>1, <2>2 DEF ReadEnable
  <2>4. ControlTypes' /\ BufferTypes'
    BY <2>1, <2>2, <2>3 DEF Inv, ControlTypes, BufferTypes
  <2>5. TxKicked' /\ RxOpen'
    BY <2>1, <2>2 DEF Inv, TxKicked, RxOpen
  <2> QED BY <2>2, <2>3, <2>4, <2>5, CallFrameInv DEF Inv
<1>4. CASE ReadWait
  <2>1. /\ CallFrame /\ pc = "r_wait" /\ pc' = "r_check"
        /\ UNCHANGED <<tx_buf, tx_in, tx_out, written, rx_buf, rx_in, rx_out>>
        /\ UNCHANGED <<irq_enable, timeout, in, out, n, left, some, nonblock>>
    BY <1>4 DEF ReadWait, callVars
  <2>2. ControlTypes' /\ CallTypes' /\ BufferTypes'
    BY <2>1 DEF Inv, ControlTypes, CallTypes, BufferTypes
  <2>3. TxKicked' /\ RxOpen'
    BY <2>1 DEF Inv, TxKicked, RxOpen
  <2> QED BY <2>1, <2>2, <2>3, CallFrameInv DEF Inv
<1>5. CASE ReadCheck
  <2>1. /\ pc = "r_check" /\ isr = "none" /\ isr' = isr
        /\ GoTo(IF in = rx_in THEN "ready" ELSE "r_look", callVars)
        /\ UNCHANGED <<tx_buf, tx_in, tx_out, written, rx_buf, rx_in, rx_out>>
        /\ UNCHANGED <<irq_enable, timeout>>
    BY <1>5 DEF ReadCheck
  <2>2. CallTypes' /\ pc' \in {"r_look", "ready"}
    BY <2>1, GoToTypes
  <2>3. CallFrame
    BY <1>5, <2>1, <2>2 DEF ReadCheck
  <2>4. ControlTypes' /\ BufferTypes'
    BY <2>1, <2>2, <2>3 DEF Inv, ControlTypes, BufferTypes
  <2>5. TxKicked' /\ RxOpen'
    BY <2>1, <2>2 DEF Inv, TxKicked, RxOpen
  <2> QED BY <2>2, <2>3, <2>4, <2>5, CallFrameInv DEF Inv
<1> QED BY <1>1, <1>2, <1>3, <1>4, <1>5 DEF Read

\* A step of close.
LEMMA CloseInv ==
  ASSUME JtagUartAssumption, Inv, CloseWait
  PROVE  Inv'
<1> USE DEF CallFrame, Program, Booting,
            bootVars, txVars, rxVars, hostVars, timeVars, isrVars
<1>1. /\ pc = "c_wait" /\ isr = "none" /\ isr' = isr /\ GoTo("ready", callVars)
      /\ UNCHANGED <<tx_buf, tx_in, tx_out, written, rx_buf, rx_in, rx_out>>
      /\ UNCHANGED <<irq_enable, timeout>>
  BY DEF CloseWait
<1>2. CallTypes' /\ pc' = "ready"
  BY <1>1, GoToTypes
<1>3. CallFrame
  BY <1>1, <1>2 DEF CloseWait
<1>4. ControlTypes' /\ BufferTypes'
  BY <1>1, <1>2, <1>3 DEF Inv, ControlTypes, BufferTypes
<1>5. TxKicked' /\ RxOpen'
  BY <1>1, <1>2 DEF Inv, TxKicked, RxOpen
<1> QED BY <1>2, <1>3, <1>4, <1>5, CallFrameInv DEF Inv
-----------------------------------------------------------------------------
(* The handlers *)

\* A step of a handler keeps what it does not touch.
LEMMA HandlerFrameInv ==
  ASSUME Inv, UNCHANGED <<pc, ienable, handlers, in, out, n, left, some, nonblock>>,
         isr # "none" \/ pc # "irq_init"
  PROVE  CallTypes' /\ Lined'
BY DEF Inv, CallTypes, Lined

\* A step of the handler that receives.
LEMMA ReceiveInv ==
  ASSUME JtagUartAssumption, Inv, Receive \/ ReceiveEnd
  PROVE  Inv'
<1> USE DEF Handler, bootVars, txVars, rxVars, hostVars, timeVars, callVars, isrVars
<1>1. CASE Receive
  <2>1. /\ isr = "rx"
        /\ UNCHANGED <<pc, ienable, handlers, alarm, in, out, n, left, some, nonblock>>
        /\ UNCHANGED <<tpend, tx_buf, tx_in, tx_out, written, wfifo, ac, sent>>
        /\ UNCHANGED <<irq_enable, host_inactive, timeout, wi, space>>
    BY <1>1 DEF Receive
  <2>2. CallTypes' /\ Lined'
    BY <2>1, HandlerFrameInv
  <2>3. BootEmpty' /\ TxKicked'
    BY <2>1 DEF Inv, BootEmpty, TxKicked
  <2>4. CASE Full
    <3>1. isr' = "rx_end" /\ UNCHANGED <<rx_buf, rx_in, rx_out, rfifo, ravail>>
      BY <1>1, <2>4 DEF Receive
    <3>2. ControlTypes' /\ BufferTypes'
      BY <2>1, <3>1 DEF Inv, ControlTypes, BufferTypes
    <3>3. FifoTypes'
      BY <2>1, <3>1 DEF Inv, FifoTypes
    <3>4. RxOpen'
      BY <2>1, <3>1 DEF Inv, RxOpen
    <3>5. LeftIfFull'
      BY <2>4, <3>1 DEF LeftIfFull, Full, After
    <3> QED BY <2>2, <2>3, <3>2, <3>3, <3>4, <3>5 DEF Inv
  <2>5. CASE ~Full /\ rfifo = <<>>
    <3>1. /\ isr' = "rx_end" /\ ravail' = FALSE
          /\ UNCHANGED <<rx_buf, rx_in, rx_out, rfifo>>
      BY <1>1, <2>5 DEF Receive
    <3>2. ControlTypes' /\ BufferTypes'
      BY <2>1, <3>1 DEF Inv, ControlTypes, BufferTypes
    <3>3. FifoTypes'
      BY <2>1, <3>1 DEF Inv, FifoTypes
    <3>4. RxOpen' /\ LeftIfFull'
      BY <2>1, <3>1 DEF Inv, RxOpen, LeftIfFull
    <3> QED BY <2>2, <2>3, <3>2, <3>3, <3>4 DEF Inv
  <2>6. CASE ~Full /\ rfifo # <<>>
    <3>1. /\ rx_buf' = [rx_buf EXCEPT ![rx_in] = Head(rfifo)]
          /\ rx_in' = After(rx_in, 1) /\ rfifo' = Tail(rfifo)
          /\ ravail' = (rfifo' # <<>>) /\ isr' = isr /\ rx_out' = rx_out
      BY <1>1, <2>6 DEF Receive
    <3>2. rfifo \in Seq(Nat) /\ Len(rfifo) <= ReadDepth /\ ReadDepth \in Nat
      BY DEF Inv, FifoTypes, JtagUartAssumption
    <3>3. /\ Head(rfifo) \in Nat /\ Tail(rfifo) \in Seq(Nat)
          /\ Len(Tail(rfifo)) <= ReadDepth
      BY <2>6, <3>2
    <3>4. rx_in \in Index /\ rx_out \in Index /\ rx_buf \in [Index -> Nat]
      BY DEF Inv, BufferTypes
    <3>5. rx_in' \in Index /\ rx_buf' \in [Index -> Nat]
      BY <3>1, <3>3, <3>4, AfterInRing
    <3>6. ControlTypes'
      BY <2>1, <3>1 DEF Inv, ControlTypes
    <3>7. BufferTypes'
      BY <2>1, <3>1, <3>5 DEF Inv, BufferTypes
    <3>8. FifoTypes'
      BY <2>1, <3>1, <3>3 DEF Inv, FifoTypes
    <3>9. LeftIfFull'
      BY <2>1, <3>1 DEF LeftIfFull
    <3>10. RxOpen'
      BY <2>6, <3>1 DEF Full, RxOpen
    <3> QED BY <2>2, <2>3, <3>6, <3>7, <3>8, <3>9, <3>10 DEF Inv
  <2> QED BY <2>4, <2>5, <2>6
<1>2. CASE ReceiveEnd
  <2>1. /\ isr = "rx_end" /\ isr' \in {"tx", "control"} /\ ravail' = FALSE
        /\ irq_enable' = IF ravail THEN irq_enable \ {"RE"} ELSE irq_enable
        /\ UNCHANGED <<pc, ienable, handlers, alarm, in, out, n, left, some, nonblock>>
        /\ UNCHANGED <<tpend, tx_buf, tx_in, tx_out, written, rx_buf, rx_in, rx_out>>
        /\ UNCHANGED <<wfifo, rfifo, ac, sent, host_inactive, timeout, wi, space>>
    BY <1>2 DEF ReceiveEnd
  <2>2. CallTypes' /\ Lined'
    BY <2>1, HandlerFrameInv
  <2>3. ControlTypes' /\ BufferTypes'
    BY <2>1 DEF Inv, ControlTypes, BufferTypes
  <2>4. FifoTypes' /\ BootEmpty' /\ LeftIfFull'
    BY <2>1 DEF Inv, FifoTypes, BootEmpty, LeftIfFull
  <2>5. "WE" \in irq_enable => "WE" \in irq_enable'
    BY <2>1
  <2>6. TxKicked'
    BY <2>1, <2>5 DEF Inv, TxKicked
  <2>7. RxOpen'
    <3>1. CASE ravail
      <4>1. rx_in # rx_out
        BY <2>1, <3>1, FullNotEmpty DEF Inv, LeftIfFull
      <4> QED BY <2>1, <4>1 DEF RxOpen
    <3>2. CASE ~ravail
      BY <2>1, <3>2 DEF Inv, RxOpen
    <3> QED BY <3>1, <3>2
  <2> QED BY <2>2, <2>3, <2>4, <2>6, <2>7 DEF Inv
<1> QED BY <1>1, <1>2
\* A step of the handler that transmits.
LEMMA TransmitInv ==
  ASSUME JtagUartAssumption, Inv, Transmit \/ TransmitEnd
  PROVE  Inv'
<1> USE DEF Handler, bootVars, txVars, rxVars, hostVars, timeVars, callVars, isrVars
<1>1. CASE Transmit
  <2>1. /\ isr = "tx" /\ isr' = isr /\ space > 0 /\ tx_out # tx_in
        /\ wfifo' = Append(wfifo, tx_buf[tx_out])
        /\ tx_out' = After(tx_out, 1) /\ space' = space - 1
        /\ UNCHANGED <<pc, ienable, handlers, alarm, in, out, n, left, some, nonblock>>
        /\ UNCHANGED <<tpend, tx_buf, tx_in, written, rx_buf, rx_in, rx_out>>
        /\ UNCHANGED <<rfifo, ac, sent, irq_enable, host_inactive, timeout, wi, ravail>>
    BY <1>1 DEF Transmit
  <2>2. CallTypes' /\ Lined'
    BY <2>1, HandlerFrameInv
  <2>3. tx_out \in Index /\ tx_buf[tx_out] \in Nat
    BY DEF Inv, BufferTypes
  <2>4. tx_out' \in Index
    BY <2>1, <2>3, AfterInRing
  <2>5. ControlTypes'
    BY <2>1 DEF Inv, ControlTypes
  <2>6. BufferTypes'
    BY <2>1, <2>4 DEF Inv, BufferTypes
  <2>7. FifoTypes'
    <3>1. /\ wfifo \in Seq(Nat) /\ space \in 0 .. WriteDepth /\ WriteDepth \in Nat
          /\ Len(wfifo) + space <= WriteDepth
      BY DEF Inv, FifoTypes, JtagUartAssumption
    <3>2. wfifo' \in Seq(Nat) /\ Len(wfifo') = Len(wfifo) + 1
      BY <2>1, <2>3, <3>1
    <3>3. Len(wfifo) \in Nat
      BY <3>1
    <3>4. space' \in 0 .. WriteDepth /\ Len(wfifo') + space' <= WriteDepth
      BY <2>1, <3>1, <3>2, <3>3
    <3> QED BY <2>1, <3>2, <3>4 DEF Inv, FifoTypes
  <2>8. BootEmpty' /\ TxKicked'
    BY <2>1 DEF Inv, BootEmpty, TxKicked
  <2>9. RxOpen' /\ LeftIfFull'
    BY <2>1 DEF Inv, RxOpen, LeftIfFull
  <2> QED BY <2>2, <2>5, <2>6, <2>7, <2>8, <2>9 DEF Inv
<1>2. CASE TransmitEnd
  <2>1. /\ isr = "tx" /\ isr' = "control" /\ wi' = FALSE /\ space' = 0
        /\ space = 0 \/ tx_out = tx_in
        /\ irq_enable' = IF space > 0 THEN irq_enable \ {"WE"} ELSE irq_enable
        /\ UNCHANGED <<pc, ienable, handlers, alarm, in, out, n, left, some, nonblock>>
        /\ UNCHANGED <<tpend, tx_buf, tx_in, tx_out, written, rx_buf, rx_in, rx_out>>
        /\ UNCHANGED <<wfifo, rfifo, ac, sent, host_inactive, timeout, ravail>>
    BY <1>2 DEF TransmitEnd, Stop
  <2>2. CallTypes' /\ Lined'
    BY <2>1, HandlerFrameInv
  <2>3. ControlTypes' /\ BufferTypes'
    BY <2>1 DEF Inv, ControlTypes, BufferTypes
  <2>4. FifoTypes'
    <3>1. /\ wfifo \in Seq(Nat) /\ space \in 0 .. WriteDepth /\ WriteDepth \in Nat
          /\ Len(wfifo) + space <= WriteDepth
      BY DEF Inv, FifoTypes, JtagUartAssumption
    <3>2. Len(wfifo) \in Nat
      BY <3>1
    <3>3. space' \in 0 .. WriteDepth /\ Len(wfifo') + space' <= WriteDepth
      BY <2>1, <3>1, <3>2
    <3> QED BY <2>1, <3>3 DEF Inv, FifoTypes
  <2>5. BootEmpty' /\ LeftIfFull'
    BY <2>1 DEF Inv, BootEmpty, LeftIfFull
  <2>6. "RE" \in irq_enable => "RE" \in irq_enable'
    BY <2>1
  <2>7. RxOpen'
    BY <2>1, <2>6 DEF Inv, RxOpen
  <2>8. TxKicked'
    <3>1. CASE space > 0
      <4>1. tx_out = tx_in
        BY <2>1, <3>1
      <4> QED BY <2>1, <4>1 DEF TxKicked
    <3>2. CASE ~(space > 0)
      BY <2>1, <3>2 DEF Inv, TxKicked
    <3> QED BY <3>1, <3>2
  <2> QED BY <2>2, <2>3, <2>4, <2>5, <2>7, <2>8 DEF Inv
<1> QED BY <1>1, <1>2

\* A step of the dispatcher, of the handlers' first look, and of the timer's handler.
LEMMA DispatchInv ==
  ASSUME JtagUartAssumption, Inv,
         Interrupt \/ alt_irq_handler \/ ReadControl \/ TimerIrq
  PROVE  Inv'
<1> USE DEF Handler, bootVars, txVars, rxVars, hostVars, timeVars, callVars, isrVars
<1>1. CASE Interrupt \/ alt_irq_handler
  <2>1. /\ isr # "none" \/ pc # "irq_init"
        /\ isr' \in {"none", "dispatch", "control", "timer"}
        /\ UNCHANGED <<pc, ienable, handlers, alarm, in, out, n, left, some, nonblock>>
        /\ UNCHANGED <<tpend, tx_buf, tx_in, tx_out, written, rx_buf, rx_in, rx_out>>
        /\ UNCHANGED <<wfifo, rfifo, ac, sent, irq_enable, host_inactive, timeout>>
        /\ UNCHANGED <<wi, space, ravail>>
    BY <1>1 DEF Interrupt, alt_irq_handler
  <2>2. CallTypes' /\ Lined'
    BY <2>1, HandlerFrameInv
  <2>3. ControlTypes' /\ BufferTypes'
    BY <2>1 DEF Inv, ControlTypes, BufferTypes
  <2>4. FifoTypes' /\ BootEmpty' /\ LeftIfFull'
    BY <2>1 DEF Inv, FifoTypes, BootEmpty, LeftIfFull
  <2>5. TxKicked' /\ RxOpen'
    BY <2>1 DEF Inv, TxKicked, RxOpen
  <2> QED BY <2>2, <2>3, <2>4, <2>5 DEF Inv
<1>2. CASE ReadControl
  <2>1. /\ isr = "control" /\ isr' \in {"rx", "tx", "dispatch"}
        /\ wi' \in BOOLEAN /\ ravail' \in BOOLEAN
        /\ space' = WriteDepth - Len(wfifo) \/ space' = 0
        /\ UNCHANGED <<pc, ienable, handlers, alarm, in, out, n, left, some, nonblock>>
        /\ UNCHANGED <<tpend, tx_buf, tx_in, tx_out, written, rx_buf, rx_in, rx_out>>
        /\ UNCHANGED <<wfifo, rfifo, ac, sent, irq_enable, host_inactive, timeout>>
    BY <1>2 DEF ReadControl, WI, RI
  <2>2. CallTypes' /\ Lined'
    BY <2>1, HandlerFrameInv
  <2>3. ControlTypes' /\ BufferTypes'
    BY <2>1 DEF Inv, ControlTypes, BufferTypes
  <2>4. FifoTypes'
    <3>1. /\ wfifo \in Seq(Nat) /\ space \in 0 .. WriteDepth /\ WriteDepth \in Nat
          /\ Len(wfifo) + space <= WriteDepth
      BY DEF Inv, FifoTypes, JtagUartAssumption
    <3>2. Len(wfifo) \in Nat
      BY <3>1
    <3>3. space' \in 0 .. WriteDepth /\ Len(wfifo') + space' <= WriteDepth
      BY <2>1, <3>1, <3>2
    <3> QED BY <2>1, <3>3 DEF Inv, FifoTypes
  <2>5. BootEmpty' /\ LeftIfFull'
    BY <2>1 DEF Inv, BootEmpty, LeftIfFull
  <2>6. TxKicked' /\ RxOpen'
    BY <2>1 DEF Inv, TxKicked, RxOpen
  <2> QED BY <2>2, <2>3, <2>4, <2>5, <2>6 DEF Inv
<1>3. CASE TimerIrq
  <2>1. /\ isr = "timer" /\ isr' = "dispatch" /\ tpend' = FALSE
        /\ UNCHANGED <<pc, ienable, handlers, alarm, in, out, n, left, some, nonblock>>
        /\ UNCHANGED <<tx_buf, tx_in, tx_out, written, rx_buf, rx_in, rx_out>>
        /\ UNCHANGED <<wfifo, rfifo, sent, irq_enable, timeout, wi, space, ravail>>
    BY <1>3 DEF TimerIrq
  <2>2. ac' \in BOOLEAN
    BY <1>3 DEF TimerIrq, Inv, ControlTypes
  <2>3. host_inactive' \in 0 .. IntMax - 2
    <3>1. host_inactive \in 0 .. IntMax - 2 /\ IntMax \in Nat /\ IntMax >= 4
      BY DEF Inv, ControlTypes, JtagUartAssumption
    <3>2. \/ host_inactive' = host_inactive \/ host_inactive' = 0
          \/ host_inactive < IntMax - 2 /\ host_inactive' = host_inactive + 1
      BY <1>3 DEF TimerIrq, CountInactive
    <3> QED BY <3>1, <3>2
  <2>4. CallTypes' /\ Lined'
    BY <2>1, HandlerFrameInv
  <2>5. ControlTypes'
    BY <2>1, <2>2, <2>3 DEF Inv, ControlTypes
  <2>6. BufferTypes' /\ FifoTypes'
    BY <2>1 DEF Inv, BufferTypes, FifoTypes
  <2>7. BootEmpty' /\ LeftIfFull'
    BY <2>1 DEF Inv, BootEmpty, LeftIfFull
  <2>8. TxKicked' /\ RxOpen'
    BY <2>1 DEF Inv, TxKicked, RxOpen
  <2> QED BY <2>4, <2>5, <2>6, <2>7, <2>8 DEF Inv
<1> QED BY <1>1, <1>2, <1>3
-----------------------------------------------------------------------------
(* Time and the host *)

\* Time and the host preserve the invariant.
LEMMA OutsideInv ==
  ASSUME JtagUartAssumption, Inv, Second \/ HostTakes \/ HostSends
  PROVE  Inv'
<1> USE DEF bootVars, txVars, rxVars, hostVars, timeVars, callVars, isrVars
<1>1. /\ UNCHANGED <<pc, isr, ienable, handlers, alarm, in, out, n, left, some, nonblock>>
      /\ UNCHANGED <<tx_buf, tx_in, tx_out, written, rx_buf, rx_in, rx_out>>
      /\ UNCHANGED <<irq_enable, host_inactive, timeout, wi, space, ravail>>
      /\ tpend' \in {tpend, TRUE} /\ ac' \in {ac, TRUE}
  BY DEF Second, HostTakes, HostSends
<1>2. ControlTypes' /\ CallTypes' /\ BufferTypes'
  <2>1. tpend' \in BOOLEAN /\ ac' \in BOOLEAN
    BY <1>1 DEF Inv, ControlTypes
  <2>2. ControlTypes'
    BY <1>1, <2>1 DEF Inv, ControlTypes
  <2>3. CallTypes' /\ BufferTypes'
    BY <1>1 DEF Inv, CallTypes, BufferTypes
  <2> QED BY <2>2, <2>3
<1>3. FifoTypes'
  <2>1. /\ wfifo \in Seq(Nat) /\ space \in 0 .. WriteDepth /\ WriteDepth \in Nat
        /\ Len(wfifo) + space <= WriteDepth
        /\ rfifo \in Seq(Nat) /\ Len(rfifo) <= ReadDepth /\ ReadDepth \in Nat
        /\ sent \in Nat
    BY DEF Inv, FifoTypes, JtagUartAssumption
  <2>2. CASE Second
    BY <1>1, <2>1, <2>2 DEF Second, FifoTypes
  <2>3. CASE HostTakes
    <3>1. wfifo' = Tail(wfifo) /\ wfifo # <<>> /\ UNCHANGED <<rfifo, sent>>
      BY <2>3 DEF HostTakes
    <3>2. Tail(wfifo) \in Seq(Nat) /\ Len(Tail(wfifo)) = Len(wfifo) - 1 /\ Len(wfifo) \in Nat
      BY <2>1, <3>1
    <3>3. Len(wfifo') + space <= WriteDepth
      BY <2>1, <3>1, <3>2
    <3> QED BY <1>1, <2>1, <3>1, <3>2, <3>3 DEF FifoTypes
  <2>4. CASE HostSends
    <3>1. /\ rfifo' = Append(rfifo, sent + 1) /\ sent' = sent + 1
          /\ Len(rfifo) < ReadDepth /\ wfifo' = wfifo
      BY <2>4 DEF HostSends
    <3>2. sent + 1 \in Nat
      BY <2>1
    <3>3. rfifo' \in Seq(Nat) /\ Len(rfifo') = Len(rfifo) + 1 /\ Len(rfifo) \in Nat
      BY <2>1, <3>1, <3>2
    <3>4. Len(rfifo') <= ReadDepth
      BY <2>1, <3>1, <3>3
    <3> QED BY <1>1, <2>1, <3>1, <3>2, <3>3, <3>4 DEF FifoTypes
  <2> QED BY <2>2, <2>3, <2>4
<1>4. Lined' /\ BootEmpty' /\ LeftIfFull'
  BY <1>1 DEF Inv, Lined, BootEmpty, LeftIfFull, Full, After
<1>5. TxKicked' /\ RxOpen'
  BY <1>1 DEF Inv, TxKicked, RxOpen
<1> QED BY <1>2, <1>3, <1>4, <1>5 DEF Inv
-----------------------------------------------------------------------------
\* Every step keeps the invariant.
LEMMA NextInv ==
  ASSUME JtagUartAssumption, Inv, [Next]_vars
  PROVE  Inv'
<1>1. CASE Next
  BY <1>1, BootInv, CallInv, WriteInv, ReadInv, CloseInv, ReceiveInv, TransmitInv,
     DispatchInv, OutsideInv DEF Next, Handle
<1>2. CASE UNCHANGED vars
  <2> USE <1>2 DEF vars, bootVars, txVars, rxVars, hostVars, timeVars, callVars, isrVars
  <2>1. ControlTypes'
    BY DEF Inv, ControlTypes
  <2>2. CallTypes' /\ BufferTypes'
    BY DEF Inv, CallTypes, BufferTypes
  <2>3. FifoTypes'
    BY DEF Inv, FifoTypes
  <2>4. Lined' /\ BootEmpty' /\ LeftIfFull'
    BY DEF Inv, Lined, BootEmpty, LeftIfFull, Full, After
  <2>5. TxKicked' /\ RxOpen'
    BY DEF Inv, TxKicked, RxOpen
  <2> QED BY <2>1, <2>2, <2>3, <2>4, <2>5 DEF Inv
<1> QED BY <1>1, <1>2

\* The invariant holds in every run of the driver.
THEOREM Invariance == Spec => []Inv
<1>1. Init => Inv
  BY InitInv, JtagUartAssumption
<1>2. Inv /\ [Next]_vars => Inv'
  BY NextInv, JtagUartAssumption
<1> QED BY <1>1, <1>2, PTL DEF Spec

\* The pointers stay inside the buffers, and no FIFO is given more than it holds: the room
\* the handler has read from the control register is still there when it uses it.
THEOREM TypeCorrect == Spec => []TypeOK
<1>1. Inv => TypeOK
  BY InvGives, JtagUartAssumption
<1> QED BY <1>1, Invariance, PTL

\* altera_avalon_jtag_uart_write never leaves characters behind that no interrupt will send.
THEOREM TxAlwaysKicked == Spec => []TxKicked
<1>1. Inv => TxKicked
  BY DEF Inv
<1> QED BY <1>1, Invariance, PTL

\* Read interrupts that the handler turns off because the buffer is full come on again.
THEOREM RxAlwaysOpen == Spec => []RxOpen
<1>1. Inv => RxOpen
  BY DEF Inv
<1> QED BY <1>1, Invariance, PTL

\* alt_main enables interrupts while the devices come up, and none arrives that nobody serves.
THEOREM AllServed == Spec => []Served
<1>1. Inv => Served
  BY InvGives, JtagUartAssumption
<1> QED BY <1>1, Invariance, PTL
-----------------------------------------------------------------------------
(* The ring buffers *)

\* How many cells lie between two pointers, and the k-th of them.
Filled(o, i) == (i + BufLen - o) % BufLen
Cell(o, k) == (o + k - 1) % BufLen

\* The modulus of a number that goes round at most once.
LEMMA ModOnce ==
  ASSUME NEW m \in Nat, m > 0, NEW x \in Nat, x < 2 * m
  PROVE  x % m = IF x < m THEN x ELSE x - m
<1>1. CASE x < m  BY <1>1
<1>2. CASE x >= m  BY <1>2
<1> QED  BY <1>1, <1>2

\* Between two pointers: the difference, or what the turn adds to it.
LEMMA FilledIs ==
  ASSUME JtagUartAssumption, NEW o \in Index, NEW i \in Index
  PROVE  /\ Filled(o, i) = IF i >= o THEN i - o ELSE i + BufLen - o
         /\ Filled(o, i) \in 0 .. BufLen - 1
<1>1. /\ o \in Nat /\ i \in Nat /\ o < BufLen /\ i < BufLen /\ BufLen \in Nat /\ BufLen > 0
      /\ i + BufLen - o \in Nat /\ i + BufLen - o < 2 * BufLen
  BY DEF Index, JtagUartAssumption
<1>2. Filled(o, i) = IF i + BufLen - o < BufLen THEN i + BufLen - o ELSE i + BufLen - o - BufLen
  BY <1>1, ModOnce DEF Filled
<1> QED  BY <1>1, <1>2

\* The k-th cell from a pointer is in the ring.
LEMMA CellIs ==
  ASSUME JtagUartAssumption, NEW o \in Index, NEW k \in 1 .. BufLen
  PROVE  /\ Cell(o, k) = IF o + k - 1 < BufLen THEN o + k - 1 ELSE o + k - 1 - BufLen
         /\ Cell(o, k) \in Index
<1>1. /\ o \in Nat /\ o < BufLen /\ BufLen \in Nat /\ BufLen > 0 /\ k \in Nat
      /\ o + k - 1 \in Nat /\ o + k - 1 < 2 * BufLen
  BY DEF Index, JtagUartAssumption
<1>2. Cell(o, k) = IF o + k - 1 < BufLen THEN o + k - 1 ELSE o + k - 1 - BufLen
  BY <1>1, ModOnce DEF Cell
<1> QED  BY <1>1, <1>2 DEF Index

\* A pointer that reaches the end goes back to the start.
LEMMA AfterIs ==
  ASSUME JtagUartAssumption, NEW i \in Index, NEW k \in 0 .. BufLen, i + k <= BufLen
  PROVE  After(i, k) = IF i + k < BufLen THEN i + k ELSE 0
<1>1. /\ i \in Nat /\ i < BufLen /\ BufLen \in Nat /\ BufLen > 0 /\ k \in Nat
      /\ i + k \in Nat /\ i + k < 2 * BufLen
  BY DEF Index, JtagUartAssumption
<1>2. After(i, k) = IF i + k < BufLen THEN i + k ELSE i + k - BufLen
  BY <1>1, ModOnce DEF After
<1> QED  BY <1>1, <1>2

\* A table of numbers from 1 on is a sequence of them.
LEMMA TableIsSeq ==
  ASSUME NEW m \in Nat, NEW s \in [1 .. m -> Nat]
  PROVE  s \in Seq(Nat) /\ Len(s) = m
OBVIOUS

\* What a buffer holds, cell by cell.
LEMMA RingIs ==
  ASSUME JtagUartAssumption, NEW buf \in [Index -> Nat], NEW o \in Index, NEW i \in Index
  PROVE  /\ Ring(buf, o, i) \in Seq(Nat)
         /\ Len(Ring(buf, o, i)) = Filled(o, i)
         /\ \A k \in 1 .. Filled(o, i) : Ring(buf, o, i)[k] = buf[Cell(o, k)]
<1>1. Ring(buf, o, i) = [k \in 1 .. Filled(o, i) |-> buf[Cell(o, k)]]
  BY DEF Ring, Filled, Cell
<1>2. Filled(o, i) \in Nat /\ Filled(o, i) <= BufLen /\ BufLen \in Nat
  BY FilledIs DEF JtagUartAssumption
<1>3. \A k \in 1 .. Filled(o, i) : buf[Cell(o, k)] \in Nat
  BY <1>2, CellIs, SMTT(30)
<1> HIDE DEF Ring
<1>4. \A k \in 1 .. Filled(o, i) : Ring(buf, o, i)[k] = buf[Cell(o, k)]
  BY <1>1
<1>5. Ring(buf, o, i) \in [1 .. Filled(o, i) -> Nat]
  BY <1>1, <1>3
<1>6. /\ Ring(buf, o, i) \in Seq(Nat)
      /\ Len(Ring(buf, o, i)) = Filled(o, i)
  BY <1>2, <1>5, TableIsSeq
<1> QED  BY <1>4, <1>6

\* A sequence behind another one.
LEMMA ConcatIs ==
  ASSUME NEW s \in Seq(Nat), NEW t \in Seq(Nat)
  PROVE  /\ s \o t \in Seq(Nat) /\ Len(s \o t) = Len(s) + Len(t)
         /\ \A j \in 1 .. Len(s) + Len(t) :
              (s \o t)[j] = IF j <= Len(s) THEN s[j] ELSE t[j - Len(s)]
OBVIOUS

\* Two sequences are equal if they are so element by element.
LEMMA SameSeq ==
  ASSUME NEW s \in Seq(Nat), NEW t \in Seq(Nat), Len(s) = Len(t),
         \A k \in 1 .. Len(s) : s[k] = t[k]
  PROVE  s = t
OBVIOUS

\* The k cells from the i-th on.
Piece(buf, i, k) == [j \in 1 .. k |-> buf[i + j - 1]]

\* A pointer that moves on fills k cells.
LEMMA RingPut ==
  ASSUME JtagUartAssumption, NEW buf \in [Index -> Nat], NEW o \in Index, NEW i \in Index,
         NEW k \in 1 .. BufLen, i + k <= BufLen, Filled(o, i) + k <= BufLen - 1
  PROVE  /\ Filled(o, After(i, k)) = Filled(o, i) + k
         /\ Ring(buf, o, After(i, k)) = Ring(buf, o, i) \o Piece(buf, i, k)
<1> DEFINE r == Ring(buf, o, i)
           new == Piece(buf, i, k)
           f == Filled(o, i)
<1>1. /\ o \in Nat /\ i \in Nat /\ o < BufLen /\ i < BufLen /\ BufLen \in Nat /\ k \in Nat
      /\ k >= 1
  BY DEF Index, JtagUartAssumption
<1>2. After(i, k) \in Index
  BY <1>1, AfterInRing
<1>3. Filled(o, After(i, k)) = f + k
  <2>1. After(i, k) = IF i + k < BufLen THEN i + k ELSE 0
    BY <1>1, AfterIs
  <2>2. f = IF i >= o THEN i - o ELSE i + BufLen - o
    BY FilledIs
  <2>3. Filled(o, After(i, k)) = IF After(i, k) >= o THEN After(i, k) - o
                                 ELSE After(i, k) + BufLen - o
    BY <1>2, FilledIs
  <2>4. f + k <= BufLen - 1
    OBVIOUS
  <2> HIDE DEF f
  <2> QED  BY <1>1, <2>1, <2>2, <2>3, <2>4
<1>4. f \in 0 .. BufLen - 1 /\ f + k <= BufLen - 1
  BY FilledIs
<1>5. /\ r \in Seq(Nat) /\ Len(r) = f
      /\ \A j \in 1 .. f : r[j] = buf[Cell(o, j)]
  BY RingIs
<1>6. new \in Seq(Nat) /\ Len(new) = k /\ \A j \in 1 .. k : new[j] = buf[i + j - 1]
  <2>1. \A j \in 1 .. k : i + j - 1 \in Index
    BY <1>1 DEF Index
  <2> QED  BY <1>1, <2>1 DEF Piece
<1>7. /\ Ring(buf, o, After(i, k)) \in Seq(Nat) /\ Len(Ring(buf, o, After(i, k))) = f + k
      /\ \A j \in 1 .. f + k : Ring(buf, o, After(i, k))[j] = buf[Cell(o, j)]
  <2> DEFINE i2 == After(i, k)
  <2>1. /\ Ring(buf, o, i2) \in Seq(Nat) /\ Len(Ring(buf, o, i2)) = Filled(o, i2)
        /\ \A j \in 1 .. Filled(o, i2) : Ring(buf, o, i2)[j] = buf[Cell(o, j)]
    <3> HIDE DEF i2
    <3> QED  BY <1>2, RingIs DEF i2
  <2> QED  BY <1>3, <2>1
<1>8. \A j \in 1 .. f + k : j > f => Cell(o, j) = i + (j - f) - 1
  <2> SUFFICES ASSUME NEW j \in 1 .. f + k, j > f  PROVE Cell(o, j) = i + (j - f) - 1
    OBVIOUS
  <2>1. f = IF i >= o THEN i - o ELSE i + BufLen - o
    BY FilledIs
  <2>2. j \in 1 .. BufLen
    BY <1>1, <1>4
  <2>3. Cell(o, j) = IF o + j - 1 < BufLen THEN o + j - 1 ELSE o + j - 1 - BufLen
    BY <2>2, CellIs
  <2> HIDE DEF f
  <2> QED  BY <1>1, <1>4, <2>1, <2>2, <2>3
<1> HIDE DEF f, r
<1>9. /\ r \o new \in Seq(Nat) /\ Len(r \o new) = f + k
      /\ \A j \in 1 .. f + k : (r \o new)[j] = IF j <= f THEN r[j] ELSE new[j - f]
  <2> HIDE DEF new
  <2> QED  BY <1>6, <1>5, ConcatIs
<1>10. \A j \in 1 .. f + k : Ring(buf, o, After(i, k))[j] = (r \o new)[j]
  <2> SUFFICES ASSUME NEW j \in 1 .. f + k
               PROVE  buf[Cell(o, j)] = IF j <= f THEN r[j] ELSE new[j - f]
    BY <1>7, <1>9
  <2>1. CASE j <= f
    BY <1>1, <1>4, <1>5, <2>1
  <2>2. CASE j > f
    <3>1. j - f \in 1 .. k
      BY <1>1, <1>4, <2>2
    <3> QED  BY <1>1, <1>4, <1>6, <1>8, <2>2, <3>1
  <2> QED  BY <1>1, <1>4, <2>1, <2>2
<1>11. Ring(buf, o, After(i, k)) = r \o new
  BY <1>7, <1>9, <1>10, SameSeq
<1> QED  BY <1>3, <1>11 DEF f, r

\* A pointer that follows gives k cells back.
LEMMA RingTake ==
  ASSUME JtagUartAssumption, NEW buf \in [Index -> Nat], NEW o \in Index, NEW i \in Index,
         NEW k \in 1 .. BufLen, o + k <= BufLen, k <= Filled(o, i)
  PROVE  /\ Filled(After(o, k), i) = Filled(o, i) - k
         /\ Ring(buf, After(o, k), i) = SubSeq(Ring(buf, o, i), k + 1, Filled(o, i))
<1> DEFINE r == Ring(buf, o, i)
           f == Filled(o, i)
<1>1. /\ o \in Nat /\ i \in Nat /\ o < BufLen /\ i < BufLen /\ BufLen \in Nat /\ k \in Nat
      /\ k >= 1
  BY DEF Index, JtagUartAssumption
<1>2. After(o, k) \in Index /\ After(o, k) = IF o + k < BufLen THEN o + k ELSE 0
  BY <1>1, AfterInRing, AfterIs
<1>3. f = (IF i >= o THEN i - o ELSE i + BufLen - o) /\ f \in 0 .. BufLen - 1
  BY FilledIs
<1>4. Filled(After(o, k), i) = f - k
  <2>1. Filled(After(o, k), i) = IF i >= After(o, k) THEN i - After(o, k)
                                 ELSE i + BufLen - After(o, k)
    BY <1>2, FilledIs
  <2>2. k <= f  OBVIOUS
  <2> HIDE DEF f
  <2> QED  BY <1>1, <1>2, <1>3, <2>1, <2>2
<1>5. /\ r \in Seq(Nat) /\ Len(r) = f
      /\ \A j \in 1 .. f : r[j] = buf[Cell(o, j)]
  BY RingIs
<1>6. /\ Ring(buf, After(o, k), i) \in Seq(Nat) /\ Len(Ring(buf, After(o, k), i)) = f - k
      /\ \A j \in 1 .. f - k : Ring(buf, After(o, k), i)[j] = buf[Cell(After(o, k), j)]
  <2> DEFINE o2 == After(o, k)
  <2>1. /\ Ring(buf, o2, i) \in Seq(Nat) /\ Len(Ring(buf, o2, i)) = Filled(o2, i)
        /\ \A j \in 1 .. Filled(o2, i) : Ring(buf, o2, i)[j] = buf[Cell(o2, j)]
    <3> HIDE DEF o2
    <3> QED  BY <1>2, RingIs DEF o2
  <2> QED  BY <1>4, <2>1
<1>7. k <= f  OBVIOUS
<1> HIDE DEF f, r
<1>8. \A j \in 1 .. f - k : Cell(After(o, k), j) = Cell(o, j + k)
  <2> SUFFICES ASSUME NEW j \in 1 .. f - k  PROVE Cell(After(o, k), j) = Cell(o, j + k)
    OBVIOUS
  <2>1. j \in 1 .. BufLen /\ j + k \in 1 .. BufLen
    BY <1>1, <1>3, <1>7
  <2>2. Cell(o, j + k) = IF o + (j + k) - 1 < BufLen THEN o + (j + k) - 1
                         ELSE o + (j + k) - 1 - BufLen
    BY <2>1, CellIs
  <2>3. Cell(After(o, k), j) = IF After(o, k) + j - 1 < BufLen THEN After(o, k) + j - 1
                               ELSE After(o, k) + j - 1 - BufLen
    BY <1>2, <2>1, CellIs
  <2> QED  BY <1>1, <1>2, <1>3, <1>7, <2>1, <2>2, <2>3
<1>9. /\ SubSeq(r, k + 1, f) \in Seq(Nat) /\ Len(SubSeq(r, k + 1, f)) = f - k
      /\ \A j \in 1 .. f - k : SubSeq(r, k + 1, f)[j] = r[j + k]
  BY <1>1, <1>3, <1>5, <1>7
<1>10. \A j \in 1 .. f - k : Ring(buf, After(o, k), i)[j] = SubSeq(r, k + 1, f)[j]
  <2> SUFFICES ASSUME NEW j \in 1 .. f - k
               PROVE  buf[Cell(After(o, k), j)] = r[j + k]
    BY <1>6, <1>9
  <2>1. j + k \in 1 .. f
    BY <1>1, <1>3, <1>7
  <2> QED  BY <1>5, <1>8, <2>1
<1>11. Ring(buf, After(o, k), i) = SubSeq(r, k + 1, f)
  BY <1>6, <1>9, <1>10, SameSeq
<1> QED  BY <1>4, <1>11 DEF f, r

\* What is written to k cells at the pointer in leaves the cells in use alone.
LEMMA RingKeeps ==
  ASSUME JtagUartAssumption, NEW buf \in [Index -> Nat], NEW new \in [Index -> Nat],
         NEW o \in Index, NEW i \in Index, NEW k \in Nat, i + k <= BufLen,
         Filled(o, i) + k <= BufLen - 1,
         \A j \in Index : j \notin i .. i + k - 1 => new[j] = buf[j]
  PROVE  Ring(new, o, i) = Ring(buf, o, i)
<1>1. o \in Nat /\ i \in Nat /\ o < BufLen /\ i < BufLen /\ BufLen \in Nat
  BY DEF Index, JtagUartAssumption
<1>2. /\ Filled(o, i) = IF i >= o THEN i - o ELSE i + BufLen - o
      /\ Filled(o, i) \in 0 .. BufLen - 1
  BY FilledIs
<1>3. \A j \in 1 .. Filled(o, i) : new[Cell(o, j)] = buf[Cell(o, j)]
  <2> SUFFICES ASSUME NEW j \in 1 .. Filled(o, i)  PROVE Cell(o, j) \notin i .. i + k - 1
    BY <1>1, <1>2, CellIs
  <2>1. j \in 1 .. BufLen
    BY <1>1, <1>2
  <2>2. Cell(o, j) = IF o + j - 1 < BufLen THEN o + j - 1 ELSE o + j - 1 - BufLen
    BY <2>1, CellIs
  <2> QED  BY <1>1, <1>2, <2>1, <2>2
<1>4. /\ Ring(new, o, i) \in Seq(Nat) /\ Len(Ring(new, o, i)) = Filled(o, i)
      /\ \A j \in 1 .. Filled(o, i) : Ring(new, o, i)[j] = new[Cell(o, j)]
  BY RingIs
<1>5. /\ Ring(buf, o, i) \in Seq(Nat) /\ Len(Ring(buf, o, i)) = Filled(o, i)
      /\ \A j \in 1 .. Filled(o, i) : Ring(buf, o, i)[j] = buf[Cell(o, j)]
  BY RingIs
<1> QED  BY <1>3, <1>4, <1>5, SameSeq
-----------------------------------------------------------------------------
(* Nothing is lost, doubled or overwritten *)

\* The room write has found is still there when it copies, and what it has copied is still
\* there when it moves the pointer: the handler only makes more room.
WriteHolds ==
  /\ pc \in {"w_copy", "w_in"} =>
       in = tx_in /\ n >= 1 /\ in + n <= BufLen /\ Filled(tx_out, tx_in) + n <= BufLen - 1
  /\ pc = "w_in" => \A j \in 1 .. n : tx_buf[in + j - 1] = written + j

\* The characters read has found are still there: the handler only adds more.
ReadHolds == pc = "r_out" => /\ out = rx_out /\ n >= 1 /\ out + n <= BufLen
                             /\ n <= Filled(rx_out, rx_in)

PipeInv == Inv /\ WriteHolds /\ ReadHolds

\* What fits is in one piece, and leaves a cell free.
LEMMA RoomIs ==
  ASSUME JtagUartAssumption, NEW i \in Index, NEW o \in Index
  PROVE  i + Room(i, o) <= BufLen /\ Filled(o, i) + Room(i, o) <= BufLen - 1
<1>1. i \in Nat /\ o \in Nat /\ i < BufLen /\ o < BufLen /\ BufLen \in Nat
  BY DEF Index, JtagUartAssumption
<1>2. Filled(o, i) = IF i >= o THEN i - o ELSE i + BufLen - o
  BY FilledIs
<1> QED  BY <1>1, <1>2 DEF Room

\* A ring with different pointers holds something.
LEMMA FilledNat ==
  ASSUME JtagUartAssumption, NEW o \in Index, NEW i \in Index
  PROVE  o \in Nat /\ i \in Nat /\ Filled(o, i) \in Nat /\ (o # i => 1 <= Filled(o, i))
<1>1. i \in Nat /\ o \in Nat /\ i < BufLen /\ o < BufLen /\ BufLen \in Nat
  BY DEF Index, JtagUartAssumption
<1>2. Filled(o, i) = IF i >= o THEN i - o ELSE i + BufLen - o
  BY FilledIs
<1> QED  BY <1>1, <1>2

\* A character fits where the handler finds the buffer not full.
LEMMA NotFull ==
  ASSUME JtagUartAssumption, BufferTypes, ~Full
  PROVE  rx_in + 1 <= BufLen /\ Filled(rx_out, rx_in) + 1 <= BufLen - 1
<1>1. /\ rx_in \in Nat /\ rx_out \in Nat /\ rx_in < BufLen /\ rx_out < BufLen
      /\ BufLen \in Nat /\ BufLen >= 2 /\ 1 \in 0 .. BufLen
  BY DEF BufferTypes, Index, JtagUartAssumption
<1>2. After(rx_in, 1) = IF rx_in + 1 < BufLen THEN rx_in + 1 ELSE 0
  BY <1>1, AfterIs DEF BufferTypes
<1>3. Filled(rx_out, rx_in) = IF rx_in >= rx_out THEN rx_in - rx_out ELSE rx_in + BufLen - rx_out
  BY FilledIs DEF BufferTypes
<1> QED  BY <1>1, <1>2, <1>3 DEF Full

\* The steps that are about neither pointer.
Else == Boot \/ Call \/ WriteIn \/ WriteKick \/ WriteWait \/ WriteCheck
        \/ ReadOut \/ ReadEnable \/ ReadWait \/ ReadCheck \/ CloseWait \/ SetTimeout

\* None of the other steps of the program leads to where a piece is copied or taken.
LEMMA ElseMoves == Else => pc' \notin {"w_copy", "w_in", "r_out"}
BY DEF Else, Boot, alt_irq_init, TimerInit, UartEnable, UartRegister, UartAlarm, Call, WriteIn,
       WriteKick, WriteWait, WriteCheck, ReadOut, ReadEnable, ReadWait, ReadCheck, CloseWait,
       SetTimeout, GoTo

\* The other steps of the handlers, and the steps of the host and the timer.
Aside == \/ Interrupt \/ alt_irq_handler \/ ReadControl \/ ReceiveEnd \/ TransmitEnd \/ TimerIrq
         \/ Second \/ HostTakes \/ HostSends \/ UNCHANGED vars

\* None of them moves a pointer or fills a cell.
LEMMA AsideKeeps ==
  ASSUME Aside
  PROVE  UNCHANGED <<pc, in, out, n, tx_buf, tx_in, tx_out, written, rx_buf, rx_in, rx_out>>
BY DEF Aside, Interrupt, alt_irq_handler, ReadControl, ReceiveEnd, TransmitEnd, TimerIrq, Second,
       HostTakes, HostSends, Handler, vars, bootVars, txVars, rxVars, hostVars, callVars

\* What a call has found stays true until it is used, whatever comes between.
LEMMA HoldsStep ==
  ASSUME JtagUartAssumption, PipeInv, [Next]_vars
  PROVE  WriteHolds' /\ ReadHolds'
<1> USE DEF PipeInv
<1>1. /\ tx_buf \in [Index -> Nat] /\ rx_buf \in [Index -> Nat]
      /\ tx_in \in Index /\ tx_out \in Index /\ rx_in \in Index /\ rx_out \in Index
      /\ in \in Index /\ out \in Index /\ n \in Nat /\ left \in Nat /\ written \in Nat
      /\ BufLen \in Nat /\ BufLen >= 2
  BY DEF Inv, BufferTypes, CallTypes, JtagUartAssumption
<1>2. CASE Else
  BY <1>2, ElseMoves DEF WriteHolds, ReadHolds
<1>3. CASE Aside
  <2>1. UNCHANGED <<pc, in, out, n, tx_buf, tx_in, tx_out, written, rx_in, rx_out>>
    BY <1>3, AsideKeeps
  <2> QED  BY <2>1 DEF WriteHolds, ReadHolds, Filled
<1>4. CASE WriteLook
  <2>1. /\ in' = tx_in /\ UNCHANGED <<tx_in, tx_out>>
        /\ n' = Min2(Room(tx_in, tx_out), left)
        /\ pc' = IF n' = 0 THEN "w_kick" ELSE "w_copy"
    BY <1>4 DEF WriteLook, txVars
  <2>2. Room(tx_in, tx_out) \in 0 .. BufLen
    BY <1>1, RoomFits
  <2>3. n' \in Nat /\ n' <= Room(tx_in, tx_out)
    BY <1>1, <2>1, <2>2 DEF Min2
  <2>4. tx_in + Room(tx_in, tx_out) <= BufLen /\ Filled(tx_out, tx_in) + Room(tx_in, tx_out) <= BufLen - 1
    BY <1>1, RoomIs
  <2>5. tx_in \in Nat /\ Filled(tx_out, tx_in) \in Nat
    BY <1>1, FilledNat
  <2>6. tx_in + n' <= BufLen /\ Filled(tx_out, tx_in) + n' <= BufLen - 1
    <3> DEFINE f == Filled(tx_out, tx_in)
               r == Room(tx_in, tx_out)
               m == n'
    <3>1. /\ f \in Nat /\ r \in Nat /\ m \in Nat /\ m <= r /\ tx_in \in Nat /\ BufLen \in Nat
          /\ tx_in + r <= BufLen /\ f + r <= BufLen - 1
      BY <1>1, <2>2, <2>3, <2>4, <2>5
    <3> HIDE DEF f, r, m
    <3>2. tx_in + m <= BufLen /\ f + m <= BufLen - 1
      BY <3>1
    <3> QED  BY <3>2 DEF f, m
  <2>7. Filled(tx_out, tx_in)' = Filled(tx_out, tx_in)
    BY <2>1 DEF Filled
  <2> QED  BY <2>1, <2>3, <2>6, <2>7 DEF WriteHolds, ReadHolds
<1>5. CASE WriteCopy
  <2>1. /\ pc = "w_copy" /\ pc' = "w_in"
        /\ tx_buf' = [i \in Index |-> IF i \in in .. in + n - 1 THEN written + 1 + i - in
                                                              ELSE tx_buf[i]]
        /\ UNCHANGED <<in, n, tx_in, tx_out, written>>
    BY <1>5 DEF WriteCopy, callVars
  <2>2. \A j \in 1 .. n : tx_buf'[in + j - 1] = written + j
    <3> SUFFICES ASSUME NEW j \in 1 .. n  PROVE tx_buf'[in + j - 1] = written + j
      OBVIOUS
    <3>1. in \in Nat /\ in + n <= BufLen
      BY <1>1, <2>1 DEF WriteHolds, Index
    <3>2. in + j - 1 \in Index /\ in + j - 1 \in in .. in + n - 1
      BY <1>1, <3>1 DEF Index
    <3>3. tx_buf'[in + j - 1] = written + 1 + (in + j - 1) - in
      BY <2>1, <3>2
    <3> QED  BY <1>1, <3>1, <3>3
  <2>3. Filled(tx_out, tx_in)' = Filled(tx_out, tx_in)
    BY <2>1 DEF Filled
  <2> QED  BY <2>1, <2>2, <2>3 DEF WriteHolds, ReadHolds
<1>6. CASE ReadLook
  <2>1. UNCHANGED <<rx_in, rx_out>> /\ pc' \notin {"w_copy", "w_in"}
    BY <1>6 DEF ReadLook, rxVars
  <2>2. CASE pc' # "r_out"
    BY <2>1, <2>2 DEF WriteHolds, ReadHolds
  <2>3. CASE pc' = "r_out"
    <3>1. /\ out' = rx_out /\ n' > 0
          /\ n' = Min2(IF rx_in >= rx_out THEN rx_in - rx_out ELSE BufLen - rx_out, left)
      BY <1>6, <2>3 DEF ReadLook
    <3>2. Filled(rx_out, rx_in) = IF rx_in >= rx_out THEN rx_in - rx_out
                                  ELSE rx_in + BufLen - rx_out
      BY <1>1, FilledIs
    <3>3. rx_in \in Nat /\ rx_out \in Nat /\ rx_in < BufLen /\ rx_out < BufLen
      BY <1>1 DEF Index
    <3>4. n' >= 1 /\ rx_out + n' <= BufLen /\ n' <= Filled(rx_out, rx_in)
      BY <1>1, <3>1, <3>2, <3>3 DEF Min2
    <3>5. Filled(rx_out, rx_in)' = Filled(rx_out, rx_in)
      BY <2>1 DEF Filled
    <3> QED  BY <2>1, <3>1, <3>4, <3>5 DEF WriteHolds, ReadHolds
  <2> QED  BY <2>2, <2>3
<1>7. CASE Transmit
  <2>1. /\ tx_out' = After(tx_out, 1) /\ tx_out # tx_in
        /\ UNCHANGED <<pc, in, out, n, tx_buf, tx_in, written, rx_in, rx_out>>
    BY <1>7 DEF Transmit, Handler, callVars, rxVars
  <2>2. tx_out \in Nat /\ tx_in \in Nat /\ tx_out + 1 <= BufLen /\ 1 \in 1 .. BufLen
    BY <1>1 DEF Index
  <2>3. Filled(tx_out, tx_in) \in Nat /\ 1 <= Filled(tx_out, tx_in)
    BY <1>1, <2>1, FilledNat
  <2>4. Filled(After(tx_out, 1), tx_in) = Filled(tx_out, tx_in) - 1
    BY <1>1, <2>2, <2>3, RingTake, ZenonT(60)
  <2>5. Filled(tx_out, tx_in)' = Filled(After(tx_out, 1), tx_in)
    BY <2>1 DEF Filled
  <2>6. WriteHolds'
    BY <1>1, <2>1, <2>3, <2>4, <2>5 DEF WriteHolds
  <2>7. ReadHolds'
    BY <2>1 DEF ReadHolds, Filled
  <2> QED  BY <2>6, <2>7
<1>8. CASE Receive
  <2>1. /\ UNCHANGED <<pc, in, out, n, tx_buf, tx_in, tx_out, written, rx_out>>
        /\ rx_in' = rx_in \/ (~Full /\ rx_in' = After(rx_in, 1))
    BY <1>8 DEF Receive, Handler, callVars, txVars, rxVars
  <2>2. WriteHolds'
    BY <2>1 DEF WriteHolds, Filled
  <2>3. CASE rx_in' = rx_in
    <3>1. Filled(rx_out, rx_in)' = Filled(rx_out, rx_in)
      BY <2>1, <2>3 DEF Filled
    <3> QED  BY <2>1, <2>2, <3>1 DEF ReadHolds
  <2>4. CASE ~Full /\ rx_in' = After(rx_in, 1)
    <3>1. rx_in + 1 <= BufLen /\ Filled(rx_out, rx_in) + 1 <= BufLen - 1 /\ 1 \in 1 .. BufLen
      BY <1>1, <2>4, NotFull DEF Inv
    <3>2. Filled(rx_out, After(rx_in, 1)) = Filled(rx_out, rx_in) + 1
      BY <1>1, <3>1, RingPut, ZenonT(60)
    <3>3. Filled(rx_out, rx_in)' = Filled(rx_out, After(rx_in, 1))
      BY <2>1, <2>4 DEF Filled
    <3>4. Filled(rx_out, rx_in) \in Nat
      BY <1>1, FilledIs
    <3>5. ASSUME n <= Filled(rx_out, rx_in)  PROVE n <= Filled(rx_out, rx_in)'
      BY <1>1, <3>2, <3>3, <3>4, <3>5
    <3> QED  BY <2>1, <2>2, <3>5 DEF ReadHolds
  <2> QED  BY <2>1, <2>2, <2>3, <2>4
<1> QED  BY <1>2, <1>3, <1>4, <1>5, <1>6, <1>7, <1>8
         DEF Next, Write, Read, Handle, Else, Aside

\* Both ends of a queue, element by element.
LEMMA ConcatAssoc ==
  ASSUME NEW s \in Seq(Nat), NEW t \in Seq(Nat), NEW u \in Seq(Nat)
  PROVE  s \o (t \o u) = (s \o t) \o u
BY SMTT(30)

\* A queue without its first k characters.
LEMMA RestIs ==
  ASSUME NEW s \in Seq(Nat), NEW k \in 1 .. Len(s)
  PROVE  /\ SubSeq(s, k + 1, Len(s)) \in Seq(Nat) /\ Len(SubSeq(s, k + 1, Len(s))) = Len(s) - k
         /\ \A j \in 1 .. Len(s) - k : SubSeq(s, k + 1, Len(s))[j] = s[j + k]
OBVIOUS

\* The first of one part of a queue may become the last of the part before it: the queue
\* as a whole stays as it is.
LEMMA MoveOver ==
  ASSUME NEW s \in Seq(Nat), NEW t \in Seq(Nat), Len(t) >= 1
  PROVE  Append(s, t[1]) \o SubSeq(t, 2, Len(t)) = s \o t
<1>1. Len(s) \in Nat /\ Len(t) \in Nat /\ 1 \in 1 .. Len(t) /\ t[1] \in Nat
  OBVIOUS
<1> DEFINE r == SubSeq(t, 2, Len(t))
           a == Append(s, t[1])
<1>2. r \in Seq(Nat) /\ Len(r) = Len(t) - 1 /\ \A j \in 1 .. Len(t) - 1 : r[j] = t[j + 1]
  <2>1. r = SubSeq(t, 1 + 1, Len(t))
    OBVIOUS
  <2> HIDE DEF r
  <2> QED  BY <1>1, <2>1, RestIs
<1>3. /\ a \in Seq(Nat) /\ Len(a) = Len(s) + 1
      /\ \A j \in 1 .. Len(s) + 1 : a[j] = IF j <= Len(s) THEN s[j] ELSE t[1]
  BY <1>1
<1> HIDE DEF r, a
<1>4. /\ a \o r \in Seq(Nat) /\ Len(a \o r) = Len(a) + Len(r)
      /\ \A j \in 1 .. Len(a) + Len(r) :
           (a \o r)[j] = IF j <= Len(a) THEN a[j] ELSE r[j - Len(a)]
  BY <1>2, <1>3, ConcatIs
<1>5. /\ s \o t \in Seq(Nat) /\ Len(s \o t) = Len(s) + Len(t)
      /\ \A j \in 1 .. Len(s) + Len(t) :
           (s \o t)[j] = IF j <= Len(s) THEN s[j] ELSE t[j - Len(s)]
  BY ConcatIs
<1>6. Len(a \o r) = Len(s \o t)
  BY <1>1, <1>2, <1>3, <1>4, <1>5
<1>7. \A j \in 1 .. Len(a \o r) : (a \o r)[j] = (s \o t)[j]
  <2> SUFFICES ASSUME NEW j \in 1 .. Len(s) + Len(t)  PROVE (a \o r)[j] = (s \o t)[j]
    BY <1>5, <1>6
  <2>1. j \in Nat /\ j >= 1 /\ j <= Len(s) + Len(t) /\ j \in 1 .. Len(a) + Len(r)
    BY <1>1, <1>2, <1>3
  <2>2. CASE j <= Len(s)
    <3>1. j <= Len(a) /\ j \in 1 .. Len(s) + 1
      BY <1>1, <1>3, <2>1, <2>2
    <3> QED  BY <1>3, <1>4, <1>5, <2>1, <2>2, <3>1
  <2>3. CASE j = Len(s) + 1
    <3>1. j <= Len(a) /\ j \in 1 .. Len(s) + 1 /\ ~(j <= Len(s)) /\ j - Len(s) = 1
      BY <1>1, <1>3, <2>1, <2>3
    <3> QED  BY <1>3, <1>4, <1>5, <2>1, <3>1
  <2>4. CASE ~(j <= Len(s)) /\ j # Len(s) + 1
    <3>1. /\ j - Len(a) \in 1 .. Len(t) - 1 /\ (j - Len(a)) + 1 = j - Len(s)
          /\ ~(j <= Len(a)) /\ ~(j <= Len(s))
      BY <1>1, <1>3, <2>1, <2>4
    <3> QED  BY <1>2, <1>4, <1>5, <2>1, <3>1
  <2> QED  BY <2>2, <2>3, <2>4
<1>8. a \o r = s \o t
  BY <1>4, <1>5, <1>6, <1>7, SameSeq
<1> QED  BY <1>8 DEF r, a

\* The same for a character that the UART takes from the head of the buffer.
LEMMA MoveHead ==
  ASSUME NEW s \in Seq(Nat), NEW t \in Seq(Nat), t # <<>>
  PROVE  (s \o [j \in 1 .. 1 |-> Head(t)]) \o Tail(t) = s \o t
BY SMTT(30)

\* What leaves the first part leaves the queue.
LEMMA DropFront ==
  ASSUME NEW s \in Seq(Nat), NEW t \in Seq(Nat), NEW k \in 1 .. Len(s)
  PROVE  SubSeq(s, k + 1, Len(s)) \o t = SubSeq(s \o t, k + 1, Len(s \o t))
<1> DEFINE r == SubSeq(s, k + 1, Len(s))
           u == SubSeq(s \o t, k + 1, Len(s \o t))
<1>1. Len(s) \in Nat /\ Len(t) \in Nat /\ k \in Nat /\ k >= 1 /\ k <= Len(s)
  OBVIOUS
<1>2. r \in Seq(Nat) /\ Len(r) = Len(s) - k /\ \A j \in 1 .. Len(s) - k : r[j] = s[j + k]
  BY RestIs
<1>3. /\ s \o t \in Seq(Nat) /\ Len(s \o t) = Len(s) + Len(t)
      /\ \A j \in 1 .. Len(s) + Len(t) :
           (s \o t)[j] = IF j <= Len(s) THEN s[j] ELSE t[j - Len(s)]
  BY ConcatIs
<1>4. k \in 1 .. Len(s \o t)
  BY <1>1, <1>3
<1>5. /\ u \in Seq(Nat) /\ Len(u) = Len(s) + Len(t) - k
      /\ \A j \in 1 .. Len(s) + Len(t) - k : u[j] = (s \o t)[j + k]
  <2> DEFINE q == s \o t
  <2>1. q \in Seq(Nat) /\ k \in 1 .. Len(q) /\ Len(q) = Len(s) + Len(t) /\ u = SubSeq(q, k + 1, Len(q))
    BY <1>3, <1>4
  <2> HIDE DEF q, u
  <2>2. u \in Seq(Nat) /\ Len(u) = Len(q) - k /\ \A j \in 1 .. Len(q) - k : u[j] = q[j + k]
    BY <2>1, RestIs
  <2>3. Len(u) = Len(s) + Len(t) - k
    BY <1>1, <2>1, <2>2
  <2>4. \A j \in 1 .. Len(s) + Len(t) - k : u[j] = q[j + k]
    BY <1>1, <2>1, <2>2
  <2> QED  BY <2>2, <2>3, <2>4 DEF q
<1> HIDE DEF r, u
<1>6. /\ r \o t \in Seq(Nat) /\ Len(r \o t) = Len(r) + Len(t)
      /\ \A j \in 1 .. Len(r) + Len(t) :
           (r \o t)[j] = IF j <= Len(r) THEN r[j] ELSE t[j - Len(r)]
  BY <1>2, ConcatIs
<1>7. Len(r \o t) = Len(u)
  BY <1>1, <1>2, <1>5, <1>6
<1>8. \A j \in 1 .. Len(r \o t) : (r \o t)[j] = u[j]
  <2> SUFFICES ASSUME NEW j \in 1 .. Len(s) + Len(t) - k  PROVE (r \o t)[j] = u[j]
    BY <1>5, <1>7
  <2>1. /\ j \in 1 .. Len(r) + Len(t) /\ j + k \in 1 .. Len(s) + Len(t)
        /\ j <= Len(r) <=> j + k <= Len(s)
        /\ j - Len(r) = (j + k) - Len(s)
        /\ j <= Len(r) => j \in 1 .. Len(s) - k
    BY <1>1, <1>2
  <2> QED  BY <1>2, <1>3, <1>5, <1>6, <2>1
<1>9. r \o t = u
  BY <1>5, <1>6, <1>7, <1>8, SameSeq
<1> QED  BY <1>9 DEF r, u

\* The same for a single character.
LEMMA DropHead ==
  ASSUME NEW s \in Seq(Nat), NEW t \in Seq(Nat), s # <<>>
  PROVE  Tail(s) \o t = SubSeq(s \o t, 2, Len(s \o t))
OBVIOUS

\* What enters the last part enters the queue.
LEMMA AddBack ==
  ASSUME NEW s \in Seq(Nat), NEW t \in Seq(Nat), NEW x \in Nat
  PROVE  s \o Append(t, x + 1) = (s \o t) \o [j \in 1 .. 1 |-> x + j]
BY SMTT(30)

\* What is under way in each direction.
TxQueue == wfifo \o Ring(tx_buf, tx_out, tx_in)
RxQueue == Ring(rx_buf, rx_out, rx_in) \o rfifo

\* A queue of any capacity takes or gives some characters.
LEMMA TxPut ==
  ASSUME NEW k \in Nat, k >= 1, Len(TxQueue) \in Nat, Len(TxQueue) + k <= BufLen - 1 + WriteDepth,
         BufLen \in Nat, WriteDepth \in Nat,
         written' = written + k, TxQueue' = TxQueue \o [j \in 1 .. k |-> written + j]
  PROVE  Tx!Put
<1>1. k \in 1 .. (BufLen - 1 + WriteDepth) - Len(TxQueue)
  OBVIOUS
<1> QED  BY <1>1 DEF Tx!Put, TxQueue

\* The host's characters are put into the pipe if they fit.
LEMMA RxPut ==
  ASSUME NEW k \in Nat, k >= 1, Len(RxQueue) \in Nat, Len(RxQueue) + k <= BufLen - 1 + ReadDepth,
         BufLen \in Nat, ReadDepth \in Nat,
         sent' = sent + k, RxQueue' = RxQueue \o [j \in 1 .. k |-> sent + j]
  PROVE  Rx!Put
<1>1. k \in 1 .. (BufLen - 1 + ReadDepth) - Len(RxQueue)
  OBVIOUS
<1> QED  BY <1>1 DEF Rx!Put, RxQueue

\* A step of the driver puts characters behind the queue that is being written, takes them
\* from its front, or leaves it alone.
LEMMA TxStep ==
  ASSUME JtagUartAssumption, PipeInv, [Next]_vars
  PROVE  [Tx!Next]_<<written, TxQueue>>
<1> DEFINE r == Ring(tx_buf, tx_out, tx_in)
           f == Filled(tx_out, tx_in)
<1>1. /\ tx_buf \in [Index -> Nat] /\ tx_in \in Index /\ tx_out \in Index
      /\ in \in Index /\ n \in 0 .. BufLen /\ written \in Nat
      /\ BufLen \in Nat /\ BufLen >= 2 /\ WriteDepth \in Nat
  BY DEF PipeInv, Inv, BufferTypes, CallTypes, JtagUartAssumption
<1>2. wfifo \in Seq(Nat) /\ Len(wfifo) \in Nat /\ Len(wfifo) <= WriteDepth
  <2>1. wfifo \in Seq(Nat) /\ space \in 0 .. WriteDepth /\ Len(wfifo) + space <= WriteDepth
    BY DEF PipeInv, Inv, FifoTypes
  <2>2. Len(wfifo) \in Nat
    BY <2>1
  <2> QED  BY <1>1, <2>1, <2>2
<1>3. r \in Seq(Nat) /\ Len(r) = f /\ \A j \in 1 .. f : r[j] = tx_buf[Cell(tx_out, j)]
  BY <1>1, RingIs
<1>4. f \in 0 .. BufLen - 1
  BY <1>1, FilledIs
<1>5. CASE UNCHANGED <<written, wfifo, tx_buf, tx_in, tx_out>>
  BY <1>5 DEF TxQueue, Ring
<1>6. CASE WriteCopy
  <2>1. /\ pc = "w_copy" /\ UNCHANGED <<written, wfifo, tx_in, tx_out>>
        /\ tx_buf' = [i \in Index |-> IF i \in in .. in + n - 1 THEN written + 1 + i - in
                                                              ELSE tx_buf[i]]
    BY <1>6 DEF WriteCopy, hostVars
  <2>2. in = tx_in /\ n \in Nat /\ tx_in + n <= BufLen /\ f + n <= BufLen - 1
    BY <1>1, <2>1 DEF PipeInv, WriteHolds
  <2>3. tx_buf' \in [Index -> Nat]
    BY NextInv DEF PipeInv, Inv, BufferTypes
  <2>4. \A j \in Index : j \notin tx_in .. tx_in + n - 1 => tx_buf'[j] = tx_buf[j]
    BY <2>1, <2>2
  <2>5. Ring(tx_buf', tx_out, tx_in) = r
    BY <1>1, <2>2, <2>3, <2>4, RingKeeps
  <2>6. Ring(tx_buf, tx_out, tx_in)' = Ring(tx_buf', tx_out, tx_in)
    BY <2>1 DEF Ring
  <2> QED  BY <2>1, <2>5, <2>6 DEF TxQueue
<1>7. CASE WriteIn
  <2>1. /\ pc = "w_in" /\ tx_in' = After(in, n) /\ written' = written + n
        /\ UNCHANGED <<wfifo, tx_buf, tx_out>>
    BY <1>7 DEF WriteIn, hostVars
  <2>2. /\ in = tx_in /\ n \in 1 .. BufLen /\ tx_in + n <= BufLen /\ f + n <= BufLen - 1
        /\ \A j \in 1 .. n : tx_buf[tx_in + j - 1] = written + j
    BY <1>1, <2>1 DEF PipeInv, WriteHolds
  <2> DEFINE new == [j \in 1 .. n |-> written + j]
  <2>3. new = Piece(tx_buf, tx_in, n)
    BY <2>2 DEF Piece
  <2>4. Ring(tx_buf, tx_out, After(tx_in, n)) = r \o new
    <3>1. Ring(tx_buf, tx_out, After(tx_in, n)) = r \o Piece(tx_buf, tx_in, n)
      BY <1>1, <2>2, RingPut
    <3> QED  BY <2>3, <3>1
  <2>5. Ring(tx_buf, tx_out, tx_in)' = Ring(tx_buf, tx_out, After(tx_in, n))
    BY <2>1, <2>2 DEF Ring
  <2>6. new \in Seq(Nat)
    BY <1>1, <2>2
  <2>7. TxQueue' = TxQueue \o new
    <3> HIDE DEF new, r
    <3>1. TxQueue' = wfifo \o (r \o new)
      BY <2>1, <2>4, <2>5 DEF TxQueue
    <3> QED  BY <1>2, <1>3, <2>6, <3>1, ConcatAssoc DEF TxQueue, r
  <2>8. Len(TxQueue) = Len(wfifo) + f
    BY <1>2, <1>3, ConcatIs DEF TxQueue
  <2>9. /\ n \in Nat /\ n >= 1 /\ Len(TxQueue) \in Nat
        /\ Len(TxQueue) + n <= BufLen - 1 + WriteDepth
    <3> HIDE DEF f
    <3> QED  BY <1>1, <1>2, <1>4, <2>2, <2>8
  <2>10. Tx!Put
    BY <1>1, <2>1, <2>7, <2>9, TxPut
  <2> QED  BY <2>10 DEF Tx!Next
<1>8. CASE Transmit
  <2>1. /\ tx_out # tx_in /\ wfifo' = Append(wfifo, tx_buf[tx_out])
        /\ tx_out' = After(tx_out, 1) /\ UNCHANGED <<tx_buf, tx_in, written>>
    BY <1>8 DEF Transmit
  <2>2. 1 \in 1 .. BufLen /\ tx_out + 1 <= BufLen /\ 1 <= f /\ f \in Nat
    <3>1. 1 <= f /\ f \in Nat
      BY <1>1, <2>1, FilledNat
    <3>2. 1 \in 1 .. BufLen /\ tx_out + 1 <= BufLen
      BY <1>1 DEF Index
    <3> QED  BY <3>1, <3>2
  <2>3. Ring(tx_buf, After(tx_out, 1), tx_in) = SubSeq(r, 2, f)
    <3>1. Ring(tx_buf, After(tx_out, 1), tx_in) = SubSeq(r, 1 + 1, f)
      BY <1>1, <2>2, RingTake
    <3> QED  BY <3>1
  <2>4. Ring(tx_buf, tx_out, tx_in)' = Ring(tx_buf, After(tx_out, 1), tx_in)
    BY <2>1 DEF Ring
  <2>5. r[1] = tx_buf[tx_out]
    <3>1. Cell(tx_out, 1) = tx_out
      BY <1>1, <2>2, CellIs DEF Index
    <3> QED  BY <1>3, <2>2, <3>1
  <2>6. TxQueue' = TxQueue
    <3>1. TxQueue' = Append(wfifo, r[1]) \o SubSeq(r, 2, Len(r))
      BY <1>3, <2>1, <2>3, <2>4, <2>5 DEF TxQueue
    <3> HIDE DEF r
    <3> QED  BY <1>2, <1>3, <2>2, <3>1, MoveOver DEF TxQueue, r
  <2> QED  BY <2>1, <2>6
<1>9. CASE HostTakes
  <2>1. wfifo # <<>> /\ wfifo' = Tail(wfifo) /\ UNCHANGED <<tx_buf, tx_in, tx_out, written>>
    BY <1>9 DEF HostTakes, txVars
  <2>2. TxQueue' = Tail(wfifo) \o r
    BY <2>1 DEF TxQueue, Ring
  <2>3. TxQueue' = SubSeq(TxQueue, 2, Len(TxQueue))
    <3> HIDE DEF r
    <3> QED  BY <1>2, <1>3, <2>1, <2>2, DropHead DEF TxQueue, r
  <2>4. 1 \in 1 .. Len(TxQueue) /\ TxQueue' = SubSeq(TxQueue, 1 + 1, Len(TxQueue))
    <3>1. Len(TxQueue) = Len(wfifo) + f
      BY <1>2, <1>3, ConcatIs DEF TxQueue
    <3>2. Len(wfifo) # 0
      BY <1>2, <2>1
    <3> HIDE DEF f
    <3> QED  BY <1>2, <1>4, <2>3, <3>1, <3>2
  <2>5. Tx!Take
    BY <2>1, <2>4 DEF Tx!Take, TxQueue
  <2> QED  BY <2>5 DEF Tx!Next
<1>10. CASE ~(WriteCopy \/ WriteIn \/ Transmit \/ HostTakes)
  <2>1. UNCHANGED <<written, wfifo, tx_buf, tx_in, tx_out>>
    BY <1>10 DEF Next, vars, Boot, Write, Read, Handle, alt_irq_init, TimerInit, UartEnable,
       UartRegister, UartAlarm, Call, WriteLook, WriteKick, WriteWait, WriteCheck, ReadLook,
       ReadOut, ReadEnable, ReadWait, ReadCheck, CloseWait, SetTimeout, Interrupt,
       alt_irq_handler, ReadControl, Receive, ReceiveEnd, TransmitEnd, TimerIrq, Second,
       HostSends, txVars, hostVars
  <2> QED  BY <1>5, <2>1
<1> QED  BY <1>6, <1>7, <1>8, <1>9, <1>10

\* The same for the queue that is being read.
LEMMA RxStep ==
  ASSUME JtagUartAssumption, PipeInv, [Next]_vars
  PROVE  [Rx!Next]_<<sent, RxQueue>>
<1> DEFINE r == Ring(rx_buf, rx_out, rx_in)
           f == Filled(rx_out, rx_in)
<1>1. /\ rx_buf \in [Index -> Nat] /\ rx_in \in Index /\ rx_out \in Index
      /\ out \in Index /\ n \in 0 .. BufLen
      /\ BufLen \in Nat /\ BufLen >= 2 /\ ReadDepth \in Nat
  BY DEF PipeInv, Inv, BufferTypes, CallTypes, JtagUartAssumption
<1>2. rfifo \in Seq(Nat) /\ Len(rfifo) \in Nat /\ Len(rfifo) <= ReadDepth /\ sent \in Nat
  <2>1. rfifo \in Seq(Nat) /\ Len(rfifo) <= ReadDepth /\ sent \in Nat
    BY DEF PipeInv, Inv, FifoTypes
  <2> QED  BY <2>1
<1>3. r \in Seq(Nat) /\ Len(r) = f
  BY <1>1, RingIs
<1>4. f \in 0 .. BufLen - 1
  BY <1>1, FilledIs
<1>5. CASE UNCHANGED <<sent, rfifo, rx_buf, rx_in, rx_out>>
  BY <1>5 DEF RxQueue, Ring
<1>6. CASE ReadOut
  <2>1. /\ pc = "r_out" /\ rx_out' = After(out, n)
        /\ UNCHANGED <<sent, rfifo, rx_buf, rx_in>>
    BY <1>6 DEF ReadOut, hostVars
  <2>2. out = rx_out /\ n \in 1 .. BufLen /\ rx_out + n <= BufLen /\ n <= f
    BY <1>1, <2>1 DEF PipeInv, ReadHolds
  <2>3. Ring(rx_buf, After(rx_out, n), rx_in) = SubSeq(r, n + 1, f)
    BY <1>1, <2>2, RingTake
  <2>4. Ring(rx_buf, rx_out, rx_in)' = Ring(rx_buf, After(rx_out, n), rx_in)
    BY <2>1, <2>2 DEF Ring
  <2>5. RxQueue' = SubSeq(r, n + 1, Len(r)) \o rfifo
    BY <1>3, <2>1, <2>3, <2>4 DEF RxQueue
  <2>6. n \in 1 .. Len(r)
    <3> HIDE DEF r, f
    <3> QED  BY <1>1, <1>3, <1>4, <2>2
  <2>7. RxQueue' = SubSeq(RxQueue, n + 1, Len(RxQueue))
    <3> HIDE DEF r
    <3> QED  BY <1>2, <1>3, <2>5, <2>6, DropFront DEF RxQueue, r
  <2>8. n \in 1 .. Len(RxQueue)
    <3>1. Len(RxQueue) = Len(r) + Len(rfifo)
      BY <1>2, <1>3, ConcatIs DEF RxQueue
    <3> HIDE DEF r
    <3> QED  BY <1>2, <1>3, <1>4, <2>6, <3>1
  <2>9. Rx!Take
    BY <2>1, <2>7, <2>8 DEF Rx!Take, RxQueue
  <2> QED  BY <2>9 DEF Rx!Next
<1>7. CASE Receive /\ ~Full /\ rfifo # <<>>
  <2>1. /\ rx_buf' = [rx_buf EXCEPT ![rx_in] = Head(rfifo)] /\ rx_in' = After(rx_in, 1)
        /\ rfifo' = Tail(rfifo) /\ UNCHANGED <<rx_out, sent>>
    BY <1>7 DEF Receive
  <2>2. rx_in + 1 <= BufLen /\ f + 1 <= BufLen - 1 /\ 1 \in 1 .. BufLen /\ 1 \in Nat
    BY <1>1, <1>7, NotFull DEF PipeInv, Inv
  <2>3. Head(rfifo) \in Nat /\ Tail(rfifo) \in Seq(Nat)
    BY <1>2, <1>7
  <2>4. /\ rx_buf' \in [Index -> Nat] /\ rx_buf'[rx_in] = Head(rfifo)
        /\ \A j \in Index : j # rx_in => rx_buf'[j] = rx_buf[j]
    BY <1>1, <2>1, <2>3
  <2>5. \A j \in Index : j \notin rx_in .. rx_in + 1 - 1 => rx_buf'[j] = rx_buf[j]
    BY <1>1, <2>4 DEF Index
  <2>6. Ring(rx_buf', rx_out, rx_in) = r
    BY <1>1, <2>2, <2>4, <2>5, RingKeeps
  <2>7. Ring(rx_buf', rx_out, After(rx_in, 1)) =
          Ring(rx_buf', rx_out, rx_in) \o Piece(rx_buf', rx_in, 1)
    <3> DEFINE b == rx_buf'
    <3>1. b \in [Index -> Nat]
      BY <2>4
    <3> HIDE DEF b
    <3>2. Ring(b, rx_out, After(rx_in, 1)) =
            Ring(b, rx_out, rx_in) \o Piece(b, rx_in, 1)
      BY <1>1, <2>2, <3>1, RingPut
    <3> QED  BY <3>2 DEF b
  <2>8. Piece(rx_buf', rx_in, 1) = [j \in 1 .. 1 |-> Head(rfifo)]
    BY <1>1, <2>4 DEF Index, Piece
  <2>9. Ring(rx_buf, rx_out, rx_in)' = Ring(rx_buf', rx_out, After(rx_in, 1))
    BY <2>1 DEF Ring
  <2>10. RxQueue' = (r \o [j \in 1 .. 1 |-> Head(rfifo)]) \o Tail(rfifo)
    BY <2>1, <2>6, <2>7, <2>8, <2>9 DEF RxQueue
  <2>11. RxQueue' = RxQueue
    <3> HIDE DEF r
    <3> QED  BY <1>2, <1>3, <1>7, <2>10, MoveHead DEF RxQueue, r
  <2> QED  BY <2>1, <2>11
<1>8. CASE HostSends
  <2>1. /\ rfifo' = Append(rfifo, sent + 1) /\ sent' = sent + 1 /\ Len(rfifo) < ReadDepth
        /\ UNCHANGED <<rx_buf, rx_in, rx_out>>
    BY <1>8 DEF HostSends, rxVars
  <2>2. RxQueue' = r \o Append(rfifo, sent + 1)
    BY <2>1 DEF RxQueue, Ring
  <2>3. RxQueue' = RxQueue \o [j \in 1 .. 1 |-> sent + j]
    <3> HIDE DEF r
    <3> QED  BY <1>2, <1>3, <2>2, AddBack DEF RxQueue, r
  <2>4. Len(RxQueue) = f + Len(rfifo)
    BY <1>2, <1>3, ConcatIs DEF RxQueue
  <2>5. Len(RxQueue) \in Nat /\ Len(RxQueue) + 1 <= BufLen - 1 + ReadDepth
    <3> HIDE DEF f
    <3> QED  BY <1>1, <1>2, <1>4, <2>1, <2>4
  <2>6. Rx!Put
    <3>1. 1 \in Nat /\ 1 >= 1  OBVIOUS
    <3> HIDE DEF r, f
    <3>2. BufLen \in Nat /\ ReadDepth \in Nat  BY DEF JtagUartAssumption
    <3> QED  BY <2>1, <2>3, <2>5, <3>1, <3>2, RxPut
  <2> QED  BY <2>6 DEF Rx!Next
<1>9. CASE ~ReadOut /\ ~(Receive /\ ~Full /\ rfifo # <<>>) /\ ~HostSends
  <2>1. CASE Receive
    BY <1>5, <1>9, <2>1 DEF Receive, rxVars
  <2>2. CASE ~Receive
    <3>1. UNCHANGED <<sent, rfifo, rx_buf, rx_in, rx_out>>
      BY <1>9, <2>2 DEF Next, vars, Boot, Write, Read, Handle, alt_irq_init, TimerInit,
         UartEnable, UartRegister, UartAlarm, Call, WriteLook, WriteCopy, WriteIn, WriteKick,
         WriteWait, WriteCheck, ReadLook, ReadEnable, ReadWait, ReadCheck, CloseWait,
         SetTimeout, Interrupt, alt_irq_handler, ReadControl, ReceiveEnd, Transmit,
         TransmitEnd, TimerIrq, Second, HostTakes, rxVars, hostVars
    <3> QED  BY <1>5, <3>1
  <2> QED  BY <2>1, <2>2
<1> QED  BY <1>6, <1>7, <1>8, <1>9

\* Nothing is under way when the system starts.
LEMMA InitPipe ==
  ASSUME JtagUartAssumption, Init
  PROVE  PipeInv /\ Tx!Init /\ Rx!Init
<1>1. Inv /\ WriteHolds /\ ReadHolds
  BY InitInv DEF Init, WriteHolds, ReadHolds
<1>2. Filled(0, 0) = 0 /\ 0 \in Index
  <2>1. 0 \in Index
    BY DEF Index, JtagUartAssumption
  <2> QED  BY <2>1, FilledIs
<1>3. \A buf \in [Index -> Nat] : Ring(buf, 0, 0) = <<>>
  <2> SUFFICES ASSUME NEW buf \in [Index -> Nat]  PROVE Ring(buf, 0, 0) = <<>>
    OBVIOUS
  <2>1. Ring(buf, 0, 0) \in Seq(Nat) /\ Len(Ring(buf, 0, 0)) = 0
    BY <1>2, RingIs
  <2> QED  BY <2>1
<1>4. /\ tx_buf \in [Index -> Nat] /\ rx_buf \in [Index -> Nat]
      /\ written \in Nat /\ sent \in Nat
  BY <1>1 DEF Inv, BufferTypes, FifoTypes
<1>5. /\ tx_in = 0 /\ tx_out = 0 /\ rx_in = 0 /\ rx_out = 0 /\ wfifo = <<>> /\ rfifo = <<>>
  BY DEF Init
<1>6. Ring(tx_buf, tx_out, tx_in) = <<>> /\ Ring(rx_buf, rx_out, rx_in) = <<>>
  BY <1>3, <1>4, <1>5
<1>7. <<>> \o <<>> = <<>>
  OBVIOUS
<1> QED  BY <1>1, <1>4, <1>5, <1>6, <1>7 DEF PipeInv, Tx!Init, Rx!Init

\* What a call has looked up stays true until it is used.
THEOREM PipeInvariance == Spec => []PipeInv
<1>1. Init => PipeInv
  BY InitPipe, JtagUartAssumption
<1>2. PipeInv /\ [Next]_vars => PipeInv'
  BY HoldsStep, NextInv, JtagUartAssumption DEF PipeInv
<1> QED  BY <1>1, <1>2, PTL DEF Spec

\* What the program prints reaches the host in order, nothing lost, doubled or overwritten,
\* while the handler sends from the buffer that write is filling.
THEOREM WritesArriveInOrder == Spec => TxPipe
<1>1. Init => Tx!Init
  BY InitPipe, JtagUartAssumption
<1>2. PipeInv /\ [Next]_vars => [Tx!Next]_<<written, wfifo \o Ring(tx_buf, tx_out, tx_in)>>
  BY TxStep, JtagUartAssumption DEF TxQueue
<1> QED  BY <1>1, <1>2, PipeInvariance, PTL DEF Spec, TxPipe, Tx!Spec

\* What the host sends reaches the program in order, also when the buffer is full and read
\* interrupts are off.
THEOREM ReadsArriveInOrder == Spec => RxPipe
<1>1. Init => Rx!Init
  BY InitPipe, JtagUartAssumption
<1>2. PipeInv /\ [Next]_vars => [Rx!Next]_<<sent, Ring(rx_buf, rx_out, rx_in) \o rfifo>>
  BY RxStep, JtagUartAssumption DEF RxQueue
<1> QED  BY <1>1, <1>2, PipeInvariance, PTL DEF Spec, RxPipe, Rx!Spec
-----------------------------------------------------------------------------
(* The handlers come to an end *)

\* What the handlers still can do: send what is in the one buffer, fill up the other, turn
\* off an interrupt that is on, and serve the timer.
Count(b) == IF b THEN 1 ELSE 0
Work == Filled(tx_out, tx_in) + (BufLen - Filled(rx_out, rx_in))
        + Count("RE" \in irq_enable) + Count("WE" \in irq_enable) + Count(tpend)

\* How far they are from doing some of it, or from returning.
Distance ==
  CASE isr = "none"     -> 0
    [] isr = "dispatch" -> 4
    [] isr = "control"  -> IF RI \/ WI THEN 3 ELSE 5
    [] isr = "rx"       -> IF ravail THEN 2 ELSE 8
    [] isr = "rx_end"   -> IF ravail THEN 1 ELSE 7
    [] isr = "tx"       -> IF space > 0 THEN 1 ELSE 6
    [] isr = "timer"    -> 3

Load == 9 * Work + Distance

\* While handlers run, each of their steps lowers the load, and nothing raises it.
HandlersReturn == [][isr # "none" => Load' <= Load /\ (Handle => Load' < Load)]_vars

\* An interrupt that is being served is one that is on, and has something to do.
ServiceInv ==
  /\ isr \in {"rx", "rx_end"} => "RE" \in irq_enable
  /\ isr = "rx" /\ ravail => rfifo # <<>>
  /\ isr \in {"rx", "rx_end"} => (wi => "WE" \in irq_enable)
  /\ isr = "tx" => "WE" \in irq_enable
  /\ isr = "timer" => tpend

\* What a step leaves alone that the handlers' work is counted by.
WorkVars == <<tx_in, tx_out, rx_in, rx_out, irq_enable, tpend>>

\* The work and the distance are numbers.
LEMMA LoadType ==
  ASSUME JtagUartAssumption, Inv
  PROVE  Work \in 1 .. 2 * BufLen + 2 /\ Distance \in 0 .. 8
<1>1. /\ Filled(tx_out, tx_in) \in 0 .. BufLen - 1 /\ Filled(rx_out, rx_in) \in 0 .. BufLen - 1
      /\ BufLen \in Nat
  BY FilledIs DEF Inv, BufferTypes, JtagUartAssumption
<1>2. \A b : Count(b) \in 0 .. 1
  BY DEF Count
<1>3. Work \in 1 .. 2 * BufLen + 2
  <2> HIDE DEF Count
  <2> QED  BY <1>1, <1>2 DEF Work
<1>4. Distance \in 0 .. 8
  BY DEF Distance, Inv, ControlTypes
<1> QED  BY <1>3, <1>4

\* They still are after a step.
LEMMA LoadTypeNext ==
  ASSUME JtagUartAssumption, Inv'
  PROVE  Work' \in 1 .. 2 * BufLen + 2 /\ Distance' \in 0 .. 8
<1>1. /\ tx_out' \in Index /\ tx_in' \in Index /\ rx_out' \in Index /\ rx_in' \in Index
      /\ BufLen \in Nat
  BY DEF Inv, BufferTypes, JtagUartAssumption
<1>2. Filled(tx_out', tx_in') \in 0 .. BufLen - 1 /\ Filled(rx_out', rx_in') \in 0 .. BufLen - 1
  BY <1>1, FilledIs
<1>3. \A b : Count(b) \in 0 .. 1
  BY DEF Count
<1>4. Work' = Filled(tx_out', tx_in') + (BufLen - Filled(rx_out', rx_in'))
              + Count("RE" \in irq_enable') + Count("WE" \in irq_enable') + Count(tpend')
  BY DEF Work, Filled
<1>5. Work' \in 1 .. 2 * BufLen + 2
  <2> HIDE DEF Count
  <2> QED  BY <1>1, <1>2, <1>3, <1>4
<1>6. Distance' \in 0 .. 8
  BY DEF Distance, Inv, ControlTypes
<1> QED  BY <1>5, <1>6

\* The load of some work at some distance.
LEMMA LoadOf ==
  ASSUME NEW w \in Nat, NEW d \in Nat, NEW e \in Nat, e <= d
  PROVE  9 * w + d \in Nat /\ 9 * w + e <= 9 * w + d
OBVIOUS

\* So is the load, and it has a bound.
LEMMA LoadNat ==
  ASSUME JtagUartAssumption
  PROVE  /\ Inv => Load \in 0 .. 18 * BufLen + 26 /\ Load \in Nat
         /\ Inv' => Load' \in Nat
<1>1. BufLen \in Nat
  BY DEF JtagUartAssumption
<1>2. ASSUME Inv PROVE Load \in 0 .. 18 * BufLen + 26 /\ Load \in Nat
  BY <1>1, <1>2, LoadType DEF Load
<1>3. ASSUME Inv' PROVE Load' \in Nat
  <2>1. Work' \in 1 .. 2 * BufLen + 2 /\ Distance' \in 0 .. 8
    BY <1>3, LoadTypeNext
  <2>2. Load' = 9 * Work' + Distance'
    BY DEF Load
  <2>3. Work' \in Nat /\ Distance' \in Nat /\ Distance' <= Distance'
    BY <1>1, <2>1
  <2>4. 9 * Work' + Distance' \in Nat
    BY <2>3, LoadOf
  <2> QED  BY <2>2, <2>4
<1> QED  BY <1>2, <1>3

\* Work that is done pays for any distance.
LEMMA WorkPays ==
  ASSUME NEW w \in Nat, NEW u \in Nat, NEW d \in 0 .. 8, NEW e \in 0 .. 8,
         u + 1 <= w \/ (u = w /\ e + 1 <= d)
  PROVE  9 * u + e < 9 * w + d
OBVIOUS

\* A step of a handler does some work, or leaves it and gets nearer.
LEMMA HandleLowers ==
  ASSUME JtagUartAssumption, Inv, Inv', ServiceInv, isr # "none", Handle
  PROVE  Load' < Load
<1> USE DEF Handler, bootVars, txVars, rxVars, hostVars, timeVars, callVars, isrVars
<1>1. /\ Work \in Nat /\ Work' \in Nat /\ Distance \in 0 .. 8 /\ Distance' \in 0 .. 8
  <2>1. BufLen \in Nat  BY DEF JtagUartAssumption
  <2>2. Work' \in 1 .. 2 * BufLen + 2 /\ Distance' \in 0 .. 8  BY LoadTypeNext
  <2> QED  BY <2>1, <2>2, LoadType
<1> SUFFICES Work' + 1 <= Work \/ (Work' = Work /\ Distance' + 1 <= Distance)
  BY <1>1, WorkPays DEF Load
<1>2. ASSUME UNCHANGED WorkVars PROVE Work' = Work
  BY <1>2 DEF Work, WorkVars, Filled
<1>3. /\ Filled(tx_out, tx_in) \in Nat /\ Filled(rx_out, rx_in) \in Nat /\ BufLen \in Nat
      /\ tx_out # tx_in => 1 <= Filled(tx_out, tx_in)
      /\ \A b : Count(b) \in 0 .. 1
  BY FilledNat DEF Inv, BufferTypes, JtagUartAssumption, Count
<1>4. CASE Interrupt
  BY <1>4 DEF Interrupt
<1>5. CASE alt_irq_handler
  <2>1. Work' = Work
    BY <1>2, <1>5 DEF alt_irq_handler, WorkVars
  <2>2. isr = "dispatch" /\ isr' \in {"none", "control", "timer"}
    BY <1>5 DEF alt_irq_handler
  <2>3. isr' = "control" => (RI \/ WI)'
    BY <1>5 DEF alt_irq_handler, Pending, RI, WI
  <2> QED  BY <2>1, <2>2, <2>3 DEF Distance
<1>6. CASE ReadControl
  <2>1. Work' = Work
    BY <1>2, <1>6 DEF ReadControl, WorkVars
  <2>2. CASE RI
    BY <1>6, <2>1, <2>2 DEF ReadControl, Distance
  <2>3. CASE ~RI /\ WI
    <3>1. space' = WriteDepth - Len(wfifo) /\ Len(wfifo) <= WriteThreshold /\ isr' = "tx"
      BY <1>6, <2>3 DEF ReadControl, WI
    <3>2. /\ wfifo \in Seq(Nat) /\ WriteThreshold \in Nat /\ WriteDepth \in Nat
          /\ WriteThreshold < WriteDepth
      BY DEF Inv, FifoTypes, JtagUartAssumption
    <3>3. Len(wfifo) \in Nat
      BY <3>2
    <3>4. space' > 0
      BY <3>1, <3>2, <3>3
    <3> QED  BY <1>6, <2>1, <2>3, <3>1, <3>4 DEF ReadControl, Distance
  <2>4. CASE ~RI /\ ~WI
    BY <1>6, <2>1, <2>4 DEF ReadControl, Distance
  <2> QED  BY <2>2, <2>3, <2>4
<1>7. CASE Receive
  <2>1. isr = "rx"
    BY <1>7 DEF Receive
  <2>2. CASE Full
    <3>1. /\ isr' = "rx_end" /\ ravail' = ravail
          /\ UNCHANGED WorkVars
      BY <1>7, <2>2 DEF Receive, WorkVars
    <3> QED  BY <1>2, <2>1, <3>1 DEF Distance
  <2>3. CASE ~Full /\ rfifo = <<>>
    <3>1. isr' = "rx_end" /\ ravail' = FALSE /\ UNCHANGED WorkVars /\ ~ravail
      BY <1>7, <2>1, <2>3 DEF Receive, WorkVars, ServiceInv, Inv, ControlTypes
    <3> QED  BY <1>2, <2>1, <3>1 DEF Distance
  <2>4. CASE ~Full /\ rfifo # <<>>
    <3>1. rx_in' = After(rx_in, 1) /\ UNCHANGED <<tx_in, tx_out, rx_out, irq_enable, tpend>>
      BY <1>7, <2>4 DEF Receive
    <3>2. Filled(rx_out, After(rx_in, 1)) = Filled(rx_out, rx_in) + 1
      <4>1. rx_in + 1 <= BufLen /\ Filled(rx_out, rx_in) + 1 <= BufLen - 1
        BY <2>4, NotFull DEF Inv
      <4>2. 1 \in 1 .. BufLen
        BY DEF JtagUartAssumption
      <4>3. rx_buf \in [Index -> Nat] /\ rx_out \in Index /\ rx_in \in Index
        BY DEF Inv, BufferTypes
      <4> QED  BY <4>1, <4>2, <4>3, RingPut
    <3>3. Work' = Filled(tx_out, tx_in) + (BufLen - (Filled(rx_out, rx_in) + 1))
                  + Count("RE" \in irq_enable) + Count("WE" \in irq_enable) + Count(tpend)
      BY <3>1, <3>2 DEF Work, Filled
    <3> HIDE DEF Count
    <3> QED  BY <1>3, <3>3 DEF Work
  <2> QED  BY <2>2, <2>3, <2>4
<1>8. CASE ReceiveEnd
  <2>1. isr = "rx_end" /\ UNCHANGED <<tx_in, tx_out, rx_in, rx_out, tpend, space>>
    BY <1>8 DEF ReceiveEnd
  <2>2. CASE ravail
    <3>1. /\ "RE" \in irq_enable /\ "RE" \notin irq_enable'
          /\ "WE" \in irq_enable' <=> "WE" \in irq_enable
      BY <1>8, <2>1, <2>2 DEF ReceiveEnd, ServiceInv
    <3>2. /\ Count("RE" \in irq_enable) = 1 /\ Count("RE" \in irq_enable') = 0
          /\ Count("WE" \in irq_enable') = Count("WE" \in irq_enable)
      BY <3>1 DEF Count
    <3>3. Work' = Filled(tx_out, tx_in) + (BufLen - Filled(rx_out, rx_in))
                  + 0 + Count("WE" \in irq_enable) + Count(tpend)
      BY <2>1, <3>2 DEF Work, Filled
    <3> HIDE DEF Count
    <3> QED  BY <1>3, <3>2, <3>3 DEF Work
  <2>3. CASE ~ravail
    <3>1. UNCHANGED WorkVars /\ isr' \in {"tx", "control"}
      BY <1>8, <2>1, <2>3 DEF ReceiveEnd, WorkVars
    <3> QED  BY <1>2, <2>1, <2>3, <3>1 DEF Distance
  <2> QED  BY <2>2, <2>3
<1>9. CASE Transmit
  <2>1. /\ tx_out # tx_in /\ tx_out' = After(tx_out, 1)
        /\ UNCHANGED <<tx_in, rx_in, rx_out, irq_enable, tpend>>
    BY <1>9 DEF Transmit
  <2>2. Filled(After(tx_out, 1), tx_in) = Filled(tx_out, tx_in) - 1
    <3>1. 1 \in 1 .. BufLen /\ tx_out + 1 <= BufLen
      BY DEF JtagUartAssumption, Inv, BufferTypes, Index
    <3>2. tx_buf \in [Index -> Nat] /\ tx_out \in Index /\ tx_in \in Index
      BY DEF Inv, BufferTypes
    <3> QED  BY <1>3, <2>1, <3>1, <3>2, RingTake
  <2>3. Work' = (Filled(tx_out, tx_in) - 1) + (BufLen - Filled(rx_out, rx_in))
                + Count("RE" \in irq_enable) + Count("WE" \in irq_enable) + Count(tpend)
    BY <2>1, <2>2 DEF Work, Filled
  <2> HIDE DEF Count
  <2> QED  BY <1>3, <2>3 DEF Work
<1>10. CASE TransmitEnd
  <2>1. isr = "tx" /\ isr' = "control" /\ UNCHANGED <<tx_in, tx_out, rx_in, rx_out, tpend>>
    BY <1>10 DEF TransmitEnd
  <2>2. CASE space > 0
    <3>1. /\ "WE" \in irq_enable /\ "WE" \notin irq_enable'
          /\ "RE" \in irq_enable' <=> "RE" \in irq_enable
      BY <1>10, <2>1, <2>2 DEF TransmitEnd, Stop, ServiceInv
    <3>2. /\ Count("WE" \in irq_enable) = 1 /\ Count("WE" \in irq_enable') = 0
          /\ Count("RE" \in irq_enable') = Count("RE" \in irq_enable)
      BY <3>1 DEF Count
    <3>3. Work' = Filled(tx_out, tx_in) + (BufLen - Filled(rx_out, rx_in))
                  + Count("RE" \in irq_enable) + 0 + Count(tpend)
      BY <2>1, <3>2 DEF Work, Filled
    <3> HIDE DEF Count
    <3> QED  BY <1>3, <3>2, <3>3 DEF Work
  <2>3. CASE ~(space > 0)
    <3>1. UNCHANGED WorkVars
      BY <1>10, <2>1, <2>3 DEF TransmitEnd, Stop, WorkVars
    <3> QED  BY <1>2, <2>1, <2>3, <3>1 DEF Distance
  <2> QED  BY <2>2, <2>3
<1>11. CASE TimerIrq
  <2>1. /\ isr = "timer" /\ tpend /\ tpend' = FALSE
        /\ UNCHANGED <<tx_in, tx_out, rx_in, rx_out, irq_enable>>
    BY <1>11 DEF TimerIrq, ServiceInv
  <2>2. Count(tpend) = 1 /\ Count(tpend') = 0
    BY <2>1 DEF Count
  <2>3. Work' = Filled(tx_out, tx_in) + (BufLen - Filled(rx_out, rx_in))
                + Count("RE" \in irq_enable) + Count("WE" \in irq_enable) + 0
    BY <2>1, <2>2 DEF Work, Filled
  <2> HIDE DEF Count
  <2> QED  BY <1>3, <2>2, <2>3 DEF Work
<1> QED  BY <1>4, <1>5, <1>6, <1>7, <1>8, <1>9, <1>10, <1>11 DEF Handle

\* The host, whatever it takes or sends meanwhile, can only bring the handlers nearer.
LEMMA OthersKeep ==
  ASSUME JtagUartAssumption, Inv, Inv', isr # "none", [Next]_vars, ~Handle
  PROVE  Load' <= Load
<1> USE DEF bootVars, txVars, rxVars, hostVars, timeVars, callVars, isrVars
<1>1. /\ Work \in Nat /\ Work' \in Nat /\ Distance \in 0 .. 8 /\ Distance' \in 0 .. 8
  <2>1. BufLen \in Nat  BY DEF JtagUartAssumption
  <2>2. Work' \in 1 .. 2 * BufLen + 2 /\ Distance' \in 0 .. 8  BY LoadTypeNext
  <2> QED  BY <2>1, <2>2, LoadType
<1>2. ASSUME UNCHANGED WorkVars PROVE Work' = Work
  BY <1>2 DEF Work, WorkVars, Filled
<1>3. HostTakes \/ HostSends \/ UNCHANGED vars
  BY DEF Next, Boot, alt_irq_init, TimerInit, UartEnable, UartRegister, UartAlarm, Call, Write,
     WriteLook, WriteCopy, WriteIn, WriteKick, WriteWait, WriteCheck, Read, ReadLook, ReadOut,
     ReadEnable, ReadWait, ReadCheck, CloseWait, SetTimeout, Second, Program
<1>4. UNCHANGED WorkVars /\ UNCHANGED <<isr, ravail, space>>
  BY <1>3 DEF HostTakes, HostSends, vars, WorkVars
<1>5. (RI => RI') /\ (WI => WI')
  <2>1. CASE HostTakes
    <3>1. wfifo \in Seq(Nat) /\ wfifo # <<>> /\ wfifo' = Tail(wfifo)
      BY <2>1 DEF HostTakes, Inv, FifoTypes
    <3>2. Len(wfifo') <= Len(wfifo) /\ Len(wfifo') \in Nat /\ Len(wfifo) \in Nat
      BY <3>1
    <3>3. WriteThreshold \in Nat
      BY DEF JtagUartAssumption
    <3> QED  BY <2>1, <3>2, <3>3 DEF HostTakes, RI, WI
  <2>2. CASE HostSends
    <3>1. rfifo \in Seq(Nat) /\ sent + 1 \in Nat /\ rfifo' = Append(rfifo, sent + 1)
      BY <2>2 DEF HostSends, Inv, FifoTypes
    <3>2. rfifo' # <<>>
      BY <3>1
    <3> QED  BY <2>2, <3>2 DEF HostSends, RI, WI
  <2>3. CASE UNCHANGED vars
    BY <2>3 DEF vars, RI, WI
  <2> QED  BY <1>3, <2>1, <2>2, <2>3
<1>6. Distance' <= Distance
  BY <1>4, <1>5 DEF Distance, Inv, ControlTypes
<1>7. Work' = Work
  BY <1>2, <1>4
<1>8. Load = 9 * Work + Distance /\ Load' = 9 * Work' + Distance'
  BY DEF Load
<1>9. 9 * Work + Distance' <= 9 * Work + Distance
  <2>1. Distance \in Nat /\ Distance' \in Nat
    BY <1>1
  <2> QED  BY <1>1, <1>6, <2>1, LoadOf
<1> QED  BY <1>7, <1>8, <1>9

\* What is served is on.
LEMMA ServiceStep ==
  ASSUME JtagUartAssumption, Inv, ServiceInv, [Next]_vars
  PROVE  ServiceInv'
<1> USE DEF bootVars, txVars, rxVars, hostVars, timeVars, callVars, isrVars, ServiceInv
<1>1. CASE isr = "none" /\ ~Interrupt
  <2>1. isr' = "none"
    BY <1>1 DEF Next, Boot, alt_irq_init, TimerInit, UartEnable, UartRegister, UartAlarm, Call,
       Write, WriteLook, WriteCopy, WriteIn, WriteKick, WriteWait, WriteCheck, Read, ReadLook,
       ReadOut, ReadEnable, ReadWait, ReadCheck, CloseWait, SetTimeout, Second, Program,
       Handle, alt_irq_handler, ReadControl, Receive, ReceiveEnd, Transmit, TransmitEnd,
       TimerIrq, HostTakes, HostSends, vars
  <2> QED  BY <2>1
<1>2. CASE Interrupt
  BY <1>2 DEF Interrupt
<1>3. CASE isr # "none" /\ ~Handle
  <2>1. HostTakes \/ HostSends \/ UNCHANGED vars
    BY <1>3 DEF Next, Boot, alt_irq_init, TimerInit, UartEnable, UartRegister, UartAlarm, Call,
       Write, WriteLook, WriteCopy, WriteIn, WriteKick, WriteWait, WriteCheck, Read, ReadLook,
       ReadOut, ReadEnable, ReadWait, ReadCheck, CloseWait, SetTimeout, Second, Program
  <2>2. UNCHANGED <<isr, ravail, wi, irq_enable, tpend>>
    BY <2>1 DEF HostTakes, HostSends, vars
  <2>3. rfifo # <<>> => rfifo' # <<>>
    BY <2>1 DEF HostTakes, HostSends, vars, Inv, FifoTypes
  <2> QED  BY <2>2, <2>3
<1>4. CASE alt_irq_handler
  BY <1>4 DEF alt_irq_handler, Pending, Inv, ControlTypes, Lines
<1>5. CASE ReadControl
  BY <1>5 DEF ReadControl, RI, WI
<1>6. CASE Receive
  <2>1. isr = "rx" /\ UNCHANGED <<irq_enable, wi, tpend>>
    BY <1>6 DEF Receive
  <2>2. CASE Full
    BY <1>6, <2>1, <2>2 DEF Receive
  <2>3. CASE ~Full /\ rfifo = <<>>
    BY <1>6, <2>1, <2>3 DEF Receive
  <2>4. CASE ~Full /\ rfifo # <<>>
    <3>1. isr' = isr /\ ravail' = (rfifo' # <<>>)
      BY <1>6, <2>4 DEF Receive
    <3> QED  BY <2>1, <3>1
  <2> QED  BY <2>2, <2>3, <2>4
<1>7. CASE ReceiveEnd
  BY <1>7 DEF ReceiveEnd
<1>8. CASE Transmit
  BY <1>8 DEF Transmit
<1>9. CASE TransmitEnd
  BY <1>9 DEF TransmitEnd
<1>10. CASE TimerIrq
  BY <1>10 DEF TimerIrq
<1> QED  BY <1>1, <1>2, <1>3, <1>4, <1>5, <1>6, <1>7, <1>8, <1>9, <1>10 DEF Handle

\* altera_avalon_jtag_uart_irq and alt_irq_handler, which loop until nothing is pending,
\* return after a bounded number of steps, however fast the host takes and sends meanwhile.
THEOREM HandlersAlwaysReturn == Spec => HandlersReturn /\ [](Load \in 0 .. 18 * BufLen + 26)
<1>1. Init => ServiceInv
  BY DEF Init, ServiceInv
<1>2. Inv /\ ServiceInv /\ [Next]_vars => ServiceInv'
  BY ServiceStep, JtagUartAssumption
<1>3. Inv /\ Inv' /\ ServiceInv /\ [Next]_vars
        => [isr # "none" => Load' <= Load /\ (Handle => Load' < Load)]_vars
  <2> SUFFICES ASSUME Inv, Inv', ServiceInv, [Next]_vars, isr # "none"
               PROVE  Load' <= Load /\ (Handle => Load' < Load)
    OBVIOUS
  <2>1. CASE Handle
    <3>1. Load' < Load
      BY <2>1, HandleLowers, JtagUartAssumption
    <3>2. Load \in Nat /\ Load' \in Nat
      BY LoadNat, JtagUartAssumption
    <3> QED  BY <3>1, <3>2
  <2>2. CASE ~Handle
    BY <2>2, OthersKeep, JtagUartAssumption
  <2> QED  BY <2>1, <2>2
<1>4. Inv => Load \in 0 .. 18 * BufLen + 26
  BY LoadNat, JtagUartAssumption
<1> QED  BY <1>1, <1>2, <1>3, <1>4, Invariance, PTL DEF Spec, HandlersReturn
=============================================================================
