------------------------------ MODULE JtagUart ------------------------------
(***************************************************************************)
(* The interrupt driven driver of the JTAG UART, through which every       *)
(* printf of the keyboard program goes, together with what it stands on:   *)
(* the order in which alt_main brings up the interrupts and the devices,   *)
(* and the dispatcher that calls the handlers.                             *)
(*                                                                         *)
(* Three parties share the two ring buffers: the program, in a call of     *)
(* write, read or close (pc); the interrupt handlers, which run between    *)
(* any two steps of the program but not the other way round (isr); and the *)
(* host, which takes from and adds to the FIFOs of the UART at any time,   *)
(* or goes away.  irq_enable is copied to the control register wherever it *)
(* changes, so that one variable stands for both.                          *)
(***************************************************************************)
EXTENDS Naturals, Sequences

CONSTANTS
  BufLen,        \* ALTERA_AVALON_JTAG_UART_BUF_LEN
  WriteDepth, WriteThreshold, ReadDepth,   \* the FIFOs of the UART
  IntMax,        \* INT_MAX
  DefaultTimeout,
  Timeouts,      \* what TIOCSTIMEOUT asks for
  MaxCount,      \* bound: the characters of one call
  MaxChars,      \* bound: the last number of a character, in each direction
  Starts         \* bound: the numbers after which the two directions start

ASSUME JtagUartAssumption ==
  /\ BufLen \in Nat /\ BufLen >= 2
  /\ WriteDepth \in Nat \ {0} /\ WriteThreshold \in 0 .. WriteDepth - 1
  /\ ReadDepth \in Nat \ {0}
  /\ IntMax \in Nat /\ IntMax >= 4
  /\ DefaultTimeout \in 2 .. IntMax - 2
  /\ Timeouts \subseteq 0 .. IntMax
  /\ MaxCount \in Nat \ {0} /\ MaxChars \in Nat
  /\ Starts \subseteq (0 .. MaxChars) \X (0 .. MaxChars)

VARIABLES
  pc, isr,                       \* where the program and the handlers are
  ienable, handlers,             \* IENABLE; the lines that have a handler in alt_irq
  alarm, tpend,                  \* the alarm is started; the timer's interrupt is pending
  tx_buf, tx_in, tx_out,
  rx_buf, rx_in, rx_out,
  irq_enable,                    \* subset of {"RE", "WE"}
  host_inactive, timeout,
  in, out, n, left, some, nonblock,   \* locals of a call: the pointers it has read, the
                                      \* length it copies, what is left, whether it got any
  wi, space, ravail,         \* locals of the handler
  wfifo, rfifo, ac,              \* the UART's FIFOs and its activity bit
  written, sent                  \* history: the last character of either direction

bootVars == <<ienable, handlers, alarm>>
txVars == <<tx_buf, tx_in, tx_out, written>>
rxVars == <<rx_buf, rx_in, rx_out>>
hostVars == <<wfifo, rfifo, ac, sent>>
timeVars == <<host_inactive, timeout>>
NoCall == /\ in' = 0 /\ out' = 0 /\ n' = 0 /\ left' = 0 /\ some' = FALSE /\ nonblock' = FALSE
callVars == <<in, out, n, left, some, nonblock>>
isrVars == <<wi, space, ravail>>
vars == <<pc, isr, bootVars, tpend, txVars, rxVars, hostVars, irq_enable, timeVars,
          callVars, isrVars>>

Lines == {"jtag", "timer"}
Index == 0 .. BufLen - 1
Min2(a, b) == IF a <= b THEN a ELSE b
----------------------------------------------------------------------------
(* Interrupts *)

RI == "RE" \in irq_enable /\ rfifo # <<>>
WI == "WE" \in irq_enable /\ Len(wfifo) <= WriteThreshold
Pending == {l \in ienable : IF l = "timer" THEN tpend ELSE RI \/ WI}

\* The program runs while no handler does.
Program == isr = "none" /\ UNCHANGED <<isr, tpend, isrVars>>
Handler == isr # "none" /\ UNCHANGED <<pc, bootVars, callVars>>

Interrupt ==
  /\ isr = "none" /\ pc # "irq_init"
  /\ Pending # {}
  /\ isr' = "dispatch"
  /\ UNCHANGED <<pc, bootVars, tpend, txVars, rxVars, hostVars, irq_enable, timeVars, callVars,
                 isrVars>>

\* alt_irq_handler: the lowest line first, until none is pending.
alt_irq_handler ==
  /\ isr = "dispatch"
  /\ isr' = IF Pending = {} THEN "none" ELSE IF "jtag" \in Pending THEN "control" ELSE "timer"
  /\ Handler
  /\ UNCHANGED <<tpend, txVars, rxVars, hostVars, irq_enable, timeVars, isrVars>>
----------------------------------------------------------------------------
(* alt_main: the system comes up *)

\* Mutant: the lines a previous program had enabled stay so.
ienableKept == UNCHANGED ienable

\* altera_nios2_gen2_irq_init disables every line.
altera_nios2_gen2_irq_init == ienable' = {}

alt_irq_init ==
  /\ pc = "irq_init"
  /\ altera_nios2_gen2_irq_init
  /\ pc' = "timer_init"
  /\ Program
  /\ UNCHANGED <<handlers, alarm, txVars, rxVars, hostVars, irq_enable, timeVars, callVars>>

\* alt_iic_isr_register, with interrupts off.
alt_iic_isr_register(line) == /\ handlers' = handlers \union {line}
                              /\ ienable' = ienable \union {line}

TimerInit ==
  /\ pc = "timer_init"
  /\ alt_iic_isr_register("timer")
  /\ pc' = "uart_enable"
  /\ Program
  /\ UNCHANGED <<alarm, txVars, rxVars, hostVars, irq_enable, timeVars, callVars>>

\* altera_avalon_jtag_uart_init enables read interrupts, registers the handler and
\* starts the alarm of every second.
UartEnable ==
  /\ pc = "uart_enable"
  /\ irq_enable' = {"RE"}
  /\ pc' = "uart_register"
  /\ Program
  /\ UNCHANGED <<bootVars, txVars, rxVars, hostVars, timeVars, callVars>>

UartRegister ==
  /\ pc = "uart_register"
  /\ alt_iic_isr_register("jtag")
  /\ pc' = "uart_alarm"
  /\ Program
  /\ UNCHANGED <<alarm, txVars, rxVars, hostVars, irq_enable, timeVars, callVars>>

\* The alarm needs a timer that is initialised.
UartAlarm ==
  /\ pc = "uart_alarm"
  /\ host_inactive' = 0
  /\ alarm' = ("timer" \in handlers)
  /\ timeout' = IF alarm' THEN timeout ELSE IntMax
  /\ pc' = "ready"
  /\ Program
  /\ UNCHANGED <<ienable, handlers, txVars, rxVars, hostVars, irq_enable, callVars>>
----------------------------------------------------------------------------
(* altera_avalon_jtag_uart_write *)

\* A call goes on at step next, or returns, and its locals are no more.
GoTo(next, locals) ==
  /\ pc' = next
  /\ IF next = "ready" THEN NoCall ELSE UNCHANGED locals

\* A call of write, of read, of close.
Call ==
  /\ pc = "ready"
  /\ pc' \in {"w_look", "r_look", "c_wait"}
  /\ left' \in 1 .. MaxCount
  /\ pc' = "w_look" => written + left' <= MaxChars
  /\ nonblock' \in BOOLEAN
  /\ some' = FALSE
  /\ Program
  /\ UNCHANGED <<bootVars, txVars, rxVars, hostVars, irq_enable, timeVars, in, out, n>>

\* Mutant: the cell between in and out is used too.
RoomWithoutGap(i, o) == IF i < o THEN o - 1 - i ELSE BufLen - i

\* The cells that can be filled in one piece, without letting in catch up with out.
Room(i, o) == IF i < o THEN o - 1 - i
              ELSE IF o > 0 THEN BufLen - i
              ELSE BufLen - 1 - i

\* The pointers are read and the length of the next piece is worked out.
WriteLook ==
  /\ pc = "w_look"
  /\ in' = tx_in /\ out' = tx_out
  /\ n' = Min2(Room(tx_in, tx_out), left)
  /\ pc' = IF n' = 0 THEN "w_kick" ELSE "w_copy"
  /\ Program
  /\ UNCHANGED <<bootVars, txVars, rxVars, hostVars, irq_enable, timeVars, left, some, nonblock>>

WriteCopy ==
  /\ pc = "w_copy"
  /\ tx_buf' = [i \in Index |-> IF i \in in .. in + n - 1 THEN written + 1 + i - in ELSE tx_buf[i]]
  /\ pc' = "w_in"
  /\ Program
  /\ UNCHANGED <<bootVars, tx_in, tx_out, written, rxVars, hostVars, irq_enable, timeVars, callVars>>

\* The pointer k cells further.
After(i, k) == (i + k) % BufLen

WriteIn ==
  /\ pc = "w_in"
  /\ tx_in' = After(in, n)
  /\ written' = written + n
  /\ left' = left - n /\ some' = TRUE
  /\ pc' = "w_look"
  /\ Program
  /\ UNCHANGED <<bootVars, tx_buf, tx_out, rxVars, hostVars, irq_enable, timeVars, in, out, n,
                 nonblock>>

\* The interrupt routine is made to transmit, every time.
Kick == irq_enable' = irq_enable \union {"WE"}

WriteKick ==
  /\ pc = "w_kick"
  /\ Kick
  /\ GoTo(IF left > 0 /\ ~nonblock THEN "w_wait" ELSE "ready", callVars)
  /\ Program
  /\ UNCHANGED <<bootVars, txVars, rxVars, hostVars, timeVars>>

HostSeemsGone == host_inactive >= timeout

WriteWait ==
  /\ pc = "w_wait"
  /\ out # tx_out \/ HostSeemsGone
  /\ pc' = "w_check"
  /\ Program
  /\ UNCHANGED <<bootVars, txVars, rxVars, hostVars, irq_enable, timeVars, callVars>>

\* A host that has been inactive for any time ends the call.
WriteCheck ==
  /\ pc = "w_check"
  /\ GoTo(IF host_inactive > 0 THEN "ready" ELSE "w_look", callVars)
  /\ Program
  /\ UNCHANGED <<bootVars, txVars, rxVars, hostVars, irq_enable, timeVars>>
----------------------------------------------------------------------------
(* altera_avalon_jtag_uart_read *)

ReadLook ==
  /\ pc = "r_look"
  /\ LET k == Min2(IF rx_in >= rx_out THEN rx_in - rx_out ELSE BufLen - rx_out, left)
     IN  IF k = 0 /\ ~some /\ nonblock THEN pc' = "ready" /\ NoCall
         ELSE /\ in' = rx_in /\ out' = rx_out /\ n' = k
              /\ pc' = IF k > 0 THEN "r_out" ELSE IF some THEN "r_enable" ELSE "r_wait"
              /\ UNCHANGED <<left, some, nonblock>>
  /\ Program
  /\ UNCHANGED <<bootVars, txVars, rxVars, hostVars, irq_enable, timeVars>>

\* The characters have been copied and their cells are given back.
ReadOut ==
  /\ pc = "r_out"
  /\ rx_out' = After(out, n)
  /\ left' = left - n /\ some' = TRUE
  /\ pc' = IF left' > 0 THEN "r_look" ELSE "r_enable"
  /\ Program
  /\ UNCHANGED <<bootVars, txVars, rx_buf, rx_in, hostVars, irq_enable, timeVars, in, out, n,
                 nonblock>>

\* Mutant: read interrupts are enabled only if the call was not satisfied.
EnableIfLeft == irq_enable' = IF left > 0 THEN irq_enable \union {"RE"} ELSE irq_enable

\* There is space in the buffer now.
EnableRead == irq_enable' = irq_enable \union {"RE"}

ReadEnable ==
  /\ pc = "r_enable"
  /\ EnableRead
  /\ GoTo("ready", callVars)
  /\ Program
  /\ UNCHANGED <<bootVars, txVars, rxVars, hostVars, timeVars>>

ReadWait ==
  /\ pc = "r_wait"
  /\ in # rx_in \/ HostSeemsGone
  /\ pc' = "r_check"
  /\ Program
  /\ UNCHANGED <<bootVars, txVars, rxVars, hostVars, irq_enable, timeVars, callVars>>

ReadCheck ==
  /\ pc = "r_check"
  /\ GoTo(IF in = rx_in THEN "ready" ELSE "r_look", callVars)
  /\ Program
  /\ UNCHANGED <<bootVars, txVars, rxVars, hostVars, irq_enable, timeVars>>
----------------------------------------------------------------------------
(* altera_avalon_jtag_uart_close and _ioctl *)

\* close waits until everything is transmitted.
CloseWait ==
  /\ pc = "c_wait"
  /\ tx_out = tx_in \/ HostSeemsGone \/ nonblock
  /\ GoTo("ready", callVars)
  /\ Program
  /\ UNCHANGED <<bootVars, txVars, rxVars, hostVars, irq_enable, timeVars>>

\* TIOCSTIMEOUT, refused if there is no alarm; IntMax - 1 is never reached.
SetTimeout ==
  /\ pc = "ready"
  /\ timeout # IntMax
  /\ \E t \in Timeouts : timeout' = IF t >= 2 /\ t < IntMax THEN t ELSE IntMax - 1
  /\ Program
  /\ UNCHANGED <<pc, bootVars, txVars, rxVars, hostVars, irq_enable, host_inactive, callVars>>
----------------------------------------------------------------------------
(* altera_avalon_jtag_uart_irq *)

\* The control register is read; once nothing is to be done the handler returns.
ReadControl ==
  /\ isr = "control"
  /\ wi' = WI /\ ravail' = RI
  /\ space' = IF WI THEN WriteDepth - Len(wfifo) ELSE 0
  /\ isr' = IF RI THEN "rx" ELSE IF WI THEN "tx" ELSE "dispatch"
  /\ Handler
  /\ UNCHANGED <<tpend, txVars, rxVars, hostVars, irq_enable, timeVars>>

\* Mutant: there is always room.
NeverFull == FALSE

\* No character may be read from the UART if there is no cell for it.
Full == After(rx_in, 1) = rx_out

\* One character moves from the UART into the buffer.
Receive ==
  /\ isr = "rx"
  /\ IF Full THEN isr' = "rx_end" /\ UNCHANGED <<rxVars, rfifo, ravail>>
     ELSE IF rfifo = <<>> THEN isr' = "rx_end" /\ ravail' = FALSE /\ UNCHANGED <<rxVars, rfifo>>
     ELSE /\ rx_buf' = [rx_buf EXCEPT ![rx_in] = Head(rfifo)]
          /\ rx_in' = After(rx_in, 1)
          /\ rfifo' = Tail(rfifo)
          /\ ravail' = (rfifo' # <<>>)
          /\ UNCHANGED <<isr, rx_out>>
  /\ Handler
  /\ UNCHANGED <<tpend, txVars, wfifo, ac, sent, irq_enable, timeVars, wi, space>>

\* If more is there the buffer is full, and read interrupts are turned off.
ReceiveEnd ==
  /\ isr = "rx_end"
  /\ irq_enable' = IF ravail THEN irq_enable \ {"RE"} ELSE irq_enable
  /\ isr' = IF wi THEN "tx" ELSE "control"
  /\ ravail' = FALSE
  /\ Handler
  /\ UNCHANGED <<tpend, txVars, rxVars, hostVars, timeVars, wi, space>>

\* One character moves from the buffer to the UART.
Transmit ==
  /\ isr = "tx"
  /\ space > 0 /\ tx_out # tx_in
  /\ wfifo' = Append(wfifo, tx_buf[tx_out])
  /\ tx_out' = After(tx_out, 1)
  /\ space' = space - 1
  /\ Handler
  /\ UNCHANGED <<isr, tpend, tx_buf, tx_in, written, rxVars, rfifo, ac, sent, irq_enable,
                 timeVars, wi, ravail>>

\* Mutant: the interrupt goes off although there is something to send.
StopAlways == irq_enable' = irq_enable \ {"WE"}

\* If space is left there is nothing to send, and write interrupts are turned off.
Stop == irq_enable' = IF space > 0 THEN irq_enable \ {"WE"} ELSE irq_enable

TransmitEnd ==
  /\ isr = "tx"
  /\ space = 0 \/ tx_out = tx_in
  /\ Stop
  /\ isr' = "control"
  /\ wi' = FALSE /\ space' = 0
  /\ Handler
  /\ UNCHANGED <<tpend, txVars, rxVars, hostVars, timeVars, ravail>>
----------------------------------------------------------------------------
(* The timer and its alarm *)

\* Mutant: any activity ever keeps the host alive.
CountsNever == host_inactive' = IF ac THEN 0 ELSE host_inactive

\* altera_avalon_jtag_uart_timeout counts the seconds without activity.
CountInactive ==
  host_inactive' = IF ac THEN 0
                   ELSE IF host_inactive < IntMax - 2 THEN host_inactive + 1
                   ELSE host_inactive

TimerIrq ==
  /\ isr = "timer"
  /\ tpend' = FALSE
  /\ IF alarm THEN CountInactive /\ ac' = FALSE ELSE UNCHANGED <<host_inactive, ac>>
  /\ isr' = "dispatch"
  /\ Handler
  /\ UNCHANGED <<txVars, rxVars, wfifo, rfifo, sent, irq_enable, timeout, isrVars>>

\* A second is over; the handlers take less.
Second ==
  /\ isr = "none" /\ ~tpend
  /\ tpend' = TRUE
  /\ UNCHANGED <<pc, isr, bootVars, txVars, rxVars, hostVars, irq_enable, timeVars, callVars,
                 isrVars>>
----------------------------------------------------------------------------
(* The host *)

HostTakes ==
  /\ wfifo # <<>>
  /\ wfifo' = Tail(wfifo) /\ ac' = TRUE
  /\ UNCHANGED <<pc, isr, bootVars, tpend, txVars, rxVars, rfifo, sent, irq_enable, timeVars,
                 callVars, isrVars>>

HostSends ==
  /\ sent < MaxChars
  /\ Len(rfifo) < ReadDepth
  /\ rfifo' = Append(rfifo, sent + 1) /\ sent' = sent + 1
  /\ ac' = TRUE
  /\ UNCHANGED <<pc, isr, bootVars, tpend, txVars, rxVars, wfifo, irq_enable, timeVars,
                 callVars, isrVars>>
----------------------------------------------------------------------------
Init ==
  /\ pc = "irq_init" /\ isr = "none"
  /\ ienable \in SUBSET Lines /\ handlers = {} /\ alarm = FALSE /\ tpend \in BOOLEAN
  /\ tx_buf = [i \in Index |-> 0] /\ tx_in = 0 /\ tx_out = 0
  /\ rx_buf = [i \in Index |-> 0] /\ rx_in = 0 /\ rx_out = 0
  /\ irq_enable = {} /\ host_inactive = 0 /\ timeout = DefaultTimeout
  /\ in = 0 /\ out = 0 /\ n = 0 /\ left = 0 /\ some = FALSE /\ nonblock = FALSE
  /\ wi = FALSE /\ space = 0 /\ ravail = FALSE
  /\ wfifo = <<>> /\ rfifo = <<>> /\ ac = FALSE /\ (\E s \in Starts : written = s[1] /\ sent = s[2])

Boot == alt_irq_init \/ TimerInit \/ UartEnable \/ UartRegister \/ UartAlarm
Write == WriteLook \/ WriteCopy \/ WriteIn \/ WriteKick \/ WriteWait \/ WriteCheck
Read == ReadLook \/ ReadOut \/ ReadEnable \/ ReadWait \/ ReadCheck
Handle == Interrupt \/ alt_irq_handler \/ ReadControl \/ Receive \/ ReceiveEnd
          \/ Transmit \/ TransmitEnd \/ TimerIrq
Next == Boot \/ Call \/ Write \/ Read \/ CloseWait \/ SetTimeout \/ Handle \/ Second
        \/ HostTakes \/ HostSends

\* The processor runs, handlers first, and seconds pass; the host owes nothing.
Spec == /\ Init /\ [][Next]_vars
        /\ WF_vars(Handle) /\ SF_vars(Boot) /\ SF_vars(Write) /\ SF_vars(Read) /\ SF_vars(CloseWait)
        /\ WF_vars(Second)
----------------------------------------------------------------------------
(* Properties *)

TypeOK ==
  /\ pc \in {"irq_init", "timer_init", "uart_enable", "uart_register", "uart_alarm", "ready",
             "w_look", "w_copy", "w_in", "w_kick", "w_wait", "w_check",
             "r_look", "r_out", "r_enable", "r_wait", "r_check", "c_wait"}
  /\ isr \in {"none", "dispatch", "control", "rx", "rx_end", "tx", "timer"}
  /\ ienable \subseteq Lines /\ handlers \subseteq Lines
  /\ alarm \in BOOLEAN /\ tpend \in BOOLEAN /\ some \in BOOLEAN /\ nonblock \in BOOLEAN
  /\ wi \in BOOLEAN /\ ravail \in BOOLEAN /\ ac \in BOOLEAN
  /\ tx_buf \in [Index -> Nat] /\ rx_buf \in [Index -> Nat]
  /\ tx_in \in Index /\ tx_out \in Index /\ rx_in \in Index /\ rx_out \in Index
  /\ in \in Index /\ out \in Index
  /\ irq_enable \subseteq {"RE", "WE"}
  /\ host_inactive \in 0 .. IntMax - 2 /\ timeout \in 2 .. IntMax
  /\ n \in 0 .. BufLen /\ left \in 0 .. MaxCount
  /\ space \in 0 .. WriteDepth
  /\ wfifo \in Seq(Nat) /\ rfifo \in Seq(Nat)
  /\ Len(wfifo) <= WriteDepth /\ Len(rfifo) <= ReadDepth
  /\ written \in Nat /\ sent \in Nat

\* The characters between two pointers of a ring buffer.
Ring(buf, o, i) == [k \in 1 .. (i + BufLen - o) % BufLen |-> buf[(o + k - 1) % BufLen]]

\* What the program writes reaches the host as CharPipe promises: the handler never sends a
\* cell before it is filled or after it was filled anew.
Tx == INSTANCE CharPipe WITH
  Capacity <- BufLen - 1 + WriteDepth, last <- written, queue <- wfifo \o Ring(tx_buf, tx_out, tx_in)
TxPipe == Tx!Spec

\* What the host sends reaches the program as CharPipe promises, also when the buffer is
\* full and read interrupts are off.
Rx == INSTANCE CharPipe WITH
  Capacity <- BufLen - 1 + ReadDepth, last <- sent, queue <- Ring(rx_buf, rx_out, rx_in) \o rfifo
RxPipe == Rx!Spec

\* Characters never lie in the buffer with nobody to send them: write interrupts are on, or
\* the call that wrote them is still to enable them.
TxKicked == tx_in # tx_out => "WE" \in irq_enable \/ pc \in {"w_look", "w_copy", "w_in", "w_kick"}

\* Nor does the driver stay deaf: read interrupts are off only while there is something to
\* read, or while the call that has read it is still to enable them.
RxOpen == "RE" \in irq_enable \/ rx_in # rx_out
          \/ pc \in {"irq_init", "timer_init", "uart_enable", "r_enable"}
          \/ (pc \in {"r_look", "r_out"} /\ some)

\* While the system comes up no line is served that has no handler yet.
Served == isr = "dispatch" => Pending \subseteq handlers

\* A call comes to an end even if the host goes away in the middle of it, unless the
\* program has asked to wait for ever.
CallsReturn == (pc \notin {"irq_init", "ready"} /\ timeout < IntMax - 1) ~> pc = "ready"

\* Characters leave the buffer as long as the host makes room for them.
Drains == []<>(tx_in = tx_out \/ Len(wfifo) > WriteThreshold)
=============================================================================
