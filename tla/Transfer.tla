------------------------------ MODULE Transfer ------------------------------
(***************************************************************************)
(* The transfer layer of transfer.c between the class drivers and the      *)
(* MAX3421E: control requests, IN transfers of several packets and the     *)
(* dispatch of one packet with its retries, as the main loop uses them: it *)
(* reads the descriptors of a device, configures it, and polls its         *)
(* interrupt endpoint for reports, whose two keys main.c writes into two   *)
(* registers.  The program's counter pc is divided at the accesses to the  *)
(* chip's registers, because the chip works while the program runs:        *)
(*                                                                         *)
(*   start -> launch -> wait -> clear -> result -> avail -> read -> free   *)
(*     ^        ^----------- retry --------'                          |    *)
(*     |        ^----------- next packet ----------------------- more |    *)
(*     +--- show2 <- show1 <------------- save <----------------------+    *)
(*                                                                         *)
(* The device makes numbered reports, holds one until the host             *)
(* acknowledges it, and numbers its packets by the DATA0/DATA1 toggle.     *)
(* Tokens, packets and handshakes may be lost.                             *)
(***************************************************************************)
EXTENDS Naturals, Sequences

CONSTANTS
  NakLimit,      \* USB_NAK_LIMIT
  RetryLimit,    \* USB_RETRY_LIMIT
  MaxPktSize,    \* wMaxPacketSize of the interrupt endpoint
  ReportLen,     \* the bytes of one of its reports, at most a packet
  DescPackets,   \* the packets of the descriptor that is read
  MaxReports     \* bound: the reports the device makes

ASSUME TransferAssumption ==
  /\ NakLimit \in Nat \ {0} /\ RetryLimit \in Nat \ {0}
  /\ MaxPktSize \in Nat \ {0} /\ ReportLen \in 1 .. MaxPktSize
  /\ DescPackets \in Nat \ {0}
  /\ MaxReports \in Nat

RequestLen == 8          \* what kbdPoll and mousePoll ask for

VARIABLES
  pc,
  job,             \* descr, conf, proto: the control requests; poll; error
  token,           \* the token of the packet in hand
  nak_count, retry_count,
  data,            \* the packets this IN transfer has read
  rcvToggle,       \* epinfo[0] and epinfo[1].rcvToggle
  keycode, keycode2,                       \* the registers, by report
  inflight, hxfrdn,                        \* the chip; inflight is the token in HXFR
  hrslt, rcvtog, fifo,                     \* until it is answered, IN1 that of a poll
  produced, head, dtog,                    \* the device's interrupt endpoint
  cpos, ctog,                              \* and its control endpoint
  taken,           \* history: the last report shown, or given up by a replug
  late,            \* the chip may answer after the time-out
  stale            \* history: a request was given up, and the chip, which may still
                   \* answer it, was not initialised since

hostVars == <<token, nak_count, retry_count, data, rcvToggle>>
pioVars == <<keycode, keycode2, taken>>
chipVars == <<inflight, hxfrdn, hrslt, rcvtog, fifo>>
deviceVars == <<produced, head, dtog, cpos, ctog>>
vars == <<pc, job, hostVars, pioVars, chipVars, deviceVars, late, stale>>

Toggle == {0, 1}
----------------------------------------------------------------------------
(* The host *)

\* The transfer ends when a short packet comes or what was asked for has come.
Complete(d) == IF job = "poll" THEN ReportLen < MaxPktSize \/ Len(d) * ReportLen >= RequestLen
               ELSE Len(d) = DescPackets

\* The beginning of XferDispatchPkt: a new token with fresh counters.
XferDispatchPkt(tok) ==
  /\ token' = tok
  /\ nak_count' = 0 /\ retry_count' = 0
  /\ pc' = "launch"

\* The beginning of XferInTransfer, where the toggle saved for the endpoint is tog.
XferInTransfer(tog) ==
  /\ rcvtog' = tog
  /\ data' = <<>>
  /\ XferDispatchPkt("IN")

\* XferCtrlReq: the set-up packet goes out first.
XferCtrlReq ==
  /\ pc = "start"
  /\ job \in {"descr", "conf", "proto"}
  /\ XferDispatchPkt("SETUP")
  /\ UNCHANGED <<job, data, rcvToggle, pioVars, chipVars, deviceVars, late, stale>>

\* kbdPoll and mousePoll.
Poll ==
  /\ pc = "start"
  /\ job = "poll"
  /\ XferInTransfer(rcvToggle[1])
  /\ UNCHANGED <<job, rcvToggle, pioVars, inflight, hxfrdn, hrslt, fifo, deviceVars, late, stale>>

\* The register accesses around a packet: HXFR is written, HIRQ is read until
\* HXFRDNIRQ is in it, HXFRDNIRQ is cleared.
Launch ==
  /\ pc = "launch"
  /\ inflight' = IF job = "poll" THEN "IN1" ELSE token
  /\ pc' = "wait"
  /\ UNCHANGED <<job, hostVars, pioVars, hxfrdn, hrslt, rcvtog, fifo, deviceVars, late, stale>>

SeeDone ==
  /\ pc = "wait"
  /\ hxfrdn
  /\ pc' = "clear"
  /\ UNCHANGED <<job, hostVars, pioVars, chipVars, deviceVars, late, stale>>

ClearDone ==
  /\ pc = "clear"
  /\ hxfrdn' = FALSE
  /\ pc' = "result"
  /\ UNCHANGED <<job, hostVars, pioVars, inflight, hrslt, rcvtog, fifo, deviceVars, late, stale>>

\* What the callers do with a result that is not zero: a failed request sends
\* the task to its error state, a failed poll is forgotten by the main loop.
Return ==
  /\ pc' = "start"
  /\ job' = IF job = "poll" THEN "poll" ELSE "error"
  /\ UNCHANGED <<token, data, rcvToggle, rcvtog>>
Fail == Return /\ UNCHANGED <<nak_count, retry_count>>

\* USB_XFER_TIMEOUT milliseconds are over before HXFRDNIRQ was seen.  The chip is not
\* told, and may still answer.
GiveUp ==
  /\ pc = "wait"
  /\ late /\ ~hxfrdn
  /\ Fail
  /\ stale' = (stale \/ job # "poll")
  /\ UNCHANGED <<pioVars, inflight, hxfrdn, hrslt, fifo, deviceVars, late>>

\* Mutant: the toggle of the last session is kept.
HID_initKeeps == UNCHANGED rcvToggle

\* The class driver forgets the toggle of the last device before it configures this one.
HID_init == rcvToggle' = [rcvToggle EXCEPT ![1] = 0]

\* HRSL is zero.  XferCtrlReq goes from the set-up to the data or the status
\* stage (XferCtrlData, XferCtrlND); XferCtrlData starts endpoint 0 with DATA1.
Succeed ==
  \/ /\ token = "SETUP" /\ job = "descr"
     /\ rcvToggle' = [rcvToggle EXCEPT ![0] = 1]
     /\ XferInTransfer(1)
     /\ UNCHANGED job
  \/ /\ token = "SETUP" /\ job \in {"conf", "proto"}
     /\ XferDispatchPkt("INHS")
     /\ UNCHANGED <<job, data, rcvToggle, rcvtog>>
  \/ /\ token = "IN"
     /\ pc' = "avail"
     /\ UNCHANGED <<job, token, nak_count, retry_count, data, rcvToggle, rcvtog>>
  \/ /\ token = "OUTHS"
     /\ pc' = "start" /\ job' = "conf"
     /\ HID_init
     /\ UNCHANGED <<token, nak_count, retry_count, data, rcvtog>>
  \/ /\ token = "INHS"
     /\ pc' = "start" /\ job' = IF job = "conf" THEN "proto" ELSE "poll"
     /\ UNCHANGED <<token, nak_count, retry_count, data, rcvToggle, rcvtog>>

\* The same packet again, unless the limit is reached.
Retry(count, limit) ==
  IF count + 1 < limit
  THEN pc' = "launch" /\ UNCHANGED <<job, token, data, rcvToggle, rcvtog>>
  ELSE Return

\* HRSL is read: XferDispatchPkt tries again or returns to its caller.
Result ==
  /\ pc = "result"
  /\ CASE hrslt = "NAK" -> /\ nak_count' = nak_count + 1
                           /\ Retry(nak_count, NakLimit)
                           /\ UNCHANGED retry_count
       [] hrslt = "TIMEOUT" -> /\ retry_count' = retry_count + 1
                               /\ Retry(retry_count, RetryLimit)
                               /\ UNCHANGED nak_count
       [] hrslt = "OK" -> Succeed
       [] OTHER -> Fail
  /\ UNCHANGED <<pioVars, inflight, hxfrdn, hrslt, fifo, deviceVars, late, stale>>

\* XferInTransfer: is RCVDAVIRQ there?
Available ==
  /\ pc = "avail"
  /\ IF fifo = <<>> THEN Fail
     ELSE pc' = "read" /\ UNCHANGED <<job, token, nak_count, retry_count, data, rcvToggle, rcvtog>>
  /\ UNCHANGED <<pioVars, inflight, hxfrdn, hrslt, fifo, deviceVars, late, stale>>

\* RCVBC and RCVFIFO are read.
Read ==
  /\ pc = "read"
  /\ data' = Append(data, Head(fifo))
  /\ pc' = "free"
  /\ UNCHANGED <<job, token, nak_count, retry_count, rcvToggle, pioVars, chipVars, deviceVars,
                 late, stale>>

\* Mutant: the buffer is not given back.
FreeForgets ==
  /\ pc = "free"
  /\ IF Complete(data)
     THEN pc' = "save" /\ UNCHANGED <<token, nak_count, retry_count>>
     ELSE XferDispatchPkt("IN")
  /\ UNCHANGED <<job, data, rcvToggle, pioVars, chipVars, deviceVars, late, stale>>

\* RCVDAVIRQ is cleared, which frees the buffer; the transfer ends or goes on.
Free ==
  /\ pc = "free"
  /\ fifo' = Tail(fifo)
  /\ IF Complete(data)
     THEN pc' = "save" /\ UNCHANGED <<token, nak_count, retry_count>>
     ELSE XferDispatchPkt("IN")
  /\ UNCHANGED <<job, data, rcvToggle, pioVars, inflight, hxfrdn, hrslt, rcvtog,
                 deviceVars, late, stale>>

\* Mutant: the toggle of the packet just read is saved.
SaveOld ==
  /\ pc = "save"
  /\ rcvToggle' = [rcvToggle EXCEPT ![IF job = "poll" THEN 1 ELSE 0] = 1 - rcvtog]
  /\ IF job = "poll" THEN pc' = "show1" /\ UNCHANGED <<token, nak_count, retry_count>>
     ELSE XferDispatchPkt("OUTHS")
  /\ UNCHANGED <<job, data, pioVars, chipVars, deviceVars, late, stale>>

\* The toggle is read back from HRSL and saved, and XferInTransfer returns 0.
Save ==
  /\ pc = "save"
  /\ rcvToggle' = [rcvToggle EXCEPT ![IF job = "poll" THEN 1 ELSE 0] = rcvtog]
  /\ IF job = "poll" THEN pc' = "show1" /\ UNCHANGED <<token, nak_count, retry_count>>
     ELSE XferDispatchPkt("OUTHS")
  /\ UNCHANGED <<job, data, pioVars, chipVars, deviceVars, late, stale>>

\* setKeycode: two registers, one after the other.
Show1 ==
  /\ pc = "show1"
  /\ keycode' = Head(data)
  /\ taken' = Head(data)
  /\ pc' = "show2"
  /\ UNCHANGED <<job, hostVars, keycode2, chipVars, deviceVars, late, stale>>

Show2 ==
  /\ pc = "show2"
  /\ keycode2' = Head(data)
  /\ pc' = "start"
  /\ UNCHANGED <<job, hostVars, keycode, taken, chipVars, deviceVars, late, stale>>

----------------------------------------------------------------------------
(* The chip and the device on the bus *)

\* A transfer in flight ends with result res.
Done(res) ==
  /\ inflight # "none"
  /\ inflight' = "none"
  /\ hxfrdn' = TRUE
  /\ hrslt' = res
  /\ UNCHANGED <<pc, job, hostVars, pioVars, produced, late, stale>>

\* The device has nothing to send, or is busy; SETUP is never refused.
Nak ==
  /\ inflight # "SETUP"
  /\ Done("NAK")
  /\ UNCHANGED <<rcvtog, fifo, head, dtog, cpos, ctog>>

\* The token or the answer is lost on the way, or damaged, or answered by STALL.
Lose ==
  /\ \E res \in {"TIMEOUT", "ERR"} : Done(res)
  /\ UNCHANGED <<rcvtog, fifo, head, dtog, cpos, ctog>>

\* The chip takes a packet p whose toggle is tog if it expects that toggle and
\* a buffer is free; else it acknowledges the packet and drops it, which the
\* driver expects to see as an error or as a missing RCVDAVIRQ.
TakePacket(p, tog) ==
  IF tog = rcvtog
  THEN /\ Len(fifo) < 2
       /\ fifo' = Append(fifo, p)
       /\ rcvtog' = 1 - rcvtog
       /\ Done("OK")
  ELSE /\ \E res \in {"TOGERR", "OK"} : Done(res)
       /\ UNCHANGED <<fifo, rcvtog>>

\* A report arrives; the device goes on to the next one unless the chip's ACK is lost.
SendReport ==
  /\ inflight = "IN1"
  /\ head <= produced
  /\ TakePacket(head, dtog)
  /\ \/ head' = head + 1 /\ dtog' = 1 - dtog
     \/ UNCHANGED <<head, dtog>>
  /\ UNCHANGED <<cpos, ctog>>

\* So does a packet of the descriptor.
SendDescriptor ==
  /\ inflight = "IN"
  /\ cpos <= DescPackets
  /\ TakePacket(cpos, ctog)
  /\ \/ cpos' = cpos + 1 /\ ctog' = 1 - ctog
     \/ UNCHANGED <<cpos, ctog>>
  /\ UNCHANGED <<head, dtog>>

\* The device takes a set-up packet: the data stage begins with DATA1.
AcceptSetup ==
  /\ inflight = "SETUP"
  /\ cpos' = 1 /\ ctog' = 1
  /\ \E res \in {"OK", "TIMEOUT"} : Done(res)
  /\ UNCHANGED <<rcvtog, fifo, head, dtog>>

\* The status stage; a device that is configured starts its endpoint with DATA0.
Status ==
  /\ inflight \in {"OUTHS", "INHS"}
  /\ dtog' = IF job = "conf" THEN 0 ELSE dtog
  /\ \E res \in {"OK", "TIMEOUT"} : Done(res)
  /\ UNCHANGED <<rcvtog, fifo, head, cpos, ctog>>

\* The user presses or releases a key.  The bound is one less where answers may be late,
\* and nothing is typed while one to a request may still come.
Type ==
  /\ produced < IF late THEN MaxReports - 1 ELSE MaxReports
  /\ ~stale
  /\ produced' = produced + 1
  /\ UNCHANGED <<pc, job, hostVars, pioVars, chipVars, head, dtog, cpos, ctog,
                 late, stale>>

\* Mutant: the chip is not initialised again.
ChipKeeps == UNCHANGED <<chipVars, stale>>

\* When the running state is left the main loop initialises the chip.
MAX3421E_init == /\ inflight' = "none" /\ hxfrdn' = FALSE /\ fifo' = <<>>
                 /\ stale' = FALSE
                 /\ UNCHANGED <<hrslt, rcvtog>>

\* The device is pulled out and another one put in, which the host enumerates.
Replug ==
  /\ pc = "start"
  /\ job \in {"poll", "error"}
  /\ job' = "descr"
  /\ head' = produced + 1 /\ taken' = produced
  /\ dtog' \in Toggle
  /\ IF job = "poll" THEN MAX3421E_init ELSE UNCHANGED <<chipVars, stale>>
  /\ UNCHANGED <<pc, hostVars, keycode, keycode2, produced, cpos, ctog, late>>
----------------------------------------------------------------------------
Init ==
  /\ pc = "start" /\ job = "descr" /\ token = "IN"
  /\ nak_count = 0 /\ retry_count = 0 /\ data = <<>>
  /\ rcvToggle = [ep \in {0, 1} |-> 0]
  /\ keycode = 0 /\ keycode2 = 0 /\ taken = 0
  /\ inflight = "none" /\ hxfrdn = FALSE /\ hrslt = "OK" /\ rcvtog = 0 /\ fifo = <<>>
  /\ produced = 0 /\ head = 1 /\ dtog \in Toggle
  /\ cpos = 1 /\ ctog = 1
  /\ late \in BOOLEAN /\ stale = FALSE

Host == \/ XferCtrlReq \/ Poll \/ Launch \/ SeeDone \/ ClearDone \/ GiveUp \/ Result
        \/ Available \/ Read \/ Free \/ Save \/ Show1 \/ Show2
Bus == Nak \/ Lose \/ SendReport \/ SendDescriptor \/ AcceptSetup \/ Status
Next == Host \/ Bus \/ Type \/ Replug

Spec == Init /\ [][Next]_vars
----------------------------------------------------------------------------
\* The registers never go back to an older report, or to one of a device that is
\* gone, even if the chip answers a poll only after its time-out, so that the next poll
\* takes that answer for its own; unless a request before it timed out, whose answer is
\* thrown away only when the chip is initialised.
NeverBack == [][pc = "show1" /\ pc' = "show2" /\ ~stale => keycode' >= taken]_vars

\* The reports reach the registers as ReportChannel promises.
Seen(n) == IF late THEN 0 ELSE n
Channel == INSTANCE ReportChannel
  WITH produced <- Seen(produced), taken <- Seen(taken),
       keycode <- Seen(keycode), keycode2 <- Seen(keycode2)
ReportsInOrder == Channel!Spec

\* A data stage that ended well has read every packet of the descriptor once; a late
\* answer to an earlier request that timed out can break it, nothing else.
DescriptorExact == token = "OUTHS" /\ ~stale => data = [i \in 1 .. DescPackets |-> i]

\* main.c takes hrNAK to mean that there is no new data: this poll read no packet.
NakMeansNoNewData ==
  [][pc = "result" /\ hrslt = "NAK" /\ pc' = "start" /\ job = "poll" => data = <<>>]_vars

\* Again and again every report is shown, or its device unplugged, unless enumeration
\* failed: the retries, the dropped duplicates and the failed polls never end in a loop
\* in which the host and the device wait for different toggles.
ReportsArrive == ~late => []<>(taken = produced \/ job = "error")

Fairness == /\ WF_vars(Host) /\ WF_vars(Bus)
            /\ SF_vars(SendReport /\ head' # head)
FairSpec == Spec /\ Fairness
=============================================================================
