--------------------------- MODULE UsbHost_proof ---------------------------
(***************************************************************************)
(* The inductive invariant of UsbHost and the safety properties that       *)
(* follow from it, for every number of addresses and every set of devices; *)
(* that any two numbers are read back from the displays; and that an       *)
(* enumeration which the user leaves alone goes through its states once.   *)
(***************************************************************************)
EXTENDS UsbHost, TLAPS

InitPCs == {"reset", "initprobe", "initack"}

\* What a lost device leaves behind until main starts over, per program point.
AfterProbe == {INITIALIZE, 2, ILLEGAL, 5, ATTACHED, SETTLE}
AfterTask == {2, WAIT_FOR_DEVICE, ILLEGAL, 5, SETTLE, RESET_DEVICE}

\* The latch is empty outside the handler, which runs for CONDETIRQ only; no bus event
\* is pending or latched while the bus reset that will raise it still runs.
LatchInv ==
  /\ IF pc \in {"probe", "ack"} THEN "CONDET" \in latched \cap hirq ELSE latched = {}
  /\ usb_task_state = WAIT_RESET /\ busrst => "BUSEVENT" \notin hirq \cup latched

\* Frames are on in every attached state, but for the moment after a chip reset.
FrameInv ==
  /\ usb_task_state \in {ATTACHED, SETTLE, RESET_DEVICE,
     WAIT_RESET} /\ pc # "initprobe" => sofka
  /\ FramesBeforeTraffic

\* Where the program is, and what main knows, limit what the task state can be.
ControlInv ==
  /\ pc \in {"reset", "initprobe"} => usb_task_state \in AfterTask \cup {INITIALIZE}
  /\ pc = "initack" => usb_task_state \in {INITIALIZE, WAIT_FOR_DEVICE, ILLEGAL, ATTACHED}
  /\ runningdebugflag => \/ usb_task_state = RUNNING
                         \/ pc \in {"ack", "task"} /\ usb_task_state \in AfterProbe
                         \/ pc = "main" /\ usb_task_state \in AfterTask
  /\ usb_task_state = RUNNING => /\ pc \in {"max", "probe", "task", "main"}
                                 /\ ~runningdebugflag => pc = "main"

\* LED 9 follows runningdebugflag, except while main starts over.
LedInv == /\ runningdebugflag => led9
          /\ led9 => runningdebugflag \/ pc \in InitPCs

\* The device table: addresses are given out in order, and the last one belongs to
\* the device that is being configured or served.
LastUsed == /\ tmp_addr \in Used(devtable)
            /\ \A i \in Used(devtable) : i <= tmp_addr

TableInv ==
  /\ \A i \in Used(devtable) : \A j \in 1 .. i : j \in Used(devtable)
  /\ pc \notin InitPCs => devtable[0].epinfo = "dev0"
  /\ usb_task_state = CONFIGURING => LastUsed
  /\ usb_task_state = RUNNING =>
       /\ LastUsed
       /\ hid_addr = tmp_addr
       /\ devtable[tmp_addr].epinfo = "hid"
       /\ devtable[tmp_addr].devclass \in {HID_K, HID_M}
       /\ runningdebugflag => device = devtable[tmp_addr].devclass

IInv == TypeOK /\ LatchInv /\ FrameInv /\ ControlInv /\ LedInv /\ TableInv /\ RunningMeansReachable

USE DEF INITIALIZE, WAIT_FOR_DEVICE, ILLEGAL, ATTACHED, SETTLE, RESET_DEVICE, WAIT_RESET,
        WAIT_SOF, GET_DESCRIPTOR, ADDRESSING, CONFIGURING, RUNNING, ERROR, HID_K, HID_M

----------------------------------------------------------------------------
(* What the operators of the model return *)

\* A bus probe sends the task to ATTACHED, ILLEGAL or a detached state, or, during a
\* bus reset with a device in the port, leaves it in WAIT_RESET (MAX_busprobe).
LEMMA ProbeStateCases ==
  ASSUME NEW s
  PROVE  \/ ProbeState(s) = ATTACHED /\ s # WAIT_RESET /\ BusSample \in {"J", "K"}
         \/ ProbeState(s) = WAIT_RESET /\ s = WAIT_RESET
         \/ ProbeState(s) = ILLEGAL
         \/ ProbeState(s) = WAIT_FOR_DEVICE /\ Detached(s)
         \/ ProbeState(s) = INITIALIZE /\ ~Detached(s)
  BY DEF ProbeState, BusSample

\* The class that GetDriverandReport keeps is that of the address given out last.
LEMMA LastClassIsTmp ==
  ASSUME TypeOK, LastUsed
  PROVE  LastClass = devtable[tmp_addr].devclass
<1>1. PICK k \in Used(devtable) : k = CHOOSE i \in Used(devtable) :
                                       \A j \in Used(devtable) : j <= i
  BY DEF LastUsed
<1>2. \A j \in Used(devtable) : j <= k
  BY <1>1 DEF LastUsed
<1>3. k = tmp_addr
  BY <1>2 DEF LastUsed, Used, UserAddresses
<1> QED
  BY <1>1, <1>3 DEF LastClass, LastUsed

\* Taking the first free address keeps the used ones a prefix, with it at the end.
LEMMA FirstFreeFacts ==
  ASSUME TypeOK, TableInv, NEW i \in UserAddresses, FirstFree(i)
  PROVE  \A j \in Used(devtable) : j < i
<1> SUFFICES ASSUME NEW j \in Used(devtable), j >= i PROVE FALSE
  BY DEF Used, UserAddresses
<1>1. i \in 1 .. j
  BY DEF Used, UserAddresses
<1> QED
  BY <1>1 DEF FirstFree, TableInv

----------------------------------------------------------------------------
(* The invariant *)

\* The invariant holds when the board is switched on.
LEMMA InitIInv == Init => IInv
<1> SUFFICES ASSUME Init PROVE IInv
  OBVIOUS
<1> USE UsbHostAssumption DEF Init
<1>1. ControlTypes
  BY DEF ControlTypes, PCs, TaskStates, Handled
<1>5. FlagTypes
  BY DEF FlagTypes
<1>6. BusTypes
  BY DEF BusTypes
<1>4. TableTypes
  BY DEF TableTypes, Entries, Unused, Addresses
<1>2. LatchInv /\ FrameInv /\ ControlInv /\ LedInv /\ RunningMeansReachable
  BY DEF LatchInv, FrameInv, FramesBeforeTraffic, ControlInv, AfterTask, LedInv, InitPCs,
         RunningMeansReachable
<1>3. TableInv
  BY DEF TableInv, Used, Unused, Addresses, UserAddresses, InitPCs
<1> QED
  BY <1>1, <1>2, <1>3, <1>4, <1>5, <1>6 DEF IInv, TypeOK

\* Every step of the program, the chip and the user preserves the invariant.
THEOREM StepIInv == IInv /\ [Next]_vars => IInv'
<1> SUFFICES ASSUME IInv, [Next]_vars PROVE IInv'
  OBVIOUS
<1> USE UsbHostAssumption DEF IInv, TypeOK, loopVars, taskVars, tableVars, chipVars, busVars
<1>1. CASE ResetChip
  <2>1. ControlTypes'
    BY <1>1 DEF ResetChip, ControlTypes, PCs, TaskStates, Handled, Interrupts
  <2>2. FlagTypes'
    BY <1>1 DEF ResetChip, FlagTypes
  <2>3. TableTypes'
    BY <1>1 DEF ResetChip, TableTypes, Addresses, Entries
  <2>4. BusTypes'
    BY <1>1 DEF ResetChip, BusTypes, Interrupts, TableTypes
  <2>5. LatchInv'
    BY <1>1 DEF ResetChip, LatchInv
  <2>6. FrameInv'
    BY <1>1 DEF ResetChip, FrameInv, FramesBeforeTraffic, ControlInv, AfterTask
  <2>7. ControlInv'
    BY <1>1 DEF ResetChip, ControlInv, AfterTask, AfterProbe, InitPCs
  <2>8. LedInv'
    BY <1>1 DEF ResetChip, LedInv, InitPCs, ControlInv, AfterTask
  <2>9. TableInv'
    BY <1>1 DEF ResetChip, TableInv, LastUsed, Used, TableTypes, Addresses, UserAddresses,
       Entries, InitPCs, ControlInv, AfterTask
  <2>10. RunningMeansReachable'
    BY <1>1 DEF ResetChip, RunningMeansReachable, Answers, FrameInv, FramesBeforeTraffic,
       ControlInv, AfterTask
  <2> QED
    BY <2>1, <2>2, <2>3, <2>4, <2>5, <2>6, <2>7, <2>8, <2>9, <2>10 DEF TypeOK
<1>2. CASE InitProbe
  <2>1. ControlTypes'
    BY <1>2, ProbeStateCases DEF InitProbe, ProbeMode, ControlTypes, PCs, TaskStates,
       Handled, Interrupts, Detached
  <2>2. FlagTypes'
    BY <1>2, ProbeStateCases DEF InitProbe, ProbeMode, FlagTypes, Detached
  <2>3. TableTypes'
    BY <1>2, ProbeStateCases DEF InitProbe, ProbeMode, TableTypes, Addresses, Entries, Detached
  <2>4. BusTypes'
    BY <1>2, ProbeStateCases DEF InitProbe, ProbeMode, BusTypes, Interrupts, TableTypes,
       Detached
  <2>5. LatchInv'
    BY <1>2, ProbeStateCases DEF InitProbe, ProbeMode, LatchInv, Detached, ControlInv, AfterTask
  <2>6. FrameInv'
    BY <1>2, ProbeStateCases DEF InitProbe, ProbeMode, FrameInv, FramesBeforeTraffic,
       Detached, ControlInv, AfterTask
  <2>7. ControlInv'
    BY <1>2, ProbeStateCases DEF InitProbe, ProbeMode, ControlInv, AfterTask, AfterProbe,
       InitPCs, Detached
  <2>8. LedInv'
    BY <1>2, ProbeStateCases DEF InitProbe, ProbeMode, LedInv, InitPCs, ControlInv,
       AfterTask, Detached
  <2>9. TableInv'
    BY <1>2, ProbeStateCases DEF InitProbe, ProbeMode, TableInv, LastUsed, Used, TableTypes,
       Addresses, UserAddresses, Entries, Detached, ControlInv, AfterTask, InitPCs
  <2>10. RunningMeansReachable'
    BY <1>2, <2>7 DEF InitProbe, ControlInv, RunningMeansReachable
  <2> QED
    BY <2>1, <2>2, <2>3, <2>4, <2>5, <2>6, <2>7, <2>8, <2>9, <2>10 DEF TypeOK
<1>3. CASE InitAck
  <2>1. ControlTypes'
    BY <1>3 DEF InitAck, USB_init, ClearLED9, ControlTypes, PCs, TaskStates, Handled, Interrupts
  <2>2. FlagTypes'
    BY <1>3 DEF InitAck, USB_init, ClearLED9, FlagTypes
  <2>3. TableTypes'
    BY <1>3 DEF InitAck, USB_init, ClearLED9, TableTypes, Addresses, Entries, Unused
  <2>4. BusTypes'
    BY <1>3 DEF InitAck, USB_init, ClearLED9, BusTypes, Interrupts, TableTypes
  <2>5. LatchInv'
    BY <1>3 DEF InitAck, USB_init, ClearLED9, LatchInv
  <2>6. FrameInv'
    BY <1>3 DEF InitAck, USB_init, ClearLED9, FrameInv, FramesBeforeTraffic, ControlInv
  <2>7. ControlInv'
    BY <1>3 DEF InitAck, USB_init, ClearLED9, ControlInv, AfterTask, AfterProbe, InitPCs
  <2>8. LedInv'
    BY <1>3 DEF InitAck, USB_init, ClearLED9, LedInv, InitPCs, ControlInv, AfterTask
  <2>9. TableInv'
    BY <1>3 DEF InitAck, USB_init, ClearLED9, TableInv, LastUsed, Used, TableTypes,
       Addresses, UserAddresses, Entries, Unused, ControlInv, InitPCs
  <2>10. RunningMeansReachable'
    BY <1>3 DEF InitAck, USB_init, ClearLED9, RunningMeansReachable, Answers, FrameInv,
       FramesBeforeTraffic, ControlInv
  <2> QED
    BY <2>1, <2>2, <2>3, <2>4, <2>5, <2>6, <2>7, <2>8, <2>9, <2>10 DEF TypeOK
<1>4. CASE MAX3421E_Task
  <2>1. ControlTypes'
    BY <1>4 DEF MAX3421E_Task, PinLow, ControlTypes, PCs, TaskStates, Handled, Interrupts,
       BusTypes
  <2>2. FlagTypes'
    BY <1>4 DEF MAX3421E_Task, PinLow, FlagTypes
  <2>3. TableTypes'
    BY <1>4 DEF MAX3421E_Task, PinLow, TableTypes, Addresses, Entries
  <2>4. BusTypes'
    BY <1>4 DEF MAX3421E_Task, PinLow, BusTypes, Interrupts, TableTypes
  <2>5. LatchInv'
    <3>1. CASE PinLow
      BY <1>4, <3>1 DEF MAX3421E_Task, PinLow, LatchInv
    <3>2. CASE ~PinLow
      BY <1>4, <3>2 DEF MAX3421E_Task, LatchInv
    <3> QED
      BY <3>1, <3>2
  <2>6. FrameInv'
    BY <1>4 DEF MAX3421E_Task, PinLow, FrameInv, FramesBeforeTraffic
  <2>7. ControlInv'
    BY <1>4 DEF MAX3421E_Task, PinLow, ControlInv, AfterTask, AfterProbe, InitPCs
  <2>8. LedInv'
    BY <1>4 DEF MAX3421E_Task, PinLow, LedInv, InitPCs, ControlInv, AfterTask
  <2>9. TableInv'
    BY <1>4 DEF MAX3421E_Task, PinLow, TableInv, LastUsed, Used, TableTypes, Addresses,
       UserAddresses, Entries, InitPCs
  <2>10. RunningMeansReachable'
    BY <1>4 DEF MAX3421E_Task, PinLow, RunningMeansReachable, Answers, FrameInv,
       FramesBeforeTraffic
  <2> QED
    BY <2>1, <2>2, <2>3, <2>4, <2>5, <2>6, <2>7, <2>8, <2>9, <2>10 DEF TypeOK
<1>5. CASE Probe
  <2>1. ControlTypes'
    BY <1>5, ProbeStateCases DEF Probe, ProbeMode, ControlTypes, PCs, TaskStates, Handled,
       Interrupts, Detached
  <2>2. FlagTypes'
    BY <1>5, ProbeStateCases DEF Probe, ProbeMode, FlagTypes, Detached
  <2>3. TableTypes'
    BY <1>5, ProbeStateCases DEF Probe, ProbeMode, TableTypes, Addresses, Entries, Detached
  <2>4. BusTypes'
    BY <1>5, ProbeStateCases DEF Probe, ProbeMode, BusTypes, Interrupts, TableTypes, Detached
  <2>5. LatchInv'
    BY <1>5, ProbeStateCases DEF Probe, ProbeMode, LatchInv, Detached, ControlTypes,
       TaskStates, Handled
  <2>6. FrameInv'
    BY <1>5, ProbeStateCases DEF Probe, ProbeMode, FrameInv, FramesBeforeTraffic, Detached,
       LatchInv, TaskStates, Handled
  <2>7. ControlInv'
    BY <1>5, ProbeStateCases DEF Probe, ProbeMode, ControlInv, AfterTask, AfterProbe,
       InitPCs, Detached, ControlTypes, TaskStates, Handled
  <2>8. LedInv'
    BY <1>5, ProbeStateCases DEF Probe, ProbeMode, LedInv, InitPCs, ControlInv, AfterTask,
       Detached
  <2>9. TableInv'
    BY <1>5, ProbeStateCases, SMTT(30) DEF Probe, ProbeMode, TableInv, LastUsed, Used, TableTypes,
       Addresses, UserAddresses, Entries, Detached, TaskStates, Handled, InitPCs, ControlInv
  <2>10. RunningMeansReachable'
    BY <1>5, ProbeStateCases DEF Probe, ProbeMode, RunningMeansReachable, Answers, FrameInv,
       FramesBeforeTraffic, Detached, ControlTypes, TaskStates, Handled
  <2> QED
    BY <2>1, <2>2, <2>3, <2>4, <2>5, <2>6, <2>7, <2>8, <2>9, <2>10 DEF TypeOK
<1>6. CASE Ack
  BY <1>6 DEF Ack, Sendback, TypeOK, ControlTypes, FlagTypes, TableTypes, BusTypes, PCs,
     TaskStates, Handled, Interrupts, Entries, Unused, Addresses, UserAddresses, Used,
        LatchInv, FrameInv, FramesBeforeTraffic, ControlInv, AfterTask, AfterProbe, LedInv,
           InitPCs, TableInv, LastUsed, RunningMeansReachable, Answers
<1>7. CASE Initialize
  BY <1>7 DEF Initialize, Case, USB_init, TypeOK, ControlTypes, FlagTypes, TableTypes,
     BusTypes, PCs, TaskStates, Handled, Interrupts, Entries, Unused, Addresses,
        UserAddresses, Used, LatchInv, FrameInv, FramesBeforeTraffic, ControlInv, AfterTask,
           AfterProbe, LedInv, InitPCs, TableInv, LastUsed, RunningMeansReachable, Answers
<1>8. CASE Rest
  BY <1>8 DEF Rest, TypeOK, ControlTypes, FlagTypes, TableTypes, BusTypes, PCs, TaskStates,
     Handled, Interrupts, Entries, Unused, Addresses, UserAddresses, Used, LatchInv,
        FrameInv, FramesBeforeTraffic, ControlInv, AfterTask, AfterProbe, LedInv, InitPCs,
           TableInv, LastUsed, RunningMeansReachable, Answers
<1>9. CASE StartSettle
  <2>1. ControlTypes'
    BY <1>9 DEF StartSettle, Case, ControlTypes, PCs, TaskStates, Handled, Interrupts
  <2>2. FlagTypes'
    BY <1>9 DEF StartSettle, Case, FlagTypes
  <2>3. TableTypes'
    BY <1>9 DEF StartSettle, Case, TableTypes, Addresses, Entries
  <2>4. BusTypes'
    BY <1>9 DEF StartSettle, Case, BusTypes, Interrupts, TableTypes
  <2>5. LatchInv'
    BY <1>9 DEF StartSettle, Case, LatchInv
  <2>6. FrameInv'
    BY <1>9 DEF StartSettle, Case, FrameInv, FramesBeforeTraffic
  <2>7. ControlInv'
    BY <1>9 DEF StartSettle, Case, ControlInv, AfterTask, AfterProbe, InitPCs
  <2>8. LedInv'
    BY <1>9 DEF StartSettle, Case, LedInv, InitPCs, ControlInv, AfterTask
  <2>9. TableInv'
    BY <1>9 DEF StartSettle, Case, TableInv, LastUsed, Used, TableTypes, Addresses,
       UserAddresses, Entries, InitPCs
  <2>10. RunningMeansReachable'
    BY <1>9 DEF StartSettle, Case, RunningMeansReachable, Answers, FrameInv, FramesBeforeTraffic
  <2> QED
    BY <2>1, <2>2, <2>3, <2>4, <2>5, <2>6, <2>7, <2>8, <2>9, <2>10 DEF TypeOK
<1>10. CASE WaitSettle
  BY <1>10 DEF WaitSettle, Case, TypeOK, ControlTypes, FlagTypes, TableTypes, BusTypes, PCs,
     TaskStates, Handled, Interrupts, Entries, Unused, Addresses, UserAddresses, Used,
        LatchInv, FrameInv, FramesBeforeTraffic, ControlInv, AfterTask, AfterProbe, LedInv,
           InitPCs, TableInv, LastUsed, RunningMeansReachable, Answers
<1>11. CASE ResetDevice
  BY <1>11 DEF ResetDevice, Case, StaleIrqs, TypeOK, ControlTypes, FlagTypes, TableTypes,
     BusTypes, PCs, TaskStates, Handled, Interrupts, Entries, Unused, Addresses,
        UserAddresses, Used, LatchInv, FrameInv, FramesBeforeTraffic, ControlInv, AfterTask,
           AfterProbe, LedInv, InitPCs, TableInv, LastUsed, RunningMeansReachable, Answers
<1>12. CASE WaitReset
  <2>1. ControlTypes'
    BY <1>12 DEF WaitReset, Case, ControlTypes, PCs, TaskStates, Handled, Interrupts
  <2>2. FlagTypes'
    BY <1>12 DEF WaitReset, Case, FlagTypes
  <2>3. TableTypes'
    BY <1>12 DEF WaitReset, Case, TableTypes, Addresses, Entries
  <2>4. BusTypes'
    BY <1>12 DEF WaitReset, Case, BusTypes, Interrupts, TableTypes
  <2>5. LatchInv'
    BY <1>12 DEF WaitReset, Case, LatchInv
  <2>6. FrameInv'
    BY <1>12 DEF WaitReset, Case, FrameInv, FramesBeforeTraffic
  <2>7. ControlInv'
    BY <1>12 DEF WaitReset, Case, ControlInv, AfterTask, AfterProbe, InitPCs
  <2>8. LedInv'
    BY <1>12 DEF WaitReset, Case, LedInv, InitPCs, ControlInv, AfterTask
  <2>9. TableInv'
    BY <1>12 DEF WaitReset, Case, TableInv, LastUsed, Used, TableTypes, Addresses,
       UserAddresses, Entries, InitPCs
  <2>10. RunningMeansReachable'
    BY <1>12 DEF WaitReset, Case, RunningMeansReachable, Answers, FrameInv, FramesBeforeTraffic
  <2> QED
    BY <2>1, <2>2, <2>3, <2>4, <2>5, <2>6, <2>7, <2>8, <2>9, <2>10 DEF TypeOK
<1>13. CASE WaitSof
  BY <1>13 DEF WaitSof, Case, TypeOK, ControlTypes, FlagTypes, TableTypes, BusTypes, PCs,
     TaskStates, Handled, Interrupts, Entries, Unused, Addresses, UserAddresses, Used,
        LatchInv, FrameInv, FramesBeforeTraffic, ControlInv, AfterTask, AfterProbe, LedInv,
           InitPCs, TableInv, LastUsed, RunningMeansReachable, Answers
<1>14. CASE GetDescriptor
  BY <1>14 DEF GetDescriptor, Case, TypeOK, ControlTypes, FlagTypes, TableTypes, BusTypes,
     PCs, TaskStates, Handled, Interrupts, Entries, Unused, Addresses, UserAddresses, Used,
        LatchInv, FrameInv, FramesBeforeTraffic, ControlInv, AfterTask, AfterProbe, LedInv,
           InitPCs, TableInv, LastUsed, RunningMeansReachable, Answers
<1>15. CASE Addressing
  <2>1. ControlTypes'
    BY <1>15 DEF Addressing, SetAddress, Case, ControlTypes, PCs, TaskStates, Handled,
       Interrupts
  <2>2. FlagTypes'
    BY <1>15 DEF Addressing, SetAddress, Case, FlagTypes
  <2>3. TableTypes'
    <3>1. ASSUME NEW i \in UserAddresses, SetAddress(i) PROVE TableTypes'
      <4>1. devtable' = [devtable EXCEPT ![i].epinfo = devtable[0].epinfo]
        BY <3>1 DEF SetAddress
      <4>2. devtable[0] \in Entries /\ devtable[i] \in Entries
        BY DEF TableTypes, Addresses, UserAddresses
      <4>3. devtable' \in [Addresses -> Entries]
        BY <4>1, <4>2 DEF TableTypes, Entries
      <4> QED
        BY <1>15, <3>1, <4>3 DEF Addressing, SetAddress, TableTypes, UserAddresses
    <3> QED
      BY <1>15, <3>1 DEF Addressing, TableTypes
  <2>4. BusTypes'
    BY <1>15 DEF Addressing, SetAddress, Case, BusTypes, Interrupts, TableTypes, UserAddresses
  <2>5. LatchInv'
    BY <1>15 DEF Addressing, SetAddress, Case, LatchInv
  <2>6. FrameInv'
    BY <1>15 DEF Addressing, SetAddress, Case, FrameInv, FramesBeforeTraffic
  <2>7. ControlInv'
    BY <1>15 DEF Addressing, SetAddress, Case, ControlInv, AfterTask, AfterProbe, InitPCs
  <2>8. LedInv'
    BY <1>15 DEF Addressing, SetAddress, Case, LedInv, InitPCs, ControlInv, AfterTask
  <2>9. TableInv'
    <3>1. ASSUME NEW i \in UserAddresses, SetAddress(i) PROVE TableInv'
      <4>1. \A j \in Addresses : devtable'[j].epinfo = IF j = i THEN "dev0" ELSE devtable[j].epinfo
        BY <1>15, <3>1 DEF Addressing, Case, SetAddress, TableInv, TableTypes, InitPCs,
           Addresses,
           UserAddresses, Entries
      <4>2. Used(devtable') = Used(devtable) \cup {i}
        BY <3>1, <4>1 DEF Used, Addresses, UserAddresses
      <4>3. \A j \in Used(devtable) : j < i
        BY <3>1, FirstFreeFacts DEF SetAddress
      <4>4. 1 .. i - 1 \subseteq Used(devtable)
        BY <3>1 DEF SetAddress, FirstFree
      <4>5. usb_task_state' = CONFIGURING => tmp_addr' = i
        BY <3>1 DEF SetAddress
      <4>6. \A m \in Used(devtable') : \A j \in 1 .. m : j \in Used(devtable')
        BY <4>2, <4>4 DEF TableInv, UserAddresses
      <4>7. (pc \notin InitPCs => devtable[0].epinfo = "dev0")'
        BY <1>15, <3>1, <4>1 DEF Addressing, Case, TableInv, InitPCs, Addresses, UserAddresses
      <4>8. usb_task_state' = CONFIGURING => LastUsed'
        BY <3>1, <4>2, <4>3, <4>5 DEF LastUsed, UserAddresses, Used
      <4>9. usb_task_state' # RUNNING
        BY <3>1 DEF SetAddress
      <4> QED
        BY <4>6, <4>7, <4>8, <4>9 DEF TableInv
    <3>2. CASE Used(devtable) = UserAddresses /\ usb_task_state' = ERROR
                 /\ UNCHANGED <<devtable, tmp_addr, dev_addr>>
      BY <1>15, <3>2 DEF Addressing, Case, TableInv, InitPCs
    <3> QED
      BY <1>15, <3>1, <3>2 DEF Addressing
  <2>10. RunningMeansReachable'
    BY <1>15 DEF Addressing, SetAddress, Case, RunningMeansReachable, Answers, FrameInv,
       FramesBeforeTraffic
  <2> QED
    BY <2>1, <2>2, <2>3, <2>4, <2>5, <2>6, <2>7, <2>8, <2>9, <2>10 DEF TypeOK
<1>16. CASE Configuring
  BY <1>16 DEF Configuring, Case, Claim, TypeOK, ControlTypes, FlagTypes, TableTypes,
     BusTypes, PCs, TaskStates, Handled, Interrupts, Entries, Unused, Addresses,
        UserAddresses, Used, LatchInv, FrameInv, FramesBeforeTraffic, ControlInv, AfterTask,
           AfterProbe, LedInv, InitPCs, TableInv, LastUsed, RunningMeansReachable, Answers
<1>17. CASE Report
  <2>1. ControlTypes'
    BY <1>17, LastClassIsTmp DEF Report, ControlTypes, PCs, TaskStates, Handled, Interrupts,
       TableInv, TypeOK, TableTypes
  <2>2. FlagTypes'
    BY <1>17 DEF Report, FlagTypes
  <2>3. TableTypes'
    BY <1>17 DEF Report, TableTypes, Addresses, Entries
  <2>4. BusTypes'
    BY <1>17 DEF Report, BusTypes, Interrupts, TableTypes
  <2>5. LatchInv'
    BY <1>17 DEF Report, LatchInv
  <2>6. FrameInv'
    BY <1>17 DEF Report, FrameInv, FramesBeforeTraffic
  <2>7. ControlInv'
    BY <1>17 DEF Report, ControlInv, AfterTask, AfterProbe, InitPCs
  <2>8. LedInv'
    BY <1>17 DEF Report, LedInv, InitPCs, ControlInv, AfterTask
  <2>9. TableInv'
    BY <1>17, LastClassIsTmp DEF Report, TableInv, LastUsed, Used, TableTypes, Addresses,
       UserAddresses, Entries, InitPCs, TypeOK
  <2>10. RunningMeansReachable'
    BY <1>17 DEF Report, RunningMeansReachable, Answers, FrameInv, FramesBeforeTraffic
  <2> QED
    BY <2>1, <2>2, <2>3, <2>4, <2>5, <2>6, <2>7, <2>8, <2>9, <2>10 DEF TypeOK
<1>18. CASE Poll
  BY <1>18 DEF Poll, TypeOK, ControlTypes, FlagTypes, TableTypes, BusTypes, PCs, TaskStates,
     Handled, Interrupts, Entries, Unused, Addresses, UserAddresses, Used, LatchInv,
        FrameInv, FramesBeforeTraffic, ControlInv, AfterTask, AfterProbe, LedInv, InitPCs,
           TableInv, LastUsed, RunningMeansReachable, Answers
<1>19. CASE ShowError
  BY <1>19 DEF ShowError, TypeOK, ControlTypes, FlagTypes, TableTypes, BusTypes, PCs,
     TaskStates, Handled, Interrupts, Entries, Unused, Addresses, UserAddresses, Used,
        LatchInv, FrameInv, FramesBeforeTraffic, ControlInv, AfterTask, AfterProbe, LedInv,
           InitPCs, TableInv, LastUsed, RunningMeansReachable, Answers
<1>20. CASE NotRunning
  <2>1. ControlTypes'
    BY <1>20 DEF NotRunning, ClearLED9, ControlTypes, PCs, TaskStates, Handled, Interrupts
  <2>2. FlagTypes'
    BY <1>20 DEF NotRunning, ClearLED9, FlagTypes
  <2>3. TableTypes'
    BY <1>20 DEF NotRunning, ClearLED9, TableTypes, Addresses, Entries
  <2>4. BusTypes'
    BY <1>20 DEF NotRunning, ClearLED9, BusTypes, Interrupts, TableTypes
  <2>5. LatchInv'
    BY <1>20 DEF NotRunning, ClearLED9, LatchInv
  <2>6. FrameInv'
    BY <1>20 DEF NotRunning, ClearLED9, FrameInv, FramesBeforeTraffic, ControlInv, AfterTask
  <2>7. ControlInv'
    BY <1>20 DEF NotRunning, ClearLED9, ControlInv, AfterTask, AfterProbe, InitPCs
  <2>8. LedInv'
    BY <1>20 DEF NotRunning, ClearLED9, LedInv, InitPCs, ControlInv, AfterTask
  <2>9. TableInv'
    BY <1>20 DEF NotRunning, ClearLED9, TableInv, LastUsed, Used, TableTypes, Addresses,
       UserAddresses, Entries, InitPCs
  <2>10. RunningMeansReachable'
    BY <1>20 DEF NotRunning, ClearLED9, RunningMeansReachable, Answers, FrameInv,
       FramesBeforeTraffic
  <2> QED
    BY <2>1, <2>2, <2>3, <2>4, <2>5, <2>6, <2>7, <2>8, <2>9, <2>10 DEF TypeOK
<1>21. CASE Unplug
  <2>1. ControlTypes'
    BY <1>21 DEF Unplug, Raise, ProgramUnchanged, ControlTypes, PCs, TaskStates, Handled,
       Interrupts
  <2>2. FlagTypes'
    BY <1>21 DEF Unplug, Raise, ProgramUnchanged, FlagTypes
  <2>3. TableTypes'
    BY <1>21 DEF Unplug, Raise, ProgramUnchanged, TableTypes, Addresses, Entries
  <2>4. BusTypes'
    BY <1>21 DEF Unplug, Raise, ProgramUnchanged, BusTypes, Interrupts, TableTypes
  <2>5. LatchInv'
    BY <1>21 DEF Unplug, Raise, ProgramUnchanged, LatchInv
  <2>6. FrameInv'
    BY <1>21 DEF Unplug, Raise, ProgramUnchanged, FrameInv, FramesBeforeTraffic
  <2>7. ControlInv'
    BY <1>21 DEF Unplug, Raise, ProgramUnchanged, ControlInv, AfterTask, AfterProbe, InitPCs
  <2>8. LedInv'
    BY <1>21 DEF Unplug, Raise, ProgramUnchanged, LedInv, InitPCs, ControlInv, AfterTask
  <2>9. TableInv'
    BY <1>21 DEF Unplug, Raise, ProgramUnchanged, TableInv, LastUsed, Used, TableTypes,
       Addresses, UserAddresses, Entries
  <2>10. RunningMeansReachable'
    BY <1>21 DEF Unplug, Raise, ProgramUnchanged, RunningMeansReachable, Answers, FrameInv,
       FramesBeforeTraffic
  <2> QED
    BY <2>1, <2>2, <2>3, <2>4, <2>5, <2>6, <2>7, <2>8, <2>9, <2>10 DEF TypeOK
<1>22. CASE \E d \in Devices \cup {BadLine} : Plug(d)
  <2>1. ControlTypes'
    BY <1>22 DEF Plug, Raise, ProgramUnchanged, ControlTypes, PCs, TaskStates, Handled,
       Interrupts
  <2>2. FlagTypes'
    BY <1>22 DEF Plug, Raise, ProgramUnchanged, FlagTypes
  <2>3. TableTypes'
    BY <1>22 DEF Plug, Raise, ProgramUnchanged, TableTypes, Addresses, Entries
  <2>4. BusTypes'
    BY <1>22 DEF Plug, Raise, ProgramUnchanged, BusTypes, Interrupts, TableTypes
  <2>5. LatchInv'
    BY <1>22 DEF Plug, Raise, ProgramUnchanged, LatchInv
  <2>6. FrameInv'
    BY <1>22 DEF Plug, Raise, ProgramUnchanged, FrameInv, FramesBeforeTraffic
  <2>7. ControlInv'
    BY <1>22 DEF Plug, Raise, ProgramUnchanged, ControlInv, AfterTask, AfterProbe, InitPCs
  <2>8. LedInv'
    BY <1>22 DEF Plug, Raise, ProgramUnchanged, LedInv, InitPCs, ControlInv, AfterTask
  <2>9. TableInv'
    BY <1>22 DEF Plug, Raise, ProgramUnchanged, TableInv, LastUsed, Used, TableTypes,
       Addresses, UserAddresses, Entries
  <2>10. RunningMeansReachable'
    BY <1>22 DEF Plug, Raise, ProgramUnchanged, RunningMeansReachable, Answers, FrameInv,
       FramesBeforeTraffic
  <2> QED
    BY <2>1, <2>2, <2>3, <2>4, <2>5, <2>6, <2>7, <2>8, <2>9, <2>10 DEF TypeOK
<1>23. CASE ResetDone
  <2>1. ControlTypes'
    BY <1>23 DEF ResetDone, ProgramUnchanged, ControlTypes, PCs, TaskStates, Handled, Interrupts
  <2>2. FlagTypes'
    BY <1>23 DEF ResetDone, ProgramUnchanged, FlagTypes
  <2>3. TableTypes'
    BY <1>23 DEF ResetDone, ProgramUnchanged, TableTypes, Addresses, Entries
  <2>4. BusTypes'
    BY <1>23 DEF ResetDone, ProgramUnchanged, BusTypes, Interrupts, TableTypes
  <2>5. LatchInv'
    BY <1>23 DEF ResetDone, ProgramUnchanged, LatchInv
  <2>6. FrameInv'
    BY <1>23 DEF ResetDone, ProgramUnchanged, FrameInv, FramesBeforeTraffic
  <2>7. ControlInv'
    BY <1>23 DEF ResetDone, ProgramUnchanged, ControlInv, AfterTask, AfterProbe, InitPCs
  <2>8. LedInv'
    BY <1>23 DEF ResetDone, ProgramUnchanged, LedInv, InitPCs, ControlInv, AfterTask
  <2>9. TableInv'
    BY <1>23 DEF ResetDone, ProgramUnchanged, TableInv, LastUsed, Used, TableTypes,
       Addresses, UserAddresses, Entries
  <2>10. RunningMeansReachable'
    BY <1>23 DEF ResetDone, ProgramUnchanged, RunningMeansReachable, Answers, FrameInv,
       FramesBeforeTraffic
  <2> QED
    BY <2>1, <2>2, <2>3, <2>4, <2>5, <2>6, <2>7, <2>8, <2>9, <2>10 DEF TypeOK
<1>24. CASE StartOfFrame
  BY <1>24 DEF StartOfFrame, Raise, ProgramUnchanged, TypeOK, ControlTypes, FlagTypes,
     TableTypes, BusTypes, PCs, TaskStates, Handled, Interrupts, Entries, Unused, Addresses,
        UserAddresses, Used, LatchInv, FrameInv, FramesBeforeTraffic, ControlInv, AfterTask,
           AfterProbe, LedInv, InitPCs, TableInv, LastUsed, RunningMeansReachable, Answers
<1>25. CASE SettleExpires
  BY <1>25 DEF SettleExpires, ProgramUnchanged, TypeOK, ControlTypes, FlagTypes, TableTypes,
     BusTypes, PCs, TaskStates, Handled, Interrupts, Entries, Unused, Addresses,
        UserAddresses, Used, LatchInv, FrameInv, FramesBeforeTraffic, ControlInv, AfterTask,
           AfterProbe, LedInv, InitPCs, TableInv, LastUsed, RunningMeansReachable, Answers
<1>26. CASE UNCHANGED vars
  BY <1>26 DEF vars, TypeOK, ControlTypes, FlagTypes, TableTypes, BusTypes, PCs, TaskStates,
     Handled, Interrupts, Entries, Unused, Addresses, UserAddresses, Used, LatchInv,
        FrameInv, FramesBeforeTraffic, ControlInv, AfterTask, AfterProbe, LedInv, InitPCs,
           TableInv, LastUsed, RunningMeansReachable, Answers
<1> QED
  BY <1>1, <1>2, <1>3, <1>4, <1>5, <1>6, <1>7, <1>8, <1>9, <1>10, <1>11, <1>12, <1>13, <1>14,
     <1>15, <1>16, <1>17, <1>18, <1>19, <1>20, <1>21, <1>22, <1>23, <1>24, <1>25, <1>26
     DEF Next, Program, USB_Task, Main, User, Hardware

\* The invariant holds in every reachable state, whatever devices are plugged.
THEOREM Invariance == Spec => []IInv
  BY InitIInv, StepIInv, PTL DEF Spec

----------------------------------------------------------------------------
(* The properties that the runs check, for every value of the constants *)

\* Every variable keeps its type; usb_task_state++ leads to no unexpected state.
THEOREM TypeCorrect == Spec => []TypeOK
<1>1. IInv => TypeOK
  BY DEF IInv
<1> QED
  BY <1>1, Invariance, PTL

\* No endpoint record that the program dereferences is missing.
THEOREM EndpointsAlwaysPresent == Spec => []EndpointsPresent
<1>1. IInv => EndpointsPresent
  <2> SUFFICES ASSUME IInv PROVE EndpointsPresent
    OBVIOUS
  <2>1. pc \in {"task", "main"} => pc \notin InitPCs
    BY DEF InitPCs
  <2>2. usb_task_state = RUNNING => 1 \in Used(devtable)
    BY DEF IInv, TableInv, LastUsed, Used, UserAddresses
  <2> QED
    BY <2>1, <2>2 DEF IInv, TableInv, LastUsed, EndpointsPresent, Used
<1> QED
  BY <1>1, Invariance, PTL

\* A poll uses the driver of the device that was enumerated.
THEOREM AlwaysPollsWithItsDriver == Spec => []PollsWithItsDriver
<1>1. IInv => PollsWithItsDriver
  BY DEF IInv, TableInv, PollsWithItsDriver
<1> QED
  BY <1>1, Invariance, PTL

\* A device that is served is there and answers, or a change waits to be read.
THEOREM RunningIsReachable == Spec => []RunningMeansReachable
<1>1. IInv => RunningMeansReachable
  BY DEF IInv
<1> QED
  BY <1>1, Invariance, PTL

\* No transfer is made without frames or during a bus reset.
THEOREM FramesAlwaysBeforeTraffic == Spec => []FramesBeforeTraffic
<1>1. IInv => FramesBeforeTraffic
  BY DEF IInv, FrameInv
<1> QED
  BY <1>1, Invariance, PTL

\* LED 9 tells at the top of the loop whether a device is served.
THEOREM LedAlwaysShowsRunning == Spec => []LedShowsRunning
<1>1. IInv => LedShowsRunning
  BY DEF IInv, ControlInv, LedInv, LedShowsRunning, InitPCs
<1> QED
  BY <1>1, Invariance, PTL

----------------------------------------------------------------------------
(* The displays *)

\* A number without its sign.
Size(v) == IF v < 0 THEN -v ELSE v

\* The digits that are printed are those of the size (printSignedHex0).
LEMMA DigitsOf ==
  ASSUME NEW v \in Numbers
  PROVE  /\ Size(v) \in 0 .. 127
         /\ Tens(v) = (Size(v) % 100) \div 10 /\ Tens(v) \in 0 .. 9
         /\ Ones(v) = Size(v) % 10 /\ Ones(v) \in 0 .. 9
         /\ Hundreds(v) <=> Size(v) >= 100
<1> DEFINE m == Size(v)
<1>1. m \in 0 .. 127  BY DEF Size, Numbers
<1>2. Magnitude(v) = m
  <2>1. CASE v < 0
    <3>1. -v + 128 \in 129 .. 255  BY <2>1 DEF Numbers
    <3>2. (-v + 128) % 256 = -v + 128  BY <3>1
    <3> QED  BY <2>1, <3>1, <3>2 DEF Magnitude, SignedChar, Size, Numbers
  <2>2. CASE ~(v < 0)  BY <2>2 DEF Magnitude, Size
  <2> QED  BY <2>1, <2>2
<1> HIDE DEF m
<1>3. Quot(m, 100) = m \div 100 /\ Rem(m, 100) = m % 100  BY <1>1 DEF Quot, Rem
<1>4. m % 100 \in 0 .. 99  BY <1>1
<1>5. \A r \in 0 .. 99 : /\ Quot(r, 10) = r \div 10 /\ Quot(r, 10) % 256 = r \div 10
                         /\ Rem(r, 10) = r % 10 /\ Rem(r, 10) % 256 = r % 10
                         /\ r \div 10 \in 0 .. 9 /\ r % 10 \in 0 .. 9
  BY DEF Quot, Rem
<1>6. (m % 100) % 10 = m % 10  BY <1>1
<1>7. Tens(v) = (m % 100) \div 10 /\ Tens(v) \in 0 .. 9
  BY <1>2, <1>3, <1>4, <1>5 DEF Tens
<1>8. Ones(v) = m % 10 /\ Ones(v) \in 0 .. 9
  BY <1>2, <1>3, <1>4, <1>5, <1>6 DEF Ones
<1>9. Hundreds(v) <=> m >= 100  BY <1>1, <1>2, <1>3 DEF Hundreds
<1> QED  BY <1>1, <1>7, <1>8, <1>9 DEF m

\* A decimal digit takes four bits, and they add up to it.
LEMMA FourBits ==
  ASSUME NEW d \in 0 .. 9
  PROVE  /\ BitsOf(d) \subseteq 0 .. 3
         /\ (IF 0 \in BitsOf(d) THEN 1 ELSE 0) + (IF 1 \in BitsOf(d) THEN 2 ELSE 0)
            + (IF 2 \in BitsOf(d) THEN 4 ELSE 0) + (IF 3 \in BitsOf(d) THEN 8 ELSE 0) = d
<1>1. /\ 0 \in BitsOf(d) <=> d % 2 = 1
      /\ 1 \in BitsOf(d) <=> (d \div 2) % 2 = 1
      /\ 2 \in BitsOf(d) <=> (d \div 4) % 2 = 1
      /\ 3 \in BitsOf(d) <=> (d \div 8) % 2 = 1
  BY DEF BitsOf, Weight
<1>2. /\ d \div 16 = 0 /\ d \div 32 = 0 /\ d \div 64 = 0 /\ d \div 128 = 0
  OBVIOUS
<1>3. \A b \in 4 .. 7 : b \notin BitsOf(d)
  BY <1>2 DEF BitsOf, Weight
<1>4. BitsOf(d) \subseteq 0 .. 3
  BY <1>3 DEF BitsOf
<1>5. CASE d \in 0 .. 4  BY <1>1, <1>5, <1>4
<1>6. CASE d \in 5 .. 9  BY <1>1, <1>6, <1>4
<1> QED  BY <1>5, <1>6

\* The decoder draws each decimal digit as the figure that it is (HexDriver).
LEMMA DrawsFigures == ASSUME NEW d \in 0 .. 9 PROVE Lit(HexDriver[d + 1]) = Figure[d + 1]
<1>1. \A n \in Nat, s \in 0 .. 6 : s \in BitsOf(n) <=> (n \div Weight[s + 1]) % 2 = 1
  BY DEF BitsOf
<1>2. \A n \in Nat : /\ 0 \in BitsOf(n) <=> n % 2 = 1
                     /\ 1 \in BitsOf(n) <=> (n \div 2) % 2 = 1
                     /\ 2 \in BitsOf(n) <=> (n \div 4) % 2 = 1
                     /\ 3 \in BitsOf(n) <=> (n \div 8) % 2 = 1
                     /\ 4 \in BitsOf(n) <=> (n \div 16) % 2 = 1
                     /\ 5 \in BitsOf(n) <=> (n \div 32) % 2 = 1
                     /\ 6 \in BitsOf(n) <=> (n \div 64) % 2 = 1
  BY <1>1 DEF Weight
<1>3. \A n \in Nat : Lit(n) = {s \in 0 .. 6 : s \notin BitsOf(n)}  BY DEF Lit
<1>4. CASE d = 0  BY <1>2, <1>3, <1>4 DEF HexDriver, Figure
<1>5. CASE d = 1  BY <1>2, <1>3, <1>5 DEF HexDriver, Figure
<1>6. CASE d = 2  BY <1>2, <1>3, <1>6 DEF HexDriver, Figure
<1>7. CASE d = 3  BY <1>2, <1>3, <1>7 DEF HexDriver, Figure
<1>8. CASE d = 4  BY <1>2, <1>3, <1>8 DEF HexDriver, Figure
<1>9. CASE d = 5  BY <1>2, <1>3, <1>9 DEF HexDriver, Figure
<1>10. CASE d = 6  BY <1>2, <1>3, <1>10 DEF HexDriver, Figure
<1>11. CASE d = 7  BY <1>2, <1>3, <1>11 DEF HexDriver, Figure
<1>12. CASE d = 8  BY <1>2, <1>3, <1>12 DEF HexDriver, Figure
<1>13. CASE d = 9  BY <1>2, <1>3, <1>13 DEF HexDriver, Figure
<1> QED  BY <1>4, <1>5, <1>6, <1>7, <1>8, <1>9, <1>10, <1>11, <1>12, <1>13

\* The four bits of a display, as they are shifted there, are the digit.
LEMMA DigitShown ==
  ASSUME NEW io, NEW k \in 0 .. 3, NEW d \in 0 .. 9,
         \A i \in 0 .. 3 : 4 * k + i \in io.hex <=> i \in BitsOf(d)
  PROVE  Digit(io, k) = Figure[d + 1]
<1>1. In0(io, k) = (IF 0 \in BitsOf(d) THEN 1 ELSE 0) + (IF 1 \in BitsOf(d) THEN 2 ELSE 0)
                   + (IF 2 \in BitsOf(d) THEN 4 ELSE 0) + (IF 3 \in BitsOf(d) THEN 8 ELSE 0)
  BY DEF In0, Weight
<1>2. In0(io, k) = d  BY <1>1, FourBits
<1> QED  BY <1>2, DrawsFigures DEF Digit

\* Printing the first number, and then the second, sets their digits and their LEDs.
LEMMA Printed ==
  ASSUME NEW io \in Ports, NEW v \in Numbers, NEW w \in Numbers
  PROVE  LET new == printSignedHex1(printSignedHex0(io, v), w)
         IN  /\ \A i \in 0 .. 3 : /\ 12 + i \in new.hex <=> i \in BitsOf(Tens(v))
                                  /\ 8 + i \in new.hex <=> i \in BitsOf(Ones(v))
                                  /\ 4 + i \in new.hex <=> i \in BitsOf(Tens(w))
                                  /\ i \in new.hex <=> i \in BitsOf(Ones(w))
             /\ 11 \in new.leds <=> v < 0
             /\ 13 \in new.leds <=> Hundreds(v)
             /\ 10 \in new.leds <=> w < 0
             /\ 12 \in new.leds <=> Hundreds(w)
             /\ new.leds \intersect (0 .. 9) = io.leds \intersect (0 .. 9)
<1> DEFINE first == printSignedHex0(io, v)
           new == printSignedHex1(first, w)
<1>1. /\ BitsOf(Tens(v)) \subseteq 0 .. 3 /\ BitsOf(Ones(v)) \subseteq 0 .. 3
      /\ BitsOf(Tens(w)) \subseteq 0 .. 3 /\ BitsOf(Ones(w)) \subseteq 0 .. 3
  BY DigitsOf, FourBits
<1>2. /\ first.hex = ((io.hex \intersect 0 .. 7) \union Shifted(BitsOf(Tens(v)), 12)
                      \union Shifted(BitsOf(Ones(v)), 8)) \intersect 0 .. 15
      /\ new.hex = (first.hex \intersect 8 .. 15) \union Shifted(BitsOf(Tens(w)), 4)
                   \union BitsOf(Ones(w))
  BY DEF printSignedHex0, printSignedHex1, Signs, setLED, Ports
<1>3. first.leds = (IF Hundreds(v) THEN (IF v < 0 THEN io.leds \union {11} ELSE io.leds \ {11})
                                         \union {13}
                    ELSE (IF v < 0 THEN io.leds \union {11} ELSE io.leds \ {11}) \ {13})
  BY DEF printSignedHex0, Signs, setLED, Ports
<1>4. new.leds = (IF Hundreds(w) THEN (IF w < 0 THEN first.leds \union {10}
                                       ELSE first.leds \ {10}) \union {12}
                  ELSE (IF w < 0 THEN first.leds \union {10} ELSE first.leds \ {10}) \ {12})
  BY DEF printSignedHex0, printSignedHex1, Signs, setLED, Ports
<1> HIDE DEF first, new
<1>5. /\ 11 \in new.leds <=> v < 0
      /\ 13 \in new.leds <=> Hundreds(v)
      /\ 10 \in new.leds <=> w < 0
      /\ 12 \in new.leds <=> Hundreds(w)
      /\ new.leds \intersect (0 .. 9) = io.leds \intersect (0 .. 9)
  BY <1>3, <1>4
<1>6. \A i \in 0 .. 3 : /\ 12 + i \in new.hex <=> i \in BitsOf(Tens(v))
                        /\ 8 + i \in new.hex <=> i \in BitsOf(Ones(v))
  BY <1>1, <1>2 DEF Shifted
<1>7. \A i \in 0 .. 3 : /\ 4 + i \in new.hex <=> i \in BitsOf(Tens(w))
                        /\ i \in new.hex <=> i \in BitsOf(Ones(w))
  BY <1>1, <1>2 DEF Shifted
<1> QED  BY <1>5, <1>6, <1>7 DEF first, new

\* Both numbers of every report can be read from the displays, whatever was shown before,
\* and the LEDs of the loop are left alone (printSignedHex0, printSignedHex1).
THEOREM EveryReportReadable ==
  ASSUME NEW io \in Ports, NEW v \in Numbers, NEW w \in Numbers
  PROVE  ReadBack(io, v, w)
<1> DEFINE new == printSignedHex1(printSignedHex0(io, v), w)
<1>1. /\ \A i \in 0 .. 3 : /\ 4 * 3 + i \in new.hex <=> i \in BitsOf(Tens(v))
                           /\ 4 * 2 + i \in new.hex <=> i \in BitsOf(Ones(v))
                           /\ 4 * 1 + i \in new.hex <=> i \in BitsOf(Tens(w))
                           /\ 4 * 0 + i \in new.hex <=> i \in BitsOf(Ones(w))
      /\ 11 \in new.leds <=> v < 0
      /\ 13 \in new.leds <=> Hundreds(v)
      /\ 10 \in new.leds <=> w < 0
      /\ 12 \in new.leds <=> Hundreds(w)
      /\ new.leds \intersect (0 .. 9) = io.leds \intersect (0 .. 9)
  BY Printed
<1> HIDE DEF new
<1>2. /\ Digit(new, 3) = Figure[Tens(v) + 1] /\ Digit(new, 2) = Figure[Ones(v) + 1]
      /\ Digit(new, 1) = Figure[Tens(w) + 1] /\ Digit(new, 0) = Figure[Ones(w) + 1]
  BY <1>1, DigitsOf, DigitShown
<1>3. Reads(SignDigit(new, 11, 13), Digit(new, 3), Digit(new, 2), v)
  BY <1>1, <1>2, DigitsOf DEF Reads, SignDigit, Size, Figure
<1>4. Reads(SignDigit(new, 10, 12), Digit(new, 1), Digit(new, 0), w)
  BY <1>1, <1>2, DigitsOf DEF Reads, SignDigit, Size, Figure
<1> QED  BY <1>1, <1>3, <1>4 DEF ReadBack, new

\* In particular where the loop shows a report, over every picture of a run.
THEOREM ReportAlwaysReadable == Spec => []ReportReadable
<1>1. Before \subseteq Ports
  BY DEF Before, Ports
<1>2. NumbersReadBack
  BY <1>1, EveryReportReadable DEF NumbersReadBack
<1>3. ReportReadable
  BY <1>2 DEF ReportReadable
<1> QED
  BY <1>3, PTL

----------------------------------------------------------------------------
(* The host implements PortService: every step maps to one of its steps *)

ServiceInit == Service!Init
ServiceStep == [Service!Next]_(Service!vars)

\* The host starts as PortService does.
LEMMA RefineInit == Init => ServiceInit
  BY UsbHostAssumption DEF Init, ServiceInit, Service!Init, inPort, changed, served, phase,
     Detached

\* Every step of the host is a step of PortService or a stutter.
LEMMA RefineStep == IInv /\ [Next]_vars => ServiceStep
<1> SUFFICES ASSUME IInv, [Next]_vars PROVE ServiceStep
  OBVIOUS
<1> USE UsbHostAssumption DEF ServiceStep, Service!vars, phase, served, changed, inPort,
   Detached,
        loopVars, taskVars, tableVars, chipVars, busVars
<1>1. CASE ResetChip \/ InitAck \/ Ack
  BY <1>1 DEF ResetChip, InitAck, USB_init, ClearLED9, Ack, Sendback, IInv, ControlInv,
     AfterTask, LatchInv,
     Service!Next, Service!Clear, Service!Change
<1>2. CASE InitProbe
  BY <1>2, ProbeStateCases DEF InitProbe, IInv, ControlInv, AfterTask, Service!Next,
     Service!Restart
<1>3. CASE Probe
  BY <1>3, ProbeStateCases DEF Probe, IInv, LatchInv, TypeOK, ControlTypes, TaskStates,
     Handled, Service!Next, Service!Notice
<1>4. CASE MAX3421E_Task \/ Main \/ StartOfFrame \/ SettleExpires
  BY <1>4 DEF MAX3421E_Task, Main, Report, Poll, ShowError, NotRunning, StartOfFrame,
     SettleExpires, Raise, ProgramUnchanged
<1>5. CASE Initialize \/ Rest \/ StartSettle \/ WaitSettle \/ WaitReset \/ WaitSof
  BY <1>5 DEF Initialize, Rest, StartSettle, WaitSettle, WaitReset, WaitSof, Case
<1>6. CASE GetDescriptor \/ Addressing
  BY <1>6 DEF GetDescriptor, Addressing, SetAddress, Case, Service!Next, Service!GiveUp
<1>7. CASE Configuring
  BY <1>7 DEF Configuring, Case, Claim, Answers, IInv, TypeOK, TableTypes, Addresses,
     Entries, Service!Next, Service!GiveUp, Service!Identify
<1>8. CASE ResetDevice \/ ResetDone
  BY <1>8 DEF ResetDevice, ResetDone, StaleIrqs, Case, ProgramUnchanged, Service!Next,
     Service!Change
<1>9. CASE User
  BY <1>9 DEF User, Plug, Unplug, Raise, ProgramUnchanged, Service!Next, Service!Change
<1>10. CASE UNCHANGED vars
  BY <1>10 DEF vars
<1> QED
  BY <1>1, <1>2, <1>3, <1>4, <1>5, <1>6, <1>7, <1>8, <1>9, <1>10
     DEF Next, Program, USB_Task, Main, Hardware

\* Leaving liveness aside, the program is an implementation of the promise.
THEOREM ImplementsService == Spec => Service!Init /\ [][Service!Next]_(Service!vars)
<1>1. Init => Service!Init
  BY RefineInit DEF ServiceInit
<1>2. IInv /\ [Next]_vars => [Service!Next]_(Service!vars)
  BY RefineStep DEF ServiceStep
<1> QED
  BY <1>1, <1>2, Invariance, PTL DEF Spec
----------------------------------------------------------------------------
(* An enumeration comes to an end *)

\* A connection change that the next bus probe will act on: one during a bus reset is
\* answered by waiting on, and those that Ack and InitAck clear are forgotten.
Pending == /\ "CONDET" \in hirq
           /\ pc \in {"max", "probe", "task", "main"}
           /\ usb_task_state = WAIT_RESET => pc = "task"

\* main is going to initialise the chip again, or does.
Restarting == (runningdebugflag /\ usb_task_state # RUNNING) \/ pc \in {"reset", "initprobe"}

\* How many states of the enumeration are still to come.
StatesLeft ==
  CASE usb_task_state = ATTACHED       -> 9
    [] usb_task_state = SETTLE         -> 8
    [] usb_task_state = RESET_DEVICE   -> 7
    [] usb_task_state = WAIT_RESET     -> 6
    [] usb_task_state = WAIT_SOF       -> 5
    [] usb_task_state = GET_DESCRIPTOR -> 4
    [] usb_task_state = ADDRESSING     -> 3
    [] usb_task_state = CONFIGURING    -> 2
    [] usb_task_state = INITIALIZE     -> 1
    [] OTHER                           -> 0
Rank == IF Pending THEN 11 ELSE IF Restarting THEN 10 ELSE StatesLeft

\* How many steps of the loop until the next of them: until the probe, the chip's
\* initialisation, or the next call of USB_Task.
Steps ==
  CASE Rank = 11 -> (CASE pc = "task" -> 4 [] pc = "main" -> 3 [] pc = "max" -> 2 [] OTHER -> 1)
    [] Rank = 10 -> (CASE pc = "ack" -> 5 [] pc = "task" -> 4 [] pc = "main" -> 3
                       [] pc = "reset" -> 2 [] OTHER -> 1)
    [] OTHER     -> (CASE pc \in {"main", "initack"} -> 6 [] pc = "max" -> 5
                       [] pc = "probe" -> 4 [] pc = "ack" -> 3 [] OTHER -> 2)

\* USB_Task waits for its settle timer or for the end of a bus reset.
Waits == /\ pc = "task" /\ Rank < 10
         /\ \/ usb_task_state = SETTLE /\ ~settled
            \/ usb_task_state = WAIT_RESET /\ busrst

\* While the user leaves the port alone the enumeration only goes forward, and each step of
\* the program but those of the two waits takes it further, until it is at rest.
EnumerationAdvances ==
  [][~User => /\ Rank' <= Rank
              /\ IF Program
                 THEN Rank > 0 /\ ~Waits => Rank' < Rank \/ (Rank' = Rank /\ Steps' < Steps)
                 ELSE Rank' = Rank /\ Steps' = Steps]_vars

\* A step of the program takes the enumeration further.
LEMMA ProgramAdvances ==
  ASSUME IInv, IInv', Program
  PROVE  /\ Rank' <= Rank
         /\ Rank > 0 /\ ~Waits => Rank' < Rank \/ (Rank' = Rank /\ Steps' < Steps)
<1> USE UsbHostAssumption DEF IInv, TypeOK, loopVars, taskVars, tableVars, chipVars, busVars,
        ControlTypes, PCs, TaskStates, Handled, Rank, Steps, Pending, Restarting, StatesLeft,
        ControlInv, AfterTask, AfterProbe, InitPCs
<1>1. CASE ResetChip
  BY <1>1 DEF ResetChip
<1>2. CASE InitProbe
  BY <1>2, ProbeStateCases DEF InitProbe, Detached
<1>3. CASE InitAck
  BY <1>3 DEF InitAck, USB_init, ClearLED9
<1>4. CASE MAX3421E_Task
  BY <1>4 DEF MAX3421E_Task, PinLow
<1>5. CASE Probe
  BY <1>5, ProbeStateCases DEF Probe, Detached, LatchInv
<1>6. CASE Ack
  BY <1>6 DEF Ack, Sendback, LatchInv
<1>7. CASE Initialize
  BY <1>7 DEF Initialize, Case, USB_init
<1>8. CASE Rest
  BY <1>8 DEF Rest
<1>9. CASE StartSettle
  BY <1>9 DEF StartSettle, Case
<1>10. CASE WaitSettle
  BY <1>10 DEF WaitSettle, Case, Waits
<1>11. CASE ResetDevice
  BY <1>11 DEF ResetDevice, Case, StaleIrqs
<1>12. CASE WaitReset
  BY <1>12 DEF WaitReset, Case, Waits
<1>13. CASE WaitSof
  BY <1>13 DEF WaitSof, Case
<1>14. CASE GetDescriptor
  BY <1>14 DEF GetDescriptor, Case
<1>15. CASE Addressing
  BY <1>15 DEF Addressing, Case, SetAddress
<1>16. CASE Configuring
  BY <1>16 DEF Configuring, Case
<1>17. CASE Report
  BY <1>17 DEF Report
<1>18. CASE Poll
  BY <1>18 DEF Poll
<1>19. CASE ShowError
  BY <1>19 DEF ShowError
<1>20. CASE NotRunning
  BY <1>20 DEF NotRunning, ClearLED9
<1> QED
  BY <1>1, <1>2, <1>3, <1>4, <1>5, <1>6, <1>7, <1>8, <1>9, <1>10, <1>11, <1>12, <1>13, <1>14,
     <1>15, <1>16, <1>17, <1>18, <1>19, <1>20 DEF Program, USB_Task, Main

\* Nothing that the chip or the clock does takes it back.
LEMMA HardwareKeeps ==
  ASSUME "end" \notin ResetCondet, Hardware
  PROVE  Rank' = Rank /\ Steps' = Steps
<1>1. /\ UNCHANGED <<pc, usb_task_state, runningdebugflag>>
      /\ "CONDET" \in hirq' <=> "CONDET" \in hirq
  BY DEF Hardware, ResetDone, StartOfFrame, SettleExpires, Raise, ProgramUnchanged, loopVars,
     chipVars
<1>2. Pending' = Pending /\ Restarting' = Restarting /\ StatesLeft' = StatesLeft
  BY <1>1 DEF Pending, Restarting, StatesLeft
<1>3. Rank' = Rank
  BY <1>2 DEF Rank
<1> QED  BY <1>1, <1>3 DEF Steps

\* Where a bus reset raises CONDETIRQ no later than at its start, the enumeration of a device
\* that is left alone goes through its states once, in order, and ends: USB_Task and the
\* interrupt handler never send each other round in a circle.
THEOREM EnumerationAlwaysAdvances ==
  ASSUME "end" \notin ResetCondet
  PROVE  Spec => EnumerationAdvances
<1>1. IInv /\ IInv' /\ [Next]_vars =>
        [~User => /\ Rank' <= Rank
                  /\ IF Program
                     THEN Rank > 0 /\ ~Waits => Rank' < Rank \/ (Rank' = Rank /\ Steps' < Steps)
                     ELSE Rank' = Rank /\ Steps' = Steps]_vars
  <2> SUFFICES ASSUME IInv, IInv', Next, ~User
               PROVE  /\ Rank' <= Rank
                      /\ IF Program
                         THEN Rank > 0 /\ ~Waits
                                => Rank' < Rank \/ (Rank' = Rank /\ Steps' < Steps)
                         ELSE Rank' = Rank /\ Steps' = Steps
    OBVIOUS
  <2>1. CASE Program
    BY <2>1, ProgramAdvances
  <2>2. CASE ~Program
    <3>1. Rank' = Rank /\ Steps' = Steps
      BY <2>2, HardwareKeeps DEF Next
    <3>2. Rank \in 0 .. 11
      BY DEF Rank, StatesLeft
    <3> QED  BY <2>2, <3>1, <3>2
  <2> QED  BY <2>1, <2>2
<1> QED  BY <1>1, Invariance, PTL DEF Spec, EnumerationAdvances
=============================================================================
