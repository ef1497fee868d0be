------------------------------ MODULE UsbHost ------------------------------
(***************************************************************************)
(* The USB host of the keyboard port: the main loop of main.c, the         *)
(* interrupt handler and bus probe of MAX3421E.c, and the enumeration      *)
(* state machine USB_Task of transfer.c.  The program is one loop that     *)
(* polls; the MAX3421E chip, the bus and the device run beside it.  The    *)
(* program's counter is pc, and it is divided exactly where an event of    *)
(* the chip can be seen or lost between two register accesses:             *)
(*                                                                         *)
(*    reset -> initprobe -> initack -> max --------------> task -> main    *)
(*      ^                               +-> probe -> ack ---^        |     *)
(*      |                               ^                            |     *)
(*      +-------- re-initialise --------+----------------------------+     *)
(***************************************************************************)
EXTENDS Integers, FiniteSets, Displays

CONSTANTS
  NumDevices,   \* USB_NUMDEVICES: addresses 1 .. NumDevices-1 can be given out
  Devices,      \* the devices a user may plug in
  Kind,         \* what the first interface descriptor of a device says it is
  Speed,        \* the speed its pull-up resistor asks for
  NoDevice,     \* the port with nothing plugged in: the lines read SE0
  BadLine,      \* the port with both lines high: SE1
  ResetCondet   \* when a bus reset raises CONDETIRQ: a subset of {"start", "end"}

ASSUME UsbHostAssumption ==
  /\ NumDevices \in Nat /\ NumDevices >= 2
  /\ Kind \in [Devices -> {"kbd", "mouse", "other"}]
  /\ Speed \in [Devices -> {"FS", "LS"}]
  /\ NoDevice \notin Devices
  /\ BadLine \notin Devices
  /\ NoDevice # BadLine
  /\ ResetCondet \subseteq {"start", "end"}

\* The values of usb_task_state that the code names, and the mask's classes.
INITIALIZE      == 1
WAIT_FOR_DEVICE == 3
ILLEGAL         == 4
ATTACHED        == 16
SETTLE          == 17
RESET_DEVICE    == 18
WAIT_RESET      == 19
WAIT_SOF        == 20
GET_DESCRIPTOR  == 21
ADDRESSING      == 32
CONFIGURING     == 48
RUNNING         == 64
ERROR           == 255

Handled == {INITIALIZE, WAIT_FOR_DEVICE, ATTACHED, SETTLE, RESET_DEVICE, WAIT_RESET,
            WAIT_SOF, GET_DESCRIPTOR, ADDRESSING, CONFIGURING}
Detached(s) == s < 16

HID_K == 1
HID_M == 2

VARIABLES
  pc,               \* where the program is
  latched,          \* HIRQ as MaxIntHandler read it
  usb_task_state,
  settled,          \* now > usb_delay, the settle timer of USB_Task
  devtable,         \* per address: the endpoint record it points to, its class
  tmp_addr,         \* the address USB_Task gave out last
  hid_addr,         \* hid_device.addr, the address the HID driver polls
  runningdebugflag, errorflag, device, \* main's locals
  led9,
  hirq, lowspeed, sofka, busrst,       \* the chip: HIRQ, MODE, HCTL
  port, dev_addr    \* the device in the port and the address it answers to

loopVars == <<runningdebugflag, errorflag, device, led9>>
taskVars == <<settled, tmp_addr>>
tableVars == <<devtable, hid_addr>>
chipVars == <<hirq, lowspeed, sofka, busrst>>
busVars == <<port, dev_addr>>
vars == <<pc, latched, usb_task_state, loopVars, taskVars, tableVars, chipVars, busVars>>

----------------------------------------------------------------------------
(* Data structures *)

Addresses == 0 .. NumDevices
UserAddresses == 1 .. NumDevices - 1
Unused == [epinfo |-> "none", devclass |-> 0]
Used(table) == {i \in UserAddresses : table[i].epinfo # "none"}

\* USB_init: forget every device; entry 0 gets the endpoint used before addressing.
USB_init == devtable' = [i \in Addresses |->
                           IF i = 0 THEN [Unused EXCEPT !.epinfo = "dev0"] ELSE Unused]

\* What MAX_busprobe reads in HRSL: J and K are relative to the selected speed.
BusSample ==
  IF port = NoDevice THEN "SE0"
  ELSE IF port = BadLine THEN "SE1"
  ELSE IF (Speed[port] = "LS") <=> lowspeed THEN "J" ELSE "K"

\* The device in the port answers a control transfer sent to address a.
Answers(a) == /\ port \in Devices
              /\ dev_addr = a
              /\ lowspeed <=> (Speed[port] = "LS")
              /\ sofka /\ ~busrst

----------------------------------------------------------------------------
(* MAX3421E.c: the bus probe, initialisation and the interrupt handler *)

\* Mutant: a probe that ignores SE1.
ProbeStateIgnoresSE1(s) ==
  CASE BusSample \in {"J", "K"} -> IF s = WAIT_RESET THEN s ELSE ATTACHED
    [] BusSample = "SE1" -> s
    [] BusSample = "SE0" -> IF Detached(s) THEN WAIT_FOR_DEVICE ELSE INITIALIZE

\* MAX_busprobe: the task state that follows state s, and the new MODE.
ProbeState(s) ==
  CASE BusSample \in {"J", "K"} -> IF s = WAIT_RESET THEN s ELSE ATTACHED
    [] BusSample = "SE1" -> ILLEGAL
    [] BusSample = "SE0" -> IF Detached(s) THEN WAIT_FOR_DEVICE ELSE INITIALIZE

ProbeMode ==
  LET attach == BusSample \in {"J", "K"} /\ usb_task_state # WAIT_RESET
      idle == BusSample = "SE0" /\ Detached(usb_task_state)
  IN  /\ lowspeed' = IF attach /\ BusSample = "K" THEN ~lowspeed
                     ELSE IF idle THEN FALSE ELSE lowspeed
      /\ sofka' = IF attach \/ idle THEN TRUE ELSE sofka

\* MAX3421E_init up to its bus probe: the chip forgets its registers.  CONDETIRQ
\* may rise as soon as the chip becomes a host.
ResetChip ==
  /\ pc = "reset"
  /\ pc' = "initprobe"
  /\ \E irq \in SUBSET {"CONDET"} : hirq' = irq
  /\ lowspeed' = FALSE
  /\ sofka' = FALSE
  /\ busrst' = FALSE
  /\ UNCHANGED <<latched, usb_task_state, loopVars, taskVars, tableVars, busVars>>

InitProbe ==
  /\ pc = "initprobe"
  /\ pc' = "initack"
  /\ usb_task_state' = ProbeState(usb_task_state)
  /\ ProbeMode
  /\ UNCHANGED <<latched, loopVars, taskVars, tableVars, hirq, busrst, busVars>>

ClearLED9 == led9' = FALSE

\* The end of MAX3421E_init, then main's USB_init and the end of main's branch.
InitAck ==
  /\ pc = "initack"
  /\ pc' = "max"
  /\ hirq' = hirq \ {"CONDET"}
  /\ USB_init
  /\ errorflag' = FALSE
  /\ ClearLED9
  /\ UNCHANGED <<latched, usb_task_state, runningdebugflag, device, taskVars, hid_addr,
                 lowspeed, sofka, busrst, busVars>>

PinLowUnlessRunning == "CONDET" \in hirq /\ usb_task_state # RUNNING   \* mutant
PinLow == "CONDET" \in hirq    \* only CONDETIE is set in HIEN

MAX3421E_Task ==
  /\ pc = "max"
  /\ IF PinLow
       THEN pc' = "probe" /\ latched' = hirq
       ELSE pc' = "task" /\ UNCHANGED latched
  /\ UNCHANGED <<usb_task_state, loopVars, taskVars, tableVars, chipVars, busVars>>

\* MaxIntHandler: the probe, then usb_task_state++ for a latched BUSEVENTIRQ.
Probe ==
  /\ pc = "probe"
  /\ pc' = "ack"
  /\ usb_task_state' = (ProbeState(usb_task_state)
                        + (IF "BUSEVENT" \in latched THEN 1 ELSE 0)) % 256
  /\ ProbeMode
  /\ UNCHANGED <<latched, loopVars, taskVars, tableVars, hirq, busrst, busVars>>

\* MaxIntHandler's last write: every latched interrupt is acknowledged.
SendbackWithoutConnect == latched \ {"CONDET"}    \* mutant
Sendback == latched

Ack ==
  /\ pc = "ack"
  /\ pc' = "task"
  /\ hirq' = hirq \ Sendback
  /\ latched' = {}
  /\ UNCHANGED <<usb_task_state, loopVars, taskVars, tableVars, lowspeed, sofka, busrst, busVars>>

----------------------------------------------------------------------------
(* transfer.c: USB_Task, one action per case *)

Case(s) == pc = "task" /\ usb_task_state = s /\ pc' = "main"

Initialize ==
  /\ Case(INITIALIZE)
  /\ USB_init
  /\ usb_task_state' = WAIT_FOR_DEVICE
  /\ UNCHANGED <<latched, loopVars, taskVars, hid_addr, chipVars, busVars>>

\* WAIT_FOR_DEVICE only samples the bus; ILLEGAL, RUNNING, ERROR and the values
\* that no case names do nothing.
Rest ==
  /\ pc = "task" /\ pc' = "main"
  /\ usb_task_state \notin Handled \ {WAIT_FOR_DEVICE}
  /\ UNCHANGED <<latched, usb_task_state, loopVars, taskVars, tableVars, chipVars, busVars>>

StartSettle ==
  /\ Case(ATTACHED)
  /\ settled' = FALSE
  /\ usb_task_state' = SETTLE
  /\ UNCHANGED <<latched, loopVars, tmp_addr, tableVars, chipVars, busVars>>

WaitSettle ==
  /\ Case(SETTLE)
  /\ usb_task_state' = IF settled THEN RESET_DEVICE ELSE SETTLE
  /\ UNCHANGED <<latched, loopVars, taskVars, tableVars, chipVars, busVars>>

KeepIrqs == {}    \* mutant: the bus event of the last reset is left pending
StaleIrqs == {"BUSEVENT"}

ResetDevice ==
  /\ Case(RESET_DEVICE)
  /\ \E irq \in SUBSET (IF "start" \in ResetCondet THEN {"CONDET"} ELSE {}) :
        hirq' = (hirq \ StaleIrqs) \cup irq
  /\ busrst' = TRUE
  /\ usb_task_state' = WAIT_RESET
  /\ UNCHANGED <<latched, loopVars, taskVars, tableVars, lowspeed, sofka, busVars>>

WaitReset ==
  /\ Case(WAIT_RESET)
  /\ IF busrst
       THEN UNCHANGED <<usb_task_state, sofka>>
       ELSE usb_task_state' = WAIT_SOF /\ sofka' = TRUE
  /\ UNCHANGED <<latched, loopVars, taskVars, tableVars, hirq, lowspeed, busrst, busVars>>

\* MAXreg_rd(rHIRQ) | bmFRAMEIRQ is never zero: the case always moves on.
WaitSof ==
  /\ Case(WAIT_SOF)
  /\ usb_task_state' = GET_DESCRIPTOR
  /\ UNCHANGED <<latched, loopVars, taskVars, tableVars, chipVars, busVars>>

\* Only the first of its transfers decides; the results of the others are dropped.
GetDescriptor ==
  /\ Case(GET_DESCRIPTOR)
  /\ \/ Answers(0) /\ usb_task_state' = ADDRESSING
     \/ usb_task_state' = ERROR
  /\ UNCHANGED <<latched, loopVars, taskVars, tableVars, chipVars, busVars>>

\* The first free address gets the endpoint record of entry 0 and is sent to the
\* device; an error may come after the device has taken the address.
FirstFreeFromTwo(i) ==    \* mutant: the search starts one entry late
  i \in UserAddresses \ (Used(devtable) \cup {1}) /\ 2 .. i - 1 \subseteq Used(devtable)
FirstFree(i) == i \in UserAddresses \ Used(devtable) /\ 1 .. i - 1 \subseteq Used(devtable)

SetAddress(i) ==
  /\ FirstFree(i)
  /\ devtable' = [devtable EXCEPT ![i].epinfo = devtable[0].epinfo]
  /\ \/ /\ Answers(0)
        /\ dev_addr' = i
        /\ tmp_addr' = i
        /\ usb_task_state' = CONFIGURING
     \/ /\ usb_task_state' = ERROR
        /\ dev_addr' \in {dev_addr} \cup {a \in {i} : Answers(0)}
        /\ UNCHANGED tmp_addr

Addressing ==
  /\ Case(ADDRESSING)
  /\ \/ \E i \in UserAddresses : SetAddress(i)
     \/ /\ Used(devtable) = UserAddresses
        /\ usb_task_state' = ERROR
        /\ UNCHANGED <<devtable, tmp_addr, dev_addr>>
  /\ UNCHANGED <<latched, loopVars, settled, hid_addr, chipVars, port>>

\* The class drivers in table order.  HIDMProbe and HIDKProbe take the device when its
\* first interface is theirs, and keep what they wrote when a later transfer fails.
Claim1(class) == hid_addr' = 1 /\ devtable' = [devtable EXCEPT ![tmp_addr] =
                   [epinfo |-> "hid", devclass |-> class]]    \* mutant: as in main.c
Claim(class) == hid_addr' = tmp_addr /\ devtable' = [devtable EXCEPT ![tmp_addr] =
                  [epinfo |-> "hid", devclass |-> class]]

Configuring ==
  /\ Case(CONFIGURING)
  /\ \/ usb_task_state' = ERROR /\ UNCHANGED tableVars
     \/ /\ Answers(tmp_addr)
        /\ Kind[port] \in {"kbd", "mouse"}
        /\ Claim(IF Kind[port] = "kbd" THEN HID_K ELSE HID_M)
        /\ usb_task_state' \in {RUNNING, ERROR}
  /\ UNCHANGED <<latched, loopVars, taskVars, chipVars, busVars>>

USB_Task == \/ Initialize \/ Rest \/ StartSettle \/ WaitSettle \/ ResetDevice
            \/ WaitReset \/ WaitSof \/ GetDescriptor \/ Addressing \/ Configuring

----------------------------------------------------------------------------
(* main.c: what the loop does with the task state *)

\* GetDriverandReport keeps the class of the last used entry (0xFF for none).
FirstClass == IF Used(devtable) = {} THEN 255    \* mutant: the scan stops early
              ELSE devtable[CHOOSE i \in Used(devtable) :
                              \A j \in Used(devtable) : i <= j].devclass
LastClass == IF Used(devtable) = {} THEN 255
             ELSE devtable[CHOOSE i \in Used(devtable) :
                             \A j \in Used(devtable) : j <= i].devclass

Report ==
  /\ pc = "main" /\ pc' = "max"
  /\ usb_task_state = RUNNING /\ ~runningdebugflag
  /\ runningdebugflag' = TRUE
  /\ led9' = TRUE
  /\ device' = LastClass
  /\ UNCHANGED <<latched, usb_task_state, errorflag, taskVars, tableVars, chipVars, busVars>>

\* kbdPoll or mousePoll, by device: a transfer that leaves this state as it is.
Poll ==
  /\ pc = "main" /\ pc' = "max"
  /\ usb_task_state = RUNNING /\ runningdebugflag
  /\ UNCHANGED <<latched, usb_task_state, loopVars, taskVars, tableVars, chipVars, busVars>>

ShowError ==
  /\ pc = "main" /\ pc' = "max"
  /\ usb_task_state = ERROR
  /\ errorflag' = TRUE
  /\ led9' = (led9 /\ errorflag)
  /\ UNCHANGED <<latched, usb_task_state, runningdebugflag, device, taskVars, tableVars,
                 chipVars, busVars>>

\* Not running and no error: after a device was lost, start over from the chip.
NotRunning ==
  /\ pc = "main"
  /\ usb_task_state \notin {RUNNING, ERROR}
  /\ runningdebugflag' = FALSE
  /\ IF runningdebugflag
       THEN pc' = "reset" /\ UNCHANGED <<errorflag, led9>>
       ELSE pc' = "max" /\ errorflag' = FALSE /\ ClearLED9
  /\ UNCHANGED <<latched, usb_task_state, device, taskVars, tableVars, chipVars, busVars>>

Main == Report \/ Poll \/ ShowError \/ NotRunning

Program == \/ ResetChip \/ InitProbe \/ InitAck
           \/ MAX3421E_Task \/ Probe \/ Ack
           \/ USB_Task \/ Main

----------------------------------------------------------------------------
(* The world: the user, the bus, the chip and the clock *)

Raise(irq) == hirq' = hirq \cup {irq}
ProgramUnchanged == UNCHANGED <<pc, latched, usb_task_state, loopVars, tmp_addr, tableVars>>

Plug(d) ==
  /\ port = NoDevice
  /\ port' = d
  /\ dev_addr' = 0
  /\ Raise("CONDET")
  /\ ProgramUnchanged /\ UNCHANGED <<settled, lowspeed, sofka, busrst>>

Unplug ==
  /\ port # NoDevice
  /\ port' = NoDevice
  /\ dev_addr' = 0
  /\ Raise("CONDET")
  /\ ProgramUnchanged /\ UNCHANGED <<settled, lowspeed, sofka, busrst>>

\* The bus reset of 50 ms ends: the device is back at address 0.
ResetDone ==
  /\ busrst
  /\ busrst' = FALSE
  /\ dev_addr' = 0
  /\ \E irq \in SUBSET (IF "end" \in ResetCondet THEN {"CONDET"} ELSE {}) :
        hirq' = hirq \cup {"BUSEVENT"} \cup irq
  /\ ProgramUnchanged /\ UNCHANGED <<settled, lowspeed, sofka, port>>

\* A start of frame goes out every millisecond while SOFs are generated.
StartOfFrame ==
  /\ sofka /\ ~busrst
  /\ "FRAME" \notin hirq
  /\ Raise("FRAME")
  /\ ProgramUnchanged /\ UNCHANGED <<settled, lowspeed, sofka, busrst, busVars>>

SettleExpires ==
  /\ ~settled
  /\ settled' = TRUE
  /\ ProgramUnchanged /\ UNCHANGED <<chipVars, busVars>>

User == Unplug \/ \E d \in Devices \cup {BadLine} : Plug(d)
Hardware == ResetDone \/ StartOfFrame \/ SettleExpires

----------------------------------------------------------------------------
(* The specification *)

Init ==
  /\ pc = "reset"
  /\ latched = {}
  /\ usb_task_state = INITIALIZE
  /\ settled = TRUE
  /\ devtable = [i \in Addresses |-> Unused]
  /\ tmp_addr = 0
  /\ hid_addr = 0
  /\ runningdebugflag = FALSE /\ errorflag = FALSE /\ led9 = FALSE
  /\ device = 255
  /\ hirq = {} /\ lowspeed = FALSE /\ sofka = FALSE /\ busrst = FALSE
  /\ port \in Devices \cup {NoDevice, BadLine}
  /\ dev_addr = 0

Next == Program \/ User \/ Hardware

\* The loop never blocks, and the chip and the clock do what they were asked.
Fairness == /\ WF_vars(Program)
            /\ WF_vars(ResetDone) /\ WF_vars(StartOfFrame) /\ WF_vars(SettleExpires)

Spec == Init /\ [][Next]_vars /\ Fairness

----------------------------------------------------------------------------
(* Properties that hold *)

PCs == {"reset", "initprobe", "initack", "max", "probe", "ack", "task", "main"}
TaskStates == Handled \cup {2, ILLEGAL, 5, RUNNING, ERROR}
Interrupts == {"CONDET", "BUSEVENT", "FRAME"}
Entries == [epinfo : {"none", "dev0", "hid"}, devclass : {0, HID_K, HID_M}]

ControlTypes ==
  /\ pc \in PCs
  /\ usb_task_state \in TaskStates
  /\ latched \subseteq Interrupts
  /\ device \in {0, HID_K, HID_M, 255}

FlagTypes ==
  /\ settled \in BOOLEAN
  /\ runningdebugflag \in BOOLEAN /\ errorflag \in BOOLEAN /\ led9 \in BOOLEAN
  /\ lowspeed \in BOOLEAN /\ sofka \in BOOLEAN /\ busrst \in BOOLEAN

TableTypes ==
  /\ devtable \in [Addresses -> Entries]
  /\ tmp_addr \in 0 .. NumDevices - 1
  /\ hid_addr \in 0 .. NumDevices - 1

BusTypes ==
  /\ hirq \subseteq Interrupts
  /\ port \in Devices \cup {NoDevice, BadLine}
  /\ dev_addr \in 0 .. NumDevices - 1

\* The type invariant.  It says of MaxIntHandler that its usb_task_state++ for a bus
\* event leads to no value but 2, 5 and those the code names.
TypeOK == ControlTypes /\ FlagTypes /\ TableTypes /\ BusTypes

\* Every endpoint record the program dereferences is there.  The descriptor request
\* uses entry 0; the class probes use tmp_addr's; GetDriverandReport uses entry 1
\* whatever address the device got; a poll needs the two-entry record of the HID driver.
EndpointsPresent ==
  /\ pc = "task" /\ usb_task_state = GET_DESCRIPTOR => devtable[0].epinfo = "dev0"
  /\ pc = "task" /\ usb_task_state = CONFIGURING => devtable[tmp_addr].epinfo # "none"
  /\ pc = "main" /\ usb_task_state = RUNNING =>
       /\ devtable[1].epinfo # "none"
       /\ devtable[hid_addr].epinfo = "hid"

\* main polls with the driver of the device that enumeration found last: its local
\* copy of the class never goes stale, although the loop sets it only once.
PollsWithItsDriver ==
  pc = "main" /\ usb_task_state = RUNNING /\ runningdebugflag =>
    device = devtable[hid_addr].devclass /\ device \in {HID_K, HID_M}

\* While the host says RUNNING, the device in the port answers at the polled address
\* and is of the class that is polled, unless a connection change waits to be read.
RunningMeansReachable ==
  usb_task_state = RUNNING =>
    \/ "CONDET" \in hirq
    \/ /\ Answers(hid_addr)
       /\ Kind[port] = (IF devtable[hid_addr].devclass = HID_K THEN "kbd" ELSE "mouse")

\* No transfer is started before frames are generated or during a bus reset, also
\* when a bus event has carried the task past WAIT_RESET, which turns them on.
FramesBeforeTraffic ==
  usb_task_state \in {WAIT_SOF, GET_DESCRIPTOR, ADDRESSING, CONFIGURING, RUNNING} =>
    sofka /\ ~busrst

\* At the top of the loop LED 9 is lit exactly while a device is being served.
LedShowsRunning == pc = "max" => (led9 <=> usb_task_state = RUNNING)

\* Where the loop shows a report, both its numbers can be read from the displays, whatever
\* was shown before (printSignedHex0 and printSignedHex1 of main.c).
ReportReadable == pc = "main" /\ usb_task_state = RUNNING => NumbersReadBack

\* A connection change is always noticed: polling of the old device stops.
LostDeviceNoticed ==
  usb_task_state = RUNNING /\ "CONDET" \in hirq ~> usb_task_state # RUNNING

\* When the user leaves the port alone the enumeration ends, in one way or another,
\* provided that a bus reset raises CONDETIRQ no later than at its start.
AtRest == usb_task_state \in TaskStates \ (Handled \ {WAIT_FOR_DEVICE})
EnumerationEnds == <>[][~User]_vars => []<>AtRest

----------------------------------------------------------------------------
(* The promise to the reader of the keyboard *)

phase == CASE usb_task_state = RUNNING -> "serving"
           [] usb_task_state = ERROR -> "failed"
           [] Detached(usb_task_state) -> "idle"
           [] OTHER -> "enumerating"

inPort == IF port \in Devices THEN Kind[port] ELSE "empty"
changed == "CONDET" \in hirq
served == IF usb_task_state # RUNNING THEN "none"
          ELSE IF devtable[hid_addr].devclass = HID_K THEN "kbd" ELSE "mouse"

Service == INSTANCE PortService WITH
  Classes <- {"kbd", "mouse"}, Others <- {"other", "empty"}, None <- "none"

\* The host implements PortService.
ServiceSpec == Service!Spec

----------------------------------------------------------------------------
(* A statement of the code's comments that the code does not keep *)

\* "clear serviced IRQs": an empty port that nothing announces has been noticed.
OnlyServicedCleared ==
  pc = "max" /\ port = NoDevice /\ "CONDET" \notin hirq => Detached(usb_task_state)
=============================================================================
