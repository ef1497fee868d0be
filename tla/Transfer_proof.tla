--------------------------- MODULE Transfer_proof ---------------------------
(***************************************************************************)
(* Proofs about the transfer layer, for any limits, packet sizes and       *)
(* numbers of packets and reports: a descriptor is read exactly, the       *)
(* registers never go back to an older report, each step of a transfer     *)
(* brings its end nearer, and, where a report ends its transfer, the       *)
(* reports pass as ReportChannel promises.  The heart of the invariant is  *)
(* the agreement of the two toggles: whichever packet is under way, the    *)
(* device is at the next one if the toggles agree, and still at the last   *)
(* one if they do not.                                                     *)
(***************************************************************************)
EXTENDS Transfer, TLAPS

OnTheBus == {"launch", "wait", "clear", "result"}
Reading == {"avail", "read", "free", "save"}
Showing == {"show1", "show2"}

Results == {"OK", "NAK", "TIMEOUT", "TOGERR", "ERR"}

HostTypes ==
  /\ pc \in {"start"} \union OnTheBus \union Reading \union Showing
  /\ job \in {"descr", "conf", "proto", "poll", "error"}
  /\ token \in {"SETUP", "IN", "OUTHS", "INHS"}
  /\ nak_count \in Nat /\ retry_count \in Nat
  /\ data \in Seq(Nat)
  /\ rcvToggle \in [{0, 1} -> Toggle]
  /\ keycode \in Nat /\ keycode2 \in Nat /\ taken \in Nat
ChipTypes ==
  /\ inflight \in {"none", "IN1", "SETUP", "IN", "OUTHS", "INHS"}
  /\ hxfrdn \in BOOLEAN /\ late \in BOOLEAN /\ stale \in BOOLEAN
  /\ hrslt \in Results /\ rcvtog \in Toggle
  /\ fifo \in Seq(Nat) /\ Len(fifo) <= 2
DeviceTypes ==
  /\ produced \in Nat /\ head \in Nat /\ cpos \in Nat
  /\ dtog \in Toggle /\ ctog \in Toggle

\* Which packets each job sends, and where a packet is in hand.
Control ==
  /\ pc # "start" => \/ job = "poll" /\ token = "IN"
                     \/ job = "descr" /\ token \in {"SETUP", "IN", "OUTHS"}
                     \/ job \in {"conf", "proto"} /\ token \in {"SETUP", "INHS"}
  /\ job = "poll" => token \in {"IN", "INHS"}
  /\ pc \in Reading => token = "IN"
  /\ pc \in Showing => job = "poll"
  /\ pc \in {"read", "free"} => fifo # <<>>
  /\ pc \in {"free", "save"} \union Showing => data # <<>>

\* The packet that was launched has been answered.
Answered == pc \in {"clear", "result"} \/ (pc = "wait" /\ hxfrdn)

\* Only requests leave stale answers behind, and the answer that is awaited is the one to
\* the token in hand as long as there are none.
Own ==
  /\ stale => late
  /\ inflight = "IN1" => job = "poll" /\ token = "IN"
  /\ ~stale /\ inflight # "none" => inflight = IF job = "poll" THEN "IN1" ELSE token

\* As long as no answer can be late, the chip works only while the host waits for it,
\* and keeps a packet only until the host has fetched it.
Calm == ~stale /\ (job # "poll" \/ ~late)
Discipline ==
  Calm => /\ inflight # "none" <=> (pc = "wait" /\ ~hxfrdn)
          /\ hxfrdn => pc \in {"wait", "clear"}
          /\ fifo # <<>> => /\ Len(fifo) = 1 /\ token = "IN"
                            /\ \/ Answered /\ hrslt = "OK"
                               \/ pc \in {"avail", "read", "free"}

\* The data stage: the packets 1 to Received have come, in order.
Received == Len(data) + (IF pc = "free" THEN 0 ELSE Len(fifo))
Numbered == \A i \in 1 .. Len(data) : data[i] = i
DataStage ==
  ~stale =>
    /\ job = "descr" /\ token = "IN" /\ pc # "start" =>
         /\ Numbered
         /\ fifo # <<>> => fifo[1] = Received
         /\ cpos = IF ctog = rcvtog THEN Received + 1 ELSE Received
         /\ pc = "save" => Len(data) = DescPackets
    /\ token = "OUTHS" => Numbered /\ Len(data) = DescPackets
    /\ token = "SETUP" /\ Answered /\ hrslt = "OK" => cpos = 1 /\ ctog = 1

\* Both sides start polling with DATA0, and the device with a report nobody has seen.
Configured ==
  ~stale =>
    /\ job \in {"conf", "proto"} => rcvToggle[1] = 0
    /\ job = "proto" => dtog = 0
    /\ job = "conf" /\ token = "INHS" /\ Answered /\ hrslt = "OK" => dtog = 0
    /\ job # "poll" => head = taken + 1

\* What the host or the chip holds is not older than what was taken, and in order.
Forward ==
  ~stale =>
    /\ taken <= produced /\ taken <= head /\ head <= produced + 1
    /\ job = "poll" =>
         /\ \A i \in 1 .. Len(fifo) : taken <= fifo[i] /\ fifo[i] <= head /\ fifo[i] <= produced
         /\ Len(fifo) = 2 => fifo[1] <= fifo[2]
         /\ pc \in OnTheBus \union Reading \union {"show1"} /\ data # <<>> =>
              /\ taken <= data[1] /\ data[1] <= head /\ data[1] <= produced
              /\ \A i \in 1 .. Len(fifo) : data[1] <= fifo[i]

\* A report ends its transfer, as the eight bytes of a keyboard do.
OneReport == ReportLen < MaxPktSize \/ ReportLen >= RequestLen

\* The toggle the next report is expected with, and the last report that has come.
Expected == IF pc \in OnTheBus \union Reading THEN rcvtog ELSE rcvToggle[1]
InHand == fifo # <<>> \/ pc \in {"free", "save", "show1"}
Last == IF InHand THEN taken + 1 ELSE taken
InStep ==
  OneReport /\ ~late /\ job = "poll" =>
    /\ head = IF dtog = Expected THEN Last + 1 ELSE Last
    /\ InHand => taken < produced
    /\ fifo # <<>> => fifo[1] = taken + 1
    /\ pc \in OnTheBus \union {"avail", "read"} => data = <<>>
    /\ pc \in OnTheBus \union {"avail"} /\ fifo = <<>> => rcvtog = rcvToggle[1]
    /\ pc \in {"free", "save", "show1"} => Len(data) = 1 /\ data[1] = taken + 1

\* Between two reports the registers show the same one.
Registers ==
  /\ pc = "show2" => keycode = data[1]
  /\ pc # "show2" => keycode2 = keycode

IInv == /\ HostTypes /\ ChipTypes /\ DeviceTypes
        /\ Control /\ Own /\ Discipline /\ DataStage /\ Configured
        /\ Forward /\ InStep /\ Registers
----------------------------------------------------------------------------
(* A register access or a packet at a time *)

\* The chip's two receive buffers hold at most two packets.
LEMMA FifoLen == ASSUME ChipTypes PROVE Len(fifo) \in 0 .. 2 /\ (fifo # <<>> => Len(fifo) > 0)
  <1>1. Len(fifo) \in Nat /\ Len(fifo) <= 2 /\ (fifo # <<>> => Len(fifo) # 0)
    BY DEF ChipTypes
  <1>2. \A n \in Nat : n <= 2 => n \in 0 .. 2 /\ (n # 0 => n > 0)  OBVIOUS
  <1> QED  BY <1>1, <1>2, Zenon

\* A transfer that ends leaves the chip's registers well formed.
LEMMA DoneTypes ==
  ASSUME ChipTypes, NEW res \in Results, Done(res), rcvtog' \in Toggle,
         fifo' \in Seq(Nat), Len(fifo') <= 2
  PROVE ChipTypes'
  <1>1. inflight' = "none"  BY DEF Done
  <1>2. hxfrdn' \in BOOLEAN  BY DEF Done
  <1>3. late' \in BOOLEAN /\ stale' \in BOOLEAN  BY DEF Done, ChipTypes
  <1>4. hrslt' \in Results  BY DEF Done
  <1> QED  BY <1>1, <1>2, <1>3, <1>4 DEF ChipTypes

\* A control request begins.
LEMMA XferCtrlReqStep ==
  ASSUME IInv, XferCtrlReq
  PROVE  IInv'
  <1> USE DEF IInv, XferCtrlReq, XferDispatchPkt, hostVars, pioVars, chipVars,
             deviceVars, OnTheBus, Reading, Showing
  <1>1. HostTypes'  BY DEF HostTypes, Toggle
  <1>2. ChipTypes'  BY DEF ChipTypes, Toggle, Results
  <1>3. DeviceTypes'  BY DEF DeviceTypes, Toggle
  <1>4. Control'  BY DEF Control
  <1>5. Discipline'  BY DEF Discipline, Calm, Answered
  <1>6. DataStage'  BY DEF DataStage, Received, Numbered, Answered
  <1>7. Configured'  BY DEF Configured, Answered
  <1>8. Forward'  BY DEF Forward
  <1>9. InStep'  BY DEF InStep, Expected, InHand, Last
  <1>10. Registers'  BY DEF Registers
  <1>11. Own'  BY DEF Own, Control, Discipline, Calm, Answered, HostTypes
  <1> QED  BY <1>1, <1>2, <1>3, <1>4, <1>5, <1>6, <1>7, <1>8, <1>9, <1>10, <1>11

\* A poll begins with the toggle saved for the endpoint.
LEMMA PollStep ==
  ASSUME IInv, Poll
  PROVE  IInv'
  <1> USE DEF IInv, Poll, XferInTransfer, XferDispatchPkt, hostVars, pioVars, chipVars,
             deviceVars, OnTheBus, Reading, Showing
  <1>1. HostTypes'  BY DEF HostTypes, Toggle
  <1>2. ChipTypes'  BY DEF ChipTypes, Toggle, Results, HostTypes
  <1>3. DeviceTypes'  BY DEF DeviceTypes, Toggle
  <1>4. Control'  BY DEF Control
  <1>5. Discipline'  BY DEF Discipline, Calm, Answered
  <1>6. DataStage'  BY DEF DataStage, Received, Numbered, Answered
  <1>7. Configured'  BY DEF Configured, Answered
  <1>8. Forward'  BY DEF Forward
  <1>9. InStep'  BY DEF InStep, Expected, InHand, Last
  <1>10. Registers'  BY DEF Registers
  <1>11. Own'  BY DEF Own, Control, Discipline, Calm, Answered, HostTypes
  <1> QED  BY <1>1, <1>2, <1>3, <1>4, <1>5, <1>6, <1>7, <1>8, <1>9, <1>10, <1>11

\* HXFR is written.
LEMMA LaunchStep ==
  ASSUME IInv, Launch
  PROVE  IInv'
  <1> USE DEF IInv, Launch, hostVars, pioVars, chipVars, deviceVars, OnTheBus, Reading,
             Showing
  <1>1. HostTypes'  BY DEF HostTypes, Toggle
  <1>2. ChipTypes'  BY DEF ChipTypes, Toggle, Results, HostTypes
  <1>3. DeviceTypes'  BY DEF DeviceTypes, Toggle
  <1>4. Control'  BY DEF Control
  <1>5. Discipline'  BY DEF Discipline, Calm, Answered, HostTypes
  <1>6. DataStage'  BY DEF DataStage, Received, Numbered, Answered, Control, Discipline,
                        Calm
  <1>7. Configured'  BY DEF Configured, Answered, HostTypes
  <1>8. Forward'  BY DEF Forward
  <1>9. InStep'  BY DEF InStep, Expected, InHand, Last
  <1>10. Registers'  BY DEF Registers
  <1>11. Own'  BY DEF Own, Control, Discipline, Calm, Answered, HostTypes
  <1> QED  BY <1>1, <1>2, <1>3, <1>4, <1>5, <1>6, <1>7, <1>8, <1>9, <1>10, <1>11

\* HXFRDNIRQ is seen.
LEMMA SeeDoneStep ==
  ASSUME IInv, SeeDone
  PROVE  IInv'
  <1> USE DEF IInv, SeeDone, hostVars, pioVars, chipVars, deviceVars, OnTheBus, Reading,
             Showing
  <1>1. HostTypes'  BY DEF HostTypes, Toggle
  <1>2. ChipTypes'  BY DEF ChipTypes, Toggle, Results
  <1>3. DeviceTypes'  BY DEF DeviceTypes, Toggle
  <1>4. Control'  BY DEF Control
  <1>5. Discipline'  BY DEF Discipline, Calm, Answered
  <1>6. DataStage'  BY DEF DataStage, Received, Numbered, Answered
  <1>7. Configured'  BY DEF Configured, Answered
  <1>8. Forward'  BY DEF Forward
  <1>9. InStep'  BY DEF InStep, Expected, InHand, Last
  <1>10. Registers'  BY DEF Registers
  <1>11. Own'  BY DEF Own, Control, Discipline, Calm, Answered, HostTypes
  <1> QED  BY <1>1, <1>2, <1>3, <1>4, <1>5, <1>6, <1>7, <1>8, <1>9, <1>10, <1>11

\* HXFRDNIRQ is cleared.
LEMMA ClearDoneStep ==
  ASSUME IInv, ClearDone
  PROVE  IInv'
  <1>1. ChipTypes'
    <2>1. hxfrdn' \in BOOLEAN  BY DEF ClearDone
    <2>2. UNCHANGED <<inflight, hrslt, rcvtog, fifo, late, stale>>  BY DEF ClearDone
    <2> QED  BY <2>1, <2>2 DEF ChipTypes, IInv
  <1> USE DEF IInv, ClearDone, hostVars, pioVars, chipVars, deviceVars, OnTheBus,
             Reading, Showing
  <1>2. HostTypes'  BY DEF HostTypes, Toggle
  <1>3. DeviceTypes'  BY DEF DeviceTypes, Toggle
  <1>4. Control'  BY DEF Control
  <1>5. Discipline'  BY DEF Discipline, Calm, Answered
  <1>6. DataStage'  BY DEF DataStage, Received, Numbered, Answered
  <1>7. Configured'  BY DEF Configured, Answered
  <1>8. Forward'  BY DEF Forward
  <1>9. InStep'  BY DEF InStep, Expected, InHand, Last
  <1>10. Registers'  BY DEF Registers
  <1>11. Own'  BY DEF Own, Control, Discipline, Calm, Answered, HostTypes
  <1> QED  BY <1>1, <1>2, <1>3, <1>4, <1>5, <1>6, <1>7, <1>8, <1>9, <1>10, <1>11

\* XferDispatchPkt's time-out.
LEMMA GiveUpStep ==
  ASSUME IInv, GiveUp
  PROVE  IInv'
  <1> USE DEF IInv, GiveUp, Fail, Return, hostVars, pioVars, chipVars, deviceVars,
             OnTheBus, Reading, Showing
  <1>1. HostTypes'  BY DEF HostTypes, Toggle
  <1>2. ChipTypes'  BY DEF ChipTypes, Toggle, Results
  <1>3. DeviceTypes'  BY DEF DeviceTypes, Toggle
  <1>4. Control'  BY DEF Control
  <1>5. Discipline'  BY DEF Discipline, Calm, Answered, HostTypes
  <1>6. DataStage'  BY DEF DataStage, Received, Numbered, Answered
  <1>7. Configured'  BY DEF Configured, Answered
  <1>8. Forward'  BY DEF Forward
  <1>9. InStep'  BY DEF InStep, Expected, InHand, Last
  <1>10. Registers'  BY DEF Registers
  <1>11. Own'  BY DEF Own, Control, Discipline, Calm, Answered, HostTypes
  <1> QED  BY <1>1, <1>2, <1>3, <1>4, <1>5, <1>6, <1>7, <1>8, <1>9, <1>10, <1>11

\* XferDispatchPkt returns an error.
LEMMA ReturnStep ==
  ASSUME IInv, pc = "result",
         hrslt # "OK",
         Return,
         nak_count' \in Nat,
         retry_count' \in Nat,
         UNCHANGED <<pioVars, inflight, hxfrdn, hrslt, fifo, deviceVars, late, stale>>
  PROVE  IInv'
  <1> USE DEF IInv, Return, hostVars, pioVars, chipVars, deviceVars, OnTheBus, Reading,
             Showing
  <1>1. HostTypes'  BY DEF HostTypes, Toggle
  <1>2. ChipTypes'  BY DEF ChipTypes, Toggle, Results
  <1>3. DeviceTypes'  BY DEF DeviceTypes, Toggle
  <1>4. Control'  BY DEF Control
  <1>5. Discipline'  BY DEF Discipline, Calm, Answered
  <1>6. DataStage'  BY DEF DataStage, Received, Numbered, Answered
  <1>7. Configured'  BY DEF Configured, Answered
  <1>8. Forward'  BY DEF Forward
  <1>9. InStep'  BY DEF InStep, Expected, InHand, Last, Own, Discipline, Calm, Answered
  <1>10. Registers'  BY DEF Registers
  <1>11. Own'  BY DEF Own, Control, Discipline, Calm, Answered, HostTypes
  <1> QED  BY <1>1, <1>2, <1>3, <1>4, <1>5, <1>6, <1>7, <1>8, <1>9, <1>10, <1>11

\* A packet refused or lost is launched again.
LEMMA TryAgainStep ==
  ASSUME IInv, pc = "result",
         hrslt # "OK",
         pc' = "launch",
         nak_count' \in Nat,
         retry_count' \in Nat,
         UNCHANGED <<job, token, data, rcvToggle, rcvtog>>,
         UNCHANGED <<pioVars, inflight, hxfrdn, hrslt, fifo, deviceVars, late, stale>>
  PROVE  IInv'
  <1> USE DEF IInv, hostVars, pioVars, chipVars, deviceVars, OnTheBus, Reading, Showing
  <1>1. HostTypes'  BY DEF HostTypes, Toggle
  <1>2. ChipTypes'  BY DEF ChipTypes, Toggle, Results
  <1>3. DeviceTypes'  BY DEF DeviceTypes, Toggle
  <1>4. Control'  BY DEF Control
  <1>5. Discipline'  BY DEF Discipline, Calm, Answered
  <1>6. DataStage'  BY DEF DataStage, Received, Numbered, Answered
  <1>7. Configured'  BY DEF Configured, Answered
  <1>8. Forward'  BY DEF Forward
  <1>9. InStep'  BY DEF InStep, Expected, InHand, Last
  <1>10. Registers'  BY DEF Registers
  <1>11. Own'  BY DEF Own, Control, Discipline, Calm, Answered, HostTypes
  <1> QED  BY <1>1, <1>2, <1>3, <1>4, <1>5, <1>6, <1>7, <1>8, <1>9, <1>10, <1>11

\* From the set-up stage of a descriptor request to its data stage.
LEMMA DataStageBeginsStep ==
  ASSUME IInv, pc = "result",
         hrslt = "OK",
         token = "SETUP",
         job = "descr",
         rcvToggle' = [rcvToggle EXCEPT ![0] = 1],
         XferInTransfer(1),
         UNCHANGED job,
         UNCHANGED <<pioVars, inflight, hxfrdn, hrslt, fifo, deviceVars, late, stale>>
  PROVE  IInv'
  <1> USE DEF IInv, XferInTransfer, XferDispatchPkt, hostVars, pioVars, chipVars,
             deviceVars, OnTheBus, Reading, Showing
  <1>1. HostTypes'  BY DEF HostTypes, Toggle
  <1>2. ChipTypes'  BY DEF ChipTypes, Toggle, Results
  <1>3. DeviceTypes'  BY DEF DeviceTypes, Toggle
  <1>4. Control'  BY DEF Control
  <1>5. Discipline'  BY DEF Discipline, Calm, Answered
  <1>6. DataStage'  BY DEF DataStage, Received, Numbered, Answered, Discipline, Calm
  <1>7. Configured'  BY DEF Configured, Answered
  <1>8. Forward'  BY DEF Forward
  <1>9. InStep'  BY DEF InStep, Expected, InHand, Last
  <1>10. Registers'  BY DEF Registers
  <1>11. Own'  BY DEF Own, Control, Discipline, Calm, Answered, HostTypes
  <1> QED  BY <1>1, <1>2, <1>3, <1>4, <1>5, <1>6, <1>7, <1>8, <1>9, <1>10, <1>11

\* From the set-up stage of a request without data to its status stage.
LEMMA StatusStageBeginsStep ==
  ASSUME IInv, pc = "result",
         hrslt = "OK",
         token = "SETUP",
         job \in {"conf", "proto"},
         XferDispatchPkt("INHS"),
         UNCHANGED <<job, data, rcvToggle, rcvtog>>,
         UNCHANGED <<pioVars, inflight, hxfrdn, hrslt, fifo, deviceVars, late, stale>>
  PROVE  IInv'
  <1> USE DEF IInv, XferDispatchPkt, hostVars, pioVars, chipVars, deviceVars, OnTheBus,
             Reading, Showing
  <1>1. HostTypes'  BY DEF HostTypes, Toggle
  <1>2. ChipTypes'  BY DEF ChipTypes, Toggle, Results
  <1>3. DeviceTypes'  BY DEF DeviceTypes, Toggle
  <1>4. Control'  BY DEF Control
  <1>5. Discipline'  BY DEF Discipline, Calm, Answered
  <1>6. DataStage'  BY DEF DataStage, Received, Numbered, Answered
  <1>7. Configured'  BY DEF Configured, Answered
  <1>8. Forward'  BY DEF Forward
  <1>9. InStep'  BY DEF InStep, Expected, InHand, Last
  <1>10. Registers'  BY DEF Registers
  <1>11. Own'  BY DEF Own, Control, Discipline, Calm, Answered, HostTypes
  <1> QED  BY <1>1, <1>2, <1>3, <1>4, <1>5, <1>6, <1>7, <1>8, <1>9, <1>10, <1>11

\* The chip reports that a packet came, or that it dropped one.
LEMMA PacketEndsStep ==
  ASSUME IInv, pc = "result",
         hrslt = "OK",
         token = "IN",
         pc' = "avail",
         UNCHANGED <<job, token, nak_count, retry_count, data, rcvToggle, rcvtog>>,
         UNCHANGED <<pioVars, inflight, hxfrdn, hrslt, fifo, deviceVars, late, stale>>
  PROVE  IInv'
  <1> USE DEF IInv, hostVars, pioVars, chipVars, deviceVars, OnTheBus, Reading, Showing
  <1>1. HostTypes'  BY DEF HostTypes, Toggle
  <1>2. ChipTypes'  BY DEF ChipTypes, Toggle, Results
  <1>3. DeviceTypes'  BY DEF DeviceTypes, Toggle
  <1>4. Control'  BY DEF Control
  <1>5. Discipline'  BY DEF Discipline, Calm, Answered
  <1>6. DataStage'  BY DEF DataStage, Received, Numbered, Answered
  <1>7. Configured'  BY DEF Configured, Answered
  <1>8. Forward'  BY DEF Forward
  <1>9. InStep'  BY DEF InStep, Expected, InHand, Last
  <1>10. Registers'  BY DEF Registers
  <1>11. Own'  BY DEF Own, Control, Discipline, Calm, Answered, HostTypes
  <1> QED  BY <1>1, <1>2, <1>3, <1>4, <1>5, <1>6, <1>7, <1>8, <1>9, <1>10, <1>11

\* The descriptor is read, and the class driver forgets the old toggle.
LEMMA DescriptorEndsStep ==
  ASSUME IInv, pc = "result",
         hrslt = "OK",
         token = "OUTHS",
         pc' = "start" /\ job' = "conf",
         HID_init,
         UNCHANGED <<token, nak_count, retry_count, data, rcvtog>>,
         UNCHANGED <<pioVars, inflight, hxfrdn, hrslt, fifo, deviceVars, late, stale>>
  PROVE  IInv'
  <1> USE DEF IInv, HID_init, hostVars, pioVars, chipVars, deviceVars, OnTheBus,
             Reading, Showing
  <1>1. HostTypes'  BY DEF HostTypes, Toggle
  <1>2. ChipTypes'  BY DEF ChipTypes, Toggle, Results
  <1>3. DeviceTypes'  BY DEF DeviceTypes, Toggle
  <1>4. Control'  BY DEF Control
  <1>5. Discipline'  BY DEF Discipline, Calm, Answered, Control
  <1>6. DataStage'  BY DEF DataStage, Received, Numbered, Answered
  <1>7. Configured'  BY DEF Configured, Answered, Control, HostTypes
  <1>8. Forward'  BY DEF Forward
  <1>9. InStep'  BY DEF InStep, Expected, InHand, Last
  <1>10. Registers'  BY DEF Registers
  <1>11. Own'  BY DEF Own, Control, Discipline, Calm, Answered, HostTypes
  <1> QED  BY <1>1, <1>2, <1>3, <1>4, <1>5, <1>6, <1>7, <1>8, <1>9, <1>10, <1>11

\* A request without data ends, the last one with the first poll to follow.
LEMMA RequestEndsStep ==
  ASSUME IInv, pc = "result",
         hrslt = "OK",
         token = "INHS",
         pc' = "start" /\ job' = (IF job = "conf" THEN "proto" ELSE "poll"),
         UNCHANGED <<token, nak_count, retry_count, data, rcvToggle, rcvtog>>,
         UNCHANGED <<pioVars, inflight, hxfrdn, hrslt, fifo, deviceVars, late, stale>>
  PROVE  IInv'
  <1> USE DEF IInv, hostVars, pioVars, chipVars, deviceVars, OnTheBus, Reading, Showing
  <1>1. HostTypes'  BY DEF HostTypes, Toggle
  <1>2. ChipTypes'  BY DEF ChipTypes, Toggle, Results
  <1>3. DeviceTypes'  BY DEF DeviceTypes, Toggle
  <1>4. Control'  BY DEF Control
  <1>5. Discipline'  BY DEF Discipline, Calm, Answered
  <1>6. DataStage'  BY DEF DataStage, Received, Numbered, Answered
  <1>7. Configured'  BY DEF Configured, Answered
  <1>8. Forward'  BY DEF Forward, Discipline, Calm, Answered
  <1>9. InStep'  BY DEF InStep, Expected, InHand, Last, Own, Control, Configured, HostTypes,
                        ChipTypes, DeviceTypes, Discipline, Calm, Answered, Toggle
  <1>10. Registers'  BY DEF Registers
  <1>11. Own'  BY DEF Own, Control, Discipline, Calm, Answered, HostTypes
  <1> QED  BY <1>1, <1>2, <1>3, <1>4, <1>5, <1>6, <1>7, <1>8, <1>9, <1>10, <1>11

\* HRSL is read: what XferDispatchPkt does with each result.
LEMMA ResultStep ==
  ASSUME IInv, Result
  PROVE  IInv'
  <1>0. /\ pc = "result"
        /\ UNCHANGED <<pioVars, inflight, hxfrdn, hrslt, fifo, deviceVars, late, stale>>
        /\ nak_count \in Nat /\ retry_count \in Nat /\ hrslt \in Results
    BY DEF Result, IInv, HostTypes, ChipTypes
  <1>1. CASE hrslt = "NAK" \/ hrslt = "TIMEOUT"
    <2>1. nak_count' \in Nat /\ retry_count' \in Nat
      BY <1>0, <1>1 DEF Result
    <2>2. \/ Return
          \/ pc' = "launch" /\ UNCHANGED <<job, token, data, rcvToggle, rcvtog>>
      BY <1>0, <1>1 DEF Result, Retry
    <2> QED  BY <1>0, <1>1, <2>1, <2>2, ReturnStep, TryAgainStep
  <1>2. CASE hrslt = "OK"
    <2>1. Succeed  BY <1>0, <1>2 DEF Result
    <2>2. CASE token = "SETUP" /\ job = "descr"
      BY <1>0, <1>2, <2>1, <2>2, DataStageBeginsStep DEF Succeed
    <2>3. CASE token = "SETUP" /\ job \in {"conf", "proto"}
      BY <1>0, <1>2, <2>1, <2>3, StatusStageBeginsStep DEF Succeed
    <2>4. CASE token = "IN"
      BY <1>0, <1>2, <2>1, <2>4, PacketEndsStep DEF Succeed
    <2>5. CASE token = "OUTHS"
      BY <1>0, <1>2, <2>1, <2>5, DescriptorEndsStep DEF Succeed
    <2>6. CASE token = "INHS"
      BY <1>0, <1>2, <2>1, <2>6, RequestEndsStep DEF Succeed
    <2> QED  BY <2>1, <2>2, <2>3, <2>4, <2>5, <2>6 DEF Succeed
  <1>3. CASE hrslt \in {"TOGERR", "ERR"}
    <2>1. Return /\ nak_count' \in Nat /\ retry_count' \in Nat
      BY <1>0, <1>3 DEF Result, Fail
    <2> QED  BY <1>0, <1>3, <2>1, ReturnStep
  <1> QED  BY <1>0, <1>1, <1>2, <1>3 DEF Results

\* RCVDAVIRQ is looked for.
LEMMA AvailableStep ==
  ASSUME IInv, Available
  PROVE  IInv'
  <1> USE DEF IInv, Available, Fail, Return, hostVars, pioVars, chipVars, deviceVars,
             OnTheBus, Reading, Showing
  <1>1. HostTypes'  BY DEF HostTypes, Toggle
  <1>2. ChipTypes'  BY DEF ChipTypes, Toggle, Results
  <1>3. DeviceTypes'  BY DEF DeviceTypes, Toggle
  <1>4. Control'  BY DEF Control
  <1>5. Discipline'  BY DEF Discipline, Calm, Answered
  <1>6. DataStage'  BY DEF DataStage, Received, Numbered, Answered
  <1>7. Configured'  BY DEF Configured, Answered
  <1>8. Forward'  BY DEF Forward
  <1>9. InStep'  BY DEF InStep, Expected, InHand, Last
  <1>10. Registers'  BY DEF Registers
  <1>11. Own'  BY DEF Own, Control, Discipline, Calm, Answered, HostTypes
  <1> QED  BY <1>1, <1>2, <1>3, <1>4, <1>5, <1>6, <1>7, <1>8, <1>9, <1>10, <1>11

\* RCVFIFO is read: the packet is the next one of the data stage, or the next report.
LEMMA ReadStep ==
  ASSUME IInv, Read
  PROVE  IInv'
  <1>1. HostTypes'
    <2>1. Head(fifo) \in Nat  BY DEF ChipTypes, Control, Read, IInv
    <2>2. data' \in Seq(Nat)  BY <2>1 DEF HostTypes, Read, IInv
    <2> QED  BY <2>2 DEF HostTypes, Read, Reading, pioVars, IInv
  <1>2. DataStage'
    <2> SUFFICES ASSUME ~stale PROVE DataStage'
      BY DEF DataStage, Read
    <2>1. /\ Head(fifo) = fifo[1] /\ fifo # <<>> /\ token = "IN" /\ fifo[1] \in Nat
      BY DEF ChipTypes, Control, Read, IInv, Reading
    <2>2. CASE job # "descr"  BY <2>1, <2>2 DEF Read, DataStage, IInv, Answered
    <2>3. CASE job = "descr"
      <3>1. Len(fifo) = 1 /\ fifo[1] = Len(data) + 1 /\ Numbered
        BY <2>1, <2>3 DEF Discipline, Calm, DataStage, Received, IInv, Read, HostTypes
      <3>2. Len(data') = Len(data) + 1 /\ \A i \in 1 .. Len(data) + 1 : data'[i] = i
        BY <2>1, <3>1 DEF Read, Numbered, IInv, HostTypes
      <3>3. Numbered'  BY <3>2 DEF Numbered
      <3>4. Received' = Received
        BY <3>1, <3>2 DEF Received, Read, chipVars
      <3> QED
        BY <2>1, <2>3, <3>1, <3>2, <3>3, <3>4 DEF Read, DataStage, IInv, Answered,
           chipVars, deviceVars, Received
    <2> QED  BY <2>2, <2>3
  <1>3. Forward'
    <2>1. /\ Head(fifo) = fifo[1] /\ fifo # <<>> /\ token = "IN" /\ fifo[1] \in Nat
      BY DEF ChipTypes, Control, Read, IInv, Reading
    <2>2. data'[1] = IF data = <<>> THEN fifo[1] ELSE data[1]
      BY <2>1 DEF Read, IInv, HostTypes
    <2>3. Len(fifo) \in 1..2  BY <2>1, FifoLen DEF IInv
    <2> QED
      BY <2>1, <2>2, <2>3 DEF Forward, HostTypes, ChipTypes, DeviceTypes, IInv, Read,
         chipVars, deviceVars, pioVars, Reading, OnTheBus
  <1> USE DEF IInv, Read, hostVars, pioVars, chipVars, deviceVars, OnTheBus, Reading,
             Showing
  <1>4. ChipTypes'  BY DEF ChipTypes, Toggle, Results
  <1>5. DeviceTypes'  BY DEF DeviceTypes, Toggle
  <1>6. Control'  BY DEF Control
  <1>7. Discipline'  BY DEF Discipline, Calm, Answered
  <1>8. Configured'  BY DEF Configured, Answered
  <1>9. InStep'  BY DEF InStep, Expected, InHand, Last, Control
  <1>10. Registers'  BY DEF Registers
  <1>11. Own'  BY DEF Own, Control, Discipline, Calm, Answered, HostTypes
  <1> QED  BY <1>1, <1>2, <1>3, <1>4, <1>5, <1>6, <1>7, <1>8, <1>9, <1>10, <1>11

\* RCVDAVIRQ is cleared, and with one report in a transfer the transfer ends.
LEMMA FreeStep ==
  ASSUME IInv, Free
  PROVE  IInv'
  <1>1. ChipTypes'
    <2>1. fifo' \in Seq(Nat) /\ Len(fifo') <= 2
      BY DEF IInv, ChipTypes, Control, Free
    <2>2. UNCHANGED <<inflight, hxfrdn, hrslt, rcvtog, late, stale>>  BY DEF Free
    <2> QED  BY <2>1, <2>2 DEF ChipTypes, IInv
  <1>2. Forward'
    <2>1. fifo # <<>> /\ data # <<>>  BY DEF Control, Free, IInv
    <2>2. /\ Len(fifo') = Len(fifo) - 1
          /\ \A i \in 1 .. Len(fifo) - 1 : fifo'[i] = fifo[i + 1]
      BY <2>1 DEF Free, IInv, ChipTypes
    <2>3. Len(fifo) \in 1..2  BY <2>1, FifoLen DEF IInv
    <2> QED
      BY <2>1, <2>2, <2>3 DEF Forward, HostTypes, ChipTypes, DeviceTypes, IInv, Free,
         deviceVars, pioVars, Reading, OnTheBus, XferDispatchPkt
  <1>3. InStep'
    <2> SUFFICES ASSUME OneReport, ~late, job = "poll"
         PROVE InStep'
      BY DEF InStep, Free
    <2>1. Len(data) = 1 /\ data[1] = taken + 1
      BY DEF InStep, Free, IInv
    <2>2. Complete(data)  BY <2>1, TransferAssumption DEF Complete, OneReport, RequestLen
    <2>3. Len(fifo) = 1  BY DEF Own, Discipline, Calm, Control, IInv, Free
    <2>4. fifo' = <<>>  BY <2>3 DEF Free, IInv, ChipTypes
    <2> QED
      BY <2>1, <2>2, <2>3, <2>4 DEF InStep, Free, Expected, InHand, Last, IInv,
         OnTheBus, Reading, pioVars, deviceVars, Control
  <1> USE DEF IInv, Free, XferDispatchPkt, Complete, hostVars, pioVars, chipVars,
             deviceVars, OnTheBus, Reading, Showing
  <1>4. HostTypes'  BY DEF HostTypes, Toggle
  <1>5. DeviceTypes'  BY DEF DeviceTypes, Toggle
  <1>6. Control'  BY DEF Control
  <1>7. Discipline'  BY DEF Discipline, Calm, Answered
  <1>8. DataStage'  BY DEF DataStage, Received, Numbered, Answered, Control, Discipline,
                        Calm
  <1>9. Configured'  BY DEF Configured, Answered
  <1>10. Registers'  BY DEF Registers
  <1>11. Own'  BY DEF Own, Control, Discipline, Calm, Answered, HostTypes
  <1> QED  BY <1>1, <1>2, <1>3, <1>4, <1>5, <1>6, <1>7, <1>8, <1>9, <1>10, <1>11

\* The toggle is saved for the next transfer.
LEMMA SaveStep ==
  ASSUME IInv, Save
  PROVE  IInv'
  <1>1. HostTypes'
    <2>1. rcvtog \in Toggle  BY DEF IInv, ChipTypes
    <2>2. rcvToggle' \in [{0, 1} -> Toggle]  BY <2>1 DEF HostTypes, Save, IInv
    <2> QED
      BY <2>2 DEF HostTypes, Save, IInv, XferDispatchPkt, OnTheBus, Showing, hostVars,
         pioVars
  <1> USE DEF IInv, Save, XferDispatchPkt, hostVars, pioVars, chipVars, deviceVars,
             OnTheBus, Reading, Showing
  <1>2. ChipTypes'  BY DEF ChipTypes, Toggle, Results
  <1>3. DeviceTypes'  BY DEF DeviceTypes, Toggle
  <1>4. Control'  BY DEF Control
  <1>5. Discipline'  BY DEF Discipline, Calm, Answered
  <1>6. DataStage'  BY DEF DataStage, Received, Numbered, Answered, Control
  <1>7. Configured'  BY DEF Configured, Answered
  <1>8. Forward'  BY DEF Forward
  <1>9. InStep'  BY DEF InStep, Expected, InHand, Last, HostTypes
  <1>10. Registers'  BY DEF Registers
  <1>11. Own'  BY DEF Own, Control, Discipline, Calm, Answered, HostTypes
  <1> QED  BY <1>1, <1>2, <1>3, <1>4, <1>5, <1>6, <1>7, <1>8, <1>9, <1>10, <1>11

\* KEYCODE is written.
LEMMA Show1Step ==
  ASSUME IInv, Show1
  PROVE  IInv'
  <1>1. HostTypes'
    <2>1. Head(data) \in Nat  BY DEF HostTypes, Control, Show1, Showing, IInv
    <2> QED  BY <2>1 DEF HostTypes, Show1, Showing, hostVars, IInv
  <1>2. Forward'
    <2>1. Head(data) = data[1] /\ data # <<>>
      BY DEF HostTypes, Control, Show1, Showing, IInv
    <2>2. job = "poll"  BY DEF Control, Show1, Showing, IInv
    <2> QED
      BY <2>1, <2>2 DEF Forward, HostTypes, ChipTypes, DeviceTypes, IInv, Show1,
         chipVars, deviceVars, hostVars
  <1> USE DEF IInv, Show1, hostVars, pioVars, chipVars, deviceVars, OnTheBus, Reading,
             Showing
  <1>3. ChipTypes'  BY DEF ChipTypes, Toggle, Results
  <1>4. DeviceTypes'  BY DEF DeviceTypes, Toggle
  <1>5. Control'  BY DEF Control
  <1>6. Discipline'  BY DEF Discipline, Calm, Answered
  <1>7. DataStage'  BY DEF DataStage, Received, Numbered, Answered
  <1>8. Configured'  BY DEF Configured, Answered, Control
  <1>9. InStep'  BY DEF InStep, Expected, InHand, Last, Own, Discipline, Calm, Answered
  <1>10. Registers'  BY DEF Registers
  <1>11. Own'  BY DEF Own, Control, Discipline, Calm, Answered, HostTypes
  <1> QED  BY <1>1, <1>2, <1>3, <1>4, <1>5, <1>6, <1>7, <1>8, <1>9, <1>10, <1>11

\* KEYCODE2 is written.
LEMMA Show2Step ==
  ASSUME IInv, Show2
  PROVE  IInv'
  <1>1. HostTypes'
    <2>1. Head(data) \in Nat  BY DEF HostTypes, Control, Show2, Showing, IInv
    <2> QED  BY <2>1 DEF HostTypes, Show2, Showing, hostVars, IInv
  <1> USE DEF IInv, Show2, hostVars, pioVars, chipVars, deviceVars, OnTheBus, Reading,
             Showing
  <1>2. ChipTypes'  BY DEF ChipTypes, Toggle, Results
  <1>3. DeviceTypes'  BY DEF DeviceTypes, Toggle
  <1>4. Control'  BY DEF Control
  <1>5. Discipline'  BY DEF Discipline, Calm, Answered
  <1>6. DataStage'  BY DEF DataStage, Received, Numbered, Answered
  <1>7. Configured'  BY DEF Configured, Answered
  <1>8. Forward'  BY DEF Forward
  <1>9. InStep'  BY DEF InStep, Expected, InHand, Last
  <1>10. Registers'  BY DEF Registers
  <1>11. Own'  BY DEF Own, Control, Discipline, Calm, Answered, HostTypes
  <1> QED  BY <1>1, <1>2, <1>3, <1>4, <1>5, <1>6, <1>7, <1>8, <1>9, <1>10, <1>11

\* The device answers NAK.
LEMMA NakStep ==
  ASSUME IInv, Nak
  PROVE  IInv'
  <1>1. ChipTypes'
    BY DoneTypes DEF Nak, IInv, ChipTypes, Results
  <1> USE DEF IInv, Nak, Done, hostVars, pioVars, chipVars, deviceVars, OnTheBus,
             Reading, Showing
  <1>2. HostTypes'  BY DEF HostTypes, Toggle
  <1>3. DeviceTypes'  BY DEF DeviceTypes, Toggle
  <1>4. Control'  BY DEF Control
  <1>5. Discipline'  BY DEF Discipline, Calm, Answered
  <1>6. DataStage'  BY DEF DataStage, Received, Numbered, Answered
  <1>7. Configured'  BY DEF Configured, Answered
  <1>8. Forward'  BY DEF Forward
  <1>9. InStep'  BY DEF InStep, Expected, InHand, Last
  <1>10. Registers'  BY DEF Registers
  <1>11. Own'  BY DEF Own, Control, Discipline, Calm, Answered, HostTypes
  <1> QED  BY <1>1, <1>2, <1>3, <1>4, <1>5, <1>6, <1>7, <1>8, <1>9, <1>10, <1>11

\* A packet is lost, damaged or answered by STALL.
LEMMA LoseStep ==
  ASSUME IInv, Lose
  PROVE  IInv'
  <1>1. ChipTypes'
    BY DoneTypes DEF Lose, IInv, ChipTypes, Results
  <1> USE DEF IInv, Lose, Done, hostVars, pioVars, chipVars, deviceVars, OnTheBus,
             Reading, Showing
  <1>2. HostTypes'  BY DEF HostTypes, Toggle
  <1>3. DeviceTypes'  BY DEF DeviceTypes, Toggle
  <1>4. Control'  BY DEF Control
  <1>5. Discipline'  BY DEF Discipline, Calm, Answered
  <1>6. DataStage'  BY DEF DataStage, Received, Numbered, Answered
  <1>7. Configured'  BY DEF Configured, Answered
  <1>8. Forward'  BY DEF Forward
  <1>9. InStep'  BY DEF InStep, Expected, InHand, Last
  <1>10. Registers'  BY DEF Registers
  <1>11. Own'  BY DEF Own, Control, Discipline, Calm, Answered, HostTypes
  <1> QED  BY <1>1, <1>2, <1>3, <1>4, <1>5, <1>6, <1>7, <1>8, <1>9, <1>10, <1>11

\* The chip takes a packet whose toggle it expects; its ACK may be lost.
LEMMA TakeStep ==
  ASSUME IInv, ~stale, inflight # "none",
         job \in {"descr", "poll"},
         token = "IN",
         Len(fifo) < 2,
         NEW p \in Nat,
         job = "poll" => p = head /\ rcvtog = dtog /\ head <= produced,
         job = "descr" => p = cpos /\ rcvtog = ctog,
         fifo' = Append(fifo, p),
         rcvtog' = 1 - rcvtog,
         Done("OK"),
         job = "poll" => /\ UNCHANGED <<cpos, ctog>>
                         /\ \/ head' = head + 1 /\ dtog' = 1 - dtog
                            \/ UNCHANGED <<head, dtog>>,
         job = "descr" => /\ UNCHANGED <<head, dtog>>
                          /\ \/ cpos' = cpos + 1 /\ ctog' = 1 - ctog
                             \/ UNCHANGED <<cpos, ctog>>
  PROVE  IInv'
  <1>1. ChipTypes'
    <2>1. fifo' \in Seq(Nat) /\ Len(fifo') <= 2  BY DEF ChipTypes, IInv
    <2>2. rcvtog' \in Toggle  BY DEF ChipTypes, IInv, Toggle
    <2> QED  BY <2>1, <2>2, DoneTypes DEF IInv, Results
  <1>2. Forward'
    <2> USE DEF Done, hostVars, pioVars
    <2>1. /\ Len(fifo') = Len(fifo) + 1 /\ fifo'[Len(fifo) + 1] = p
          /\ \A i \in 1 .. Len(fifo) : fifo'[i] = fifo[i]
      BY DEF ChipTypes, IInv
    <2>2. Len(fifo) \in 0..1
      <3>1. Len(fifo) \in 0..2  BY FifoLen DEF IInv
      <3> QED  BY <3>1
    <2>3. /\ taken <= produced /\ taken <= head
          /\ head <= head' /\ head' <= head + 1 /\ head' \in Nat
          /\ job = "poll" => head <= produced
          /\ job # "poll" => head' = head
      BY DEF IInv, Forward, DeviceTypes
    <2>4. CASE job # "poll"
      BY <2>3, <2>4 DEF Forward, IInv
    <2>5. CASE job = "poll"
      <3>1. \A i \in 1 .. Len(fifo') : taken <= fifo'[i] /\ fifo'[i] <= head /\ fifo'[i] <= produced
        BY <2>1, <2>2, <2>3, <2>5 DEF Forward, IInv, HostTypes, DeviceTypes, ChipTypes
      <3>2. Len(fifo') = 2 => fifo'[1] <= fifo'[2]
        BY <2>1, <2>2, <2>3, <2>5 DEF Forward, IInv, HostTypes, DeviceTypes, ChipTypes
      <3>3. \A i \in 1 .. Len(fifo') : fifo'[i] <= head'
        BY <2>1, <2>2, <2>3, <3>1 DEF IInv, ChipTypes, DeviceTypes
      <3>4. ASSUME pc \in OnTheBus \union Reading \union {"show1"}, data # <<>>
            PROVE  /\ taken <= data[1] /\ data[1] <= head' /\ data[1] <= produced
                   /\ \A i \in 1 .. Len(fifo') : data[1] <= fifo'[i]
        <4>1. /\ taken <= data[1] /\ data[1] <= head /\ data[1] <= produced
              /\ \A i \in 1 .. Len(fifo) : data[1] <= fifo[i]
              /\ data[1] \in Nat /\ head \in Nat
          BY <2>5, <3>4 DEF Forward, IInv, HostTypes, DeviceTypes
        <4>2. data[1] <= head'
          BY <2>3, <4>1
        <4>3. \A i \in 1 .. Len(fifo') : data[1] <= fifo'[i]
          BY <2>1, <2>2, <2>5, <4>1
        <4> QED  BY <4>1, <4>2, <4>3
      <3>5. taken' = taken /\ produced' = produced /\ data' = data /\ pc' = pc /\ job' = job
        OBVIOUS
      <3>6. taken' <= produced' /\ taken' <= head' /\ head' <= produced' + 1
        BY <2>3, <2>5, <3>5 DEF IInv, DeviceTypes, HostTypes
      <3> QED  BY <3>1, <3>2, <3>3, <3>4, <3>5, <3>6 DEF Forward
    <2> QED  BY <2>4, <2>5
  <1> USE DEF IInv, Done, hostVars, pioVars, chipVars, deviceVars, OnTheBus, Reading,
             Showing
  <1>3. HostTypes'  BY DEF HostTypes, Toggle
  <1>4. DeviceTypes'  BY DEF DeviceTypes, Toggle
  <1>5. Control'  BY DEF Control
  <1>6. Discipline'  BY DEF Discipline, Calm, Answered
  <1>7. DataStage'  BY DEF DataStage, Received, Numbered, Answered, Discipline, Calm
  <1>8. Configured'  BY DEF Configured, Answered
  <1>9. InStep'  BY DEF InStep, Expected, InHand, Last, Control, HostTypes, ChipTypes,
                        DeviceTypes, Discipline, Calm, Answered, Toggle
  <1>10. Registers'  BY DEF Registers
  <1>11. Own'  BY DEF Own, Control, Discipline, Calm, Answered, HostTypes
  <1> QED  BY <1>1, <1>2, <1>3, <1>4, <1>5, <1>6, <1>7, <1>8, <1>9, <1>10, <1>11

\* The chip drops a packet it has had before: the device goes on, if it hears the ACK.
LEMMA DropStep ==
  ASSUME IInv, ~stale, inflight # "none",
         job \in {"descr", "poll"},
         token = "IN",
         NEW res \in {"TOGERR", "OK"},
         job = "poll" => rcvtog # dtog /\ head <= produced,
         job = "descr" => rcvtog # ctog,
         Done(res),
         UNCHANGED <<fifo, rcvtog>>,
         job = "poll" => /\ UNCHANGED <<cpos, ctog>>
                         /\ \/ head' = head + 1 /\ dtog' = 1 - dtog
                            \/ UNCHANGED <<head, dtog>>,
         job = "descr" => /\ UNCHANGED <<head, dtog>>
                          /\ \/ cpos' = cpos + 1 /\ ctog' = 1 - ctog
                             \/ UNCHANGED <<cpos, ctog>>
  PROVE  IInv'
  <1>1. ChipTypes'
    BY DoneTypes DEF IInv, ChipTypes, Results
  <1> USE DEF IInv, Done, hostVars, pioVars, chipVars, deviceVars, OnTheBus, Reading,
             Showing
  <1>2. HostTypes'  BY DEF HostTypes, Toggle
  <1>3. DeviceTypes'  BY DEF DeviceTypes, Toggle
  <1>4. Control'  BY DEF Control
  <1>5. Discipline'  BY DEF Discipline, Calm, Answered
  <1>6. DataStage'  BY SMTT(30) DEF DataStage, Received, Numbered, Answered, HostTypes,
                        ChipTypes, DeviceTypes, Toggle
  <1>7. Configured'  BY DEF Configured, Answered
  <1>8. Forward'  BY SMTT(30) DEF Forward, Control, Configured, HostTypes, ChipTypes,
                        DeviceTypes, Discipline, Calm, Answered, Toggle
  <1>9. InStep'  BY DEF InStep, Expected, InHand, Last, Control, HostTypes, ChipTypes,
                        DeviceTypes, Discipline, Calm, Answered, Toggle
  <1>10. Registers'  BY DEF Registers
  <1>11. Own'  BY DEF Own, Control, Discipline, Calm, Answered, HostTypes
  <1> QED  BY <1>1, <1>2, <1>3, <1>4, <1>5, <1>6, <1>7, <1>8, <1>9, <1>10, <1>11

\* A packet that comes while stale answers are about: nothing is claimed of its order.
LEMMA PacketWhenStale ==
  ASSUME IInv, stale, SendReport \/ SendDescriptor
  PROVE  IInv'
  <1>1. PICK res \in Results : Done(res)
    BY DEF SendReport, SendDescriptor, TakePacket, Results
  <1>2. /\ rcvtog' \in Toggle /\ fifo' \in Seq(Nat) /\ Len(fifo') <= 2
    <2>1. PICK p \in Nat, tog \in Toggle : TakePacket(p, tog)
      BY DEF SendReport, SendDescriptor, IInv, DeviceTypes
    <2>2. CASE tog = rcvtog
      BY <2>1, <2>2 DEF TakePacket, IInv, ChipTypes, Toggle
    <2>3. CASE tog # rcvtog
      BY <2>1, <2>3 DEF TakePacket, IInv, ChipTypes
    <2> QED  BY <2>2, <2>3
  <1>3. ChipTypes'
    BY <1>1, <1>2, DoneTypes DEF IInv
  <1>4. UNCHANGED <<pc, job, hostVars, pioVars, produced, late, stale>> /\ inflight' = "none"
    BY <1>1 DEF Done
  <1>5. HostTypes' /\ Registers'
    BY <1>4 DEF IInv, HostTypes, Registers, hostVars, pioVars
  <1>6. DeviceTypes'
    BY <1>4 DEF IInv, DeviceTypes, SendReport, SendDescriptor, Toggle
  <1>7. Own' /\ stale' /\ late'
    BY <1>4 DEF IInv, Own
  <1>8. Control'
    <2>1. pc \in {"read", "free"} => fifo' # <<>>
      BY <1>4 DEF IInv, Control, SendReport, SendDescriptor, TakePacket, ChipTypes
    <2> QED  BY <1>4, <2>1 DEF IInv, Control, hostVars, Reading, Showing
  <1>9. Discipline' /\ DataStage' /\ Configured' /\ Forward' /\ InStep'
    BY <1>7 DEF Discipline, Calm, DataStage, Configured, Forward, InStep
  <1> QED  BY <1>3, <1>5, <1>6, <1>7, <1>8, <1>9 DEF IInv

\* A report comes, new or for the second time.
LEMMA SendReportStep ==
  ASSUME IInv, SendReport
  PROVE  IInv'
  <1> SUFFICES ASSUME ~stale PROVE IInv'
    BY PacketWhenStale DEF IInv, ChipTypes
  <1>1. /\ job = "poll" /\ token = "IN" /\ head <= produced /\ head \in Nat
        /\ UNCHANGED <<cpos, ctog>>
        /\ (head' = head + 1 /\ dtog' = 1 - dtog) \/ UNCHANGED <<head, dtog>>
    <2>1. job = "poll" /\ token = "IN"
      BY DEF SendReport, IInv, Own
    <2> QED  BY <2>1 DEF SendReport, IInv, DeviceTypes
  <1>2. CASE dtog = rcvtog
    <2>1. /\ Len(fifo) < 2 /\ fifo' = Append(fifo, head)
          /\ rcvtog' = 1 - rcvtog /\ Done("OK") /\ inflight # "none"
      BY <1>2 DEF SendReport, TakePacket, Done
    <2> QED  BY <1>1, <1>2, <2>1, TakeStep
  <1>3. CASE dtog # rcvtog
    <2>1. PICK res \in {"TOGERR", "OK"} : Done(res)
      BY <1>3 DEF SendReport, TakePacket
    <2>2. inflight # "none" /\ UNCHANGED <<fifo, rcvtog>>
      BY <1>3, <2>1 DEF SendReport, TakePacket, Done
    <2> QED  BY <1>1, <1>3, <2>1, <2>2, DropStep
  <1> QED  BY <1>2, <1>3

\* A packet of the descriptor comes, new or for the second time.
LEMMA SendDescriptorStep ==
  ASSUME IInv, SendDescriptor
  PROVE  IInv'
  <1> SUFFICES ASSUME ~stale PROVE IInv'
    BY PacketWhenStale DEF IInv, ChipTypes
  <1>1. /\ job = "descr" /\ token = "IN" /\ cpos \in Nat
        /\ UNCHANGED <<head, dtog>>
        /\ (cpos' = cpos + 1 /\ ctog' = 1 - ctog) \/ UNCHANGED <<cpos, ctog>>
    <2>1. job # "poll" /\ token = "IN"
      BY DEF SendDescriptor, IInv, Own
    <2>2. job = "descr"
      BY <2>1 DEF SendDescriptor, IInv, Discipline, Calm, Control
    <2> QED  BY <2>1, <2>2 DEF SendDescriptor, IInv, DeviceTypes
  <1>2. CASE ctog = rcvtog
    <2>1. /\ Len(fifo) < 2 /\ fifo' = Append(fifo, cpos)
          /\ rcvtog' = 1 - rcvtog /\ Done("OK") /\ inflight # "none"
      BY <1>2 DEF SendDescriptor, TakePacket, Done
    <2> QED  BY <1>1, <1>2, <2>1, TakeStep
  <1>3. CASE ctog # rcvtog
    <2>1. PICK res \in {"TOGERR", "OK"} : Done(res)
      BY <1>3 DEF SendDescriptor, TakePacket
    <2>2. inflight # "none" /\ UNCHANGED <<fifo, rcvtog>>
      BY <1>3, <2>1 DEF SendDescriptor, TakePacket, Done
    <2> QED  BY <1>1, <1>3, <2>1, <2>2, DropStep
  <1> QED  BY <1>2, <1>3

\* The device takes a set-up packet.
LEMMA AcceptSetupStep ==
  ASSUME IInv, AcceptSetup
  PROVE  IInv'
  <1>1. ChipTypes'
    BY DoneTypes DEF AcceptSetup, IInv, ChipTypes, Results
  <1> USE DEF IInv, AcceptSetup, Done, hostVars, pioVars, chipVars, deviceVars,
             OnTheBus, Reading, Showing
  <1>2. HostTypes'  BY DEF HostTypes, Toggle
  <1>3. DeviceTypes'  BY DEF DeviceTypes, Toggle
  <1>4. Control'  BY DEF Control
  <1>5. Discipline'  BY DEF Discipline, Calm, Answered
  <1>6. DataStage'  BY DEF DataStage, Received, Numbered, Answered, Own
  <1>7. Configured'  BY DEF Configured, Answered, Own
  <1>8. Forward'  BY DEF Forward
  <1>9. InStep'  BY DEF InStep, Expected, InHand, Last
  <1>10. Registers'  BY DEF Registers
  <1>11. Own'  BY DEF Own, Control, Discipline, Calm, Answered, HostTypes
  <1> QED  BY <1>1, <1>2, <1>3, <1>4, <1>5, <1>6, <1>7, <1>8, <1>9, <1>10, <1>11

\* The status stage.
LEMMA StatusStep ==
  ASSUME IInv, Status
  PROVE  IInv'
  <1>1. ChipTypes'
    BY DoneTypes DEF Status, IInv, ChipTypes, Results
  <1> USE DEF IInv, Status, Done, hostVars, pioVars, chipVars, deviceVars, OnTheBus,
             Reading, Showing
  <1>2. HostTypes'  BY DEF HostTypes, Toggle
  <1>3. DeviceTypes'  BY DEF DeviceTypes, Toggle
  <1>4. Control'  BY DEF Control
  <1>5. Discipline'  BY DEF Discipline, Calm, Answered
  <1>6. DataStage'  BY DEF DataStage, Received, Numbered, Answered, Own
  <1>7. Configured'  BY DEF Configured, Answered
  <1>8. Forward'  BY DEF Forward
  <1>9. InStep'  BY DEF InStep, Expected, InHand, Last
  <1>10. Registers'  BY DEF Registers
  <1>11. Own'  BY DEF Own, Control, Discipline, Calm, Answered, HostTypes
  <1> QED  BY <1>1, <1>2, <1>3, <1>4, <1>5, <1>6, <1>7, <1>8, <1>9, <1>10, <1>11

\* A key is pressed.
LEMMA TypeStep ==
  ASSUME IInv, Type
  PROVE  IInv'
  <1> USE DEF IInv, Type, hostVars, pioVars, chipVars, deviceVars, OnTheBus, Reading,
             Showing
  <1>1. HostTypes'  BY DEF HostTypes, Toggle
  <1>2. ChipTypes'  BY DEF ChipTypes, Toggle, Results
  <1>3. DeviceTypes'  BY DEF DeviceTypes, Toggle
  <1>4. Control'  BY DEF Control
  <1>5. Discipline'  BY DEF Discipline, Calm, Answered
  <1>6. DataStage'  BY DEF DataStage, Received, Numbered, Answered
  <1>7. Configured'  BY DEF Configured, Answered
  <1>8. Forward'  BY SMTT(30) DEF Forward, HostTypes, ChipTypes, DeviceTypes, Toggle
  <1>9. InStep'  BY DEF InStep, Expected, InHand, Last, HostTypes, ChipTypes,
                        DeviceTypes, Toggle
  <1>10. Registers'  BY DEF Registers
  <1>11. Own'  BY DEF Own, Control, Discipline, Calm, Answered, HostTypes
  <1> QED  BY <1>1, <1>2, <1>3, <1>4, <1>5, <1>6, <1>7, <1>8, <1>9, <1>10, <1>11

\* Another device is plugged in.
LEMMA ReplugStep ==
  ASSUME IInv, Replug
  PROVE  IInv'
  <1>1. ChipTypes'
    <2>1. /\ inflight' \in {"none", inflight} /\ hxfrdn' \in BOOLEAN
          /\ stale' \in BOOLEAN
      BY DEF Replug, MAX3421E_init, chipVars, IInv, ChipTypes
    <2>2. fifo' \in Seq(Nat) /\ Len(fifo') <= 2
      <3>1. CASE job = "poll"
        <4>1. fifo' = <<>>  BY <3>1 DEF Replug, MAX3421E_init
        <4> QED  BY <4>1
      <3>2. CASE job # "poll"  BY <3>2 DEF Replug, chipVars, IInv, ChipTypes
      <3> QED  BY <3>1, <3>2
    <2>3. UNCHANGED <<hrslt, rcvtog, late>>  BY DEF Replug, MAX3421E_init, chipVars
    <2> QED  BY <2>1, <2>2, <2>3 DEF ChipTypes, IInv
  <1> USE DEF IInv, Replug, MAX3421E_init, hostVars, pioVars, chipVars, deviceVars,
             OnTheBus, Reading, Showing
  <1>2. HostTypes'  BY DEF HostTypes, Toggle, DeviceTypes
  <1>3. DeviceTypes'  BY DEF DeviceTypes, Toggle
  <1>4. Control'  BY DEF Control
  <1>5. Discipline'  BY DEF Discipline, Calm, Answered
  <1>6. DataStage'  BY DEF DataStage, Received, Numbered, Answered, Control
  <1>7. Configured'  BY DEF Configured, Answered
  <1>8. Forward'  BY DEF Forward, DeviceTypes
  <1>9. InStep'  BY DEF InStep, Expected, InHand, Last
  <1>10. Registers'  BY DEF Registers
  <1>11. Own'  BY DEF Own, Control, Discipline, Calm, Answered, HostTypes
  <1> QED  BY <1>1, <1>2, <1>3, <1>4, <1>5, <1>6, <1>7, <1>8, <1>9, <1>10, <1>11
----------------------------------------------------------------------------
(* The theorems *)

\* The invariant holds when the program starts.
LEMMA InitIInv == Init => IInv
  <1> USE TransferAssumption DEF Init, OnTheBus, Reading, Showing, Toggle
  <1> SUFFICES ASSUME Init PROVE IInv
    OBVIOUS
  <1>1. HostTypes /\ ChipTypes /\ DeviceTypes
    BY DEF HostTypes, ChipTypes, DeviceTypes, Results
  <1>2. Control /\ Own /\ Discipline /\ Configured /\ Registers
    BY DEF Control, Own, Discipline, Calm, Answered, Configured, Registers
  <1>3. DataStage /\ Forward /\ InStep
    BY DEF DataStage, Answered, Forward, InStep
  <1> QED  BY <1>1, <1>2, <1>3 DEF IInv

\* Every step keeps it.
LEMMA StepIInv ==
  ASSUME IInv, [Next]_vars
  PROVE  IInv'
  <1>1. CASE Host
    BY <1>1, XferCtrlReqStep, PollStep, LaunchStep, SeeDoneStep, ClearDoneStep,
       GiveUpStep,
       ResultStep, AvailableStep, ReadStep, FreeStep, SaveStep, Show1Step, Show2Step DEF Host
  <1>2. CASE Bus
    BY <1>2, NakStep, LoseStep, SendReportStep, SendDescriptorStep, AcceptSetupStep,
       StatusStep DEF Bus
  <1>3. CASE UNCHANGED vars
    <2> USE <1>3 DEF vars, hostVars, pioVars, chipVars, deviceVars
    <2>1. HostTypes' /\ ChipTypes' /\ DeviceTypes' /\ Control' /\ Own' /\ Discipline'
      BY DEF IInv, HostTypes, ChipTypes, DeviceTypes, Control, Own, Discipline, Calm, Answered
    <2>2. DataStage' /\ Configured'
      BY DEF IInv, DataStage, Received, Numbered, Answered, Configured
    <2>3. Forward' /\ InStep' /\ Registers'
      BY DEF IInv, Forward, InStep, Expected, InHand, Last, Registers
    <2> QED  BY <2>1, <2>2, <2>3 DEF IInv
  <1> QED  BY <1>1, <1>2, <1>3, TypeStep, ReplugStep DEF Next

\* The invariant holds in every reachable state, types included.
THEOREM Invariance == Spec => []IInv
  BY InitIInv, StepIInv, PTL DEF Spec

\* A data stage that ends well has read each packet of the descriptor once and in order,
\* however many packets were refused, lost, or sent twice because an ACK was lost, unless
\* the answer to an earlier request, which timed out, may have come in between.
THEOREM DescriptorAlwaysExact == Spec => []DescriptorExact
  <1>1. IInv => DescriptorExact
    BY DEF IInv, HostTypes, DataStage, Numbered, DescriptorExact
  <1> QED  BY <1>1, Invariance, PTL

\* The registers never go back to an older report, nor to one of a device that is gone,
\* even where the chip answers a poll after its time-out, but for sessions that a late
\* answer to a request may reach.
THEOREM NeverGoesBack == Spec => NeverBack
  <1>1. ASSUME IInv, [Next]_vars
        PROVE  [pc = "show1" /\ pc' = "show2" /\ ~stale => keycode' >= taken]_vars
    <2> SUFFICES ASSUME pc = "show1", pc' = "show2", ~stale, Next
                 PROVE  keycode' >= taken
      BY <1>1
    <2>1. Show1
      BY DEF Next, Host, Bus, XferCtrlReq, Poll, Launch, SeeDone, ClearDone, GiveUp,
         Result,
             Available, Read, Free, Save, Show2, Nak, Lose, SendReport, SendDescriptor,
             TakePacket, AcceptSetup, Status, Done, Type, Replug
    <2>2. Head(data) = data[1] /\ data # <<>> /\ data[1] \in Nat /\ taken \in Nat
      BY <1>1, <2>1 DEF IInv, HostTypes, Control, Showing, Show1
    <2>3. taken <= data[1]
      BY <1>1, <2>1, <2>2 DEF IInv, Control, Showing, Forward, Show1
    <2> QED  BY <2>1, <2>2, <2>3 DEF Show1
  <1> QED  BY <1>1, Invariance, PTL DEF Spec, NeverBack

\* A step of the transfer layer is a step of the channel, or none: the registers are
\* written by Show1 and Show2, a report is made by Type, and what an unplugged device had
\* not sent is given up by Replug.
LEMMA ChannelStep ==
  ASSUME OneReport, IInv, [Next]_vars
  PROVE  [Channel!Next]_Channel!vars
  <1> USE DEF Channel!vars, Channel!Next, Seen
  <1>1. CASE late
    BY <1>1 DEF Next, Host, Bus, vars, XferCtrlReq, Poll, Launch, SeeDone, ClearDone,
       GiveUp,
       Result, Available, Read, Free, Save, Show1, Show2, Nak, Lose, SendReport,
       SendDescriptor, TakePacket, AcceptSetup, Status, Done, Type, Replug
  <1>2. CASE ~late /\ Show1
    <2>1. job = "poll" /\ pc = "show1" /\ Head(data) = data[1]
      BY <1>2 DEF IInv, Control, Showing, HostTypes, Show1
    <2>2. data[1] = taken + 1 /\ taken < produced /\ keycode2 = keycode
      BY <1>2, <2>1 DEF IInv, InStep, InHand, Registers
    <2> QED  BY <1>2, <2>1, <2>2 DEF Show1, Channel!First, deviceVars
  <1>3. CASE ~late /\ Show2
    <2>1. Head(data) = data[1] /\ keycode = data[1]
      BY <1>3 DEF IInv, Control, Showing, HostTypes, Registers, Show2
    <2> QED  BY <1>3, <2>1 DEF Show2, Channel!Second, deviceVars
  <1>4. CASE ~late /\ Type
    BY <1>4 DEF Type, Channel!Type, pioVars
  <1>5. CASE ~late /\ Replug
    BY <1>5 DEF Replug, Channel!Replug
  <1>6. CASE /\ ~late
             /\ \/ XferCtrlReq \/ Poll \/ Launch \/ SeeDone \/ ClearDone \/ GiveUp \/ Result
                \/ Available \/ Read \/ Free \/ Save \/ Bus \/ UNCHANGED vars
    <2>1. UNCHANGED <<late, pioVars, produced>>
      BY <1>6 DEF Bus, vars, deviceVars, XferCtrlReq, Poll, Launch, SeeDone, ClearDone,
         GiveUp, Result, Available, Read, Free, Save, Nak, Lose, SendReport, SendDescriptor,
         TakePacket, AcceptSetup, Status, Done
    <2> QED  BY <2>1 DEF pioVars
  <1> QED  BY <1>1, <1>2, <1>3, <1>4, <1>5, <1>6 DEF Next, Host

\* The reports reach the registers one by one, in order, none twice and none left out,
\* where a report ends its transfer and the chip answers no poll after its time-out.
\* OneReport is needed: kbdPoll asks for eight bytes, so that from a mouse with a packet of
\* four and reports of four two reports are read in one transfer and the first is shown.
THEOREM ReportsStayInOrder ==
  ASSUME OneReport
  PROVE  Spec => ReportsInOrder
  <1>1. Init => Channel!Init
    BY DEF Init, Channel!Init, Seen
  <1>2. IInv /\ [Next]_vars => [Channel!Next]_Channel!vars
    BY ChannelStep
  <1> QED  BY <1>1, <1>2, Invariance, PTL DEF Spec, ReportsInOrder, Channel!Spec
-----------------------------------------------------------------------------
(* A transfer comes to an end *)

\* What a transfer is through with goes down, in this order: its stage, the packets it may
\* still read, the refusals and time-outs it still bears, and the accesses of one try.
Stage == CASE token = "SETUP" -> 2 [] token = "IN" -> 1 [] OTHER -> 0
Needed == IF job = "poll" THEN RequestLen ELSE DescPackets
Missing == IF token = "IN" THEN Needed - Len(data) ELSE 0
Fetched == {"free", "save"} \union Showing
Tries == IF pc \in Fetched THEN NakLimit + RetryLimit
         ELSE (NakLimit - nak_count) + (RetryLimit - retry_count)
Distance ==
  CASE pc = "free"   -> 8
    [] pc = "save"   -> 7
    [] pc = "launch" -> 6
    [] pc = "wait"   -> 5
    [] pc = "clear"  -> 4
    [] pc = "result" -> 3
    [] pc \in {"avail", "show1"} -> 2
    [] pc \in {"read", "show2"}  -> 1
    [] pc = "start"  -> 0

Nearer ==
  \/ Stage' < Stage
  \/ Stage' = Stage /\ \/ Missing' < Missing
                       \/ Missing' = Missing /\ \/ Tries' < Tries
                                                \/ Tries' = Tries /\ Distance' < Distance

\* Each step of the host ends its transfer or brings the end nearer, and nothing that the chip
\* or the device does meanwhile puts it off.
TransferAdvances ==
  [][pc # "start" => IF Host THEN pc' = "start" \/ Nearer
                     ELSE UNCHANGED <<Stage, Missing, Tries, Distance>>]_vars

\* A transfer goes on only while limits and packets are left.
Within ==
  /\ pc # "start" => nak_count < NakLimit /\ retry_count < RetryLimit
  /\ token = "IN" /\ pc # "start" => Len(data) <= Needed
  /\ token = "IN" /\ pc \in OnTheBus \union {"avail", "read"} => Len(data) < Needed

\* A transfer that is not complete has packets left to read.
LEMMA IncompleteIs ==
  ASSUME IInv, ~Complete(data), Len(data) <= Needed
  PROVE  Len(data) < Needed
  <1>1. Len(data) \in Nat
    BY DEF IInv, HostTypes
  <1>2. CASE job = "poll"
    <2>1. Len(data) * ReportLen < RequestLen /\ ReportLen \in Nat /\ ReportLen >= 1
      BY <1>1, <1>2, TransferAssumption DEF Complete, RequestLen
    <2>2. \A a, b \in Nat : b >= 1 => a * b >= a
      OBVIOUS
    <2>3. Len(data) * ReportLen >= Len(data)
      BY <1>1, <2>1, <2>2
    <2>4. Len(data) * ReportLen \in Nat
      BY <1>1, <2>1
    <2> QED  BY <1>1, <1>2, <2>1, <2>3, <2>4 DEF Needed, RequestLen
  <1>3. CASE job # "poll"
    <2>1. Len(data) # DescPackets
      BY <1>3 DEF Complete
    <2> QED  BY <1>1, <1>3, <2>1, TransferAssumption DEF Needed
  <1> QED  BY <1>2, <1>3

\* A data stage asks for at least a packet.
LEMMA NeededIs == Needed \in Nat /\ Needed > 0
  BY TransferAssumption DEF Needed, RequestLen

\* The limits hold when the program starts, and every step keeps them.
LEMMA WithinStep ==
  ASSUME IInv, IInv', Within, [Next]_vars
  PROVE  Within'
  <1> USE TransferAssumption DEF Within, OnTheBus, Showing, hostVars, pioVars, chipVars, deviceVars
  <1>1. CASE XferCtrlReq
    BY <1>1 DEF XferCtrlReq, XferDispatchPkt
  <1>2. CASE Poll
    <2>1. nak_count' = 0 /\ retry_count' = 0 /\ Len(data') = 0 /\ Needed' \in Nat /\ Needed' > 0
      BY <1>2 DEF Poll, XferInTransfer, XferDispatchPkt, Needed, RequestLen
    <2> QED  BY <2>1
  <1>3. CASE Launch \/ SeeDone \/ ClearDone
    BY <1>3 DEF Launch, SeeDone, ClearDone, Needed
  <1>4. CASE GiveUp
    BY <1>4 DEF GiveUp, Fail, Return
  <1>5. CASE Result
    <2>1. CASE hrslt = "NAK"
      BY <1>5, <2>1 DEF Result, Retry, Return, Needed, IInv, HostTypes
    <2>2. CASE hrslt = "TIMEOUT"
      BY <1>5, <2>2 DEF Result, Retry, Return, Needed, IInv, HostTypes
    <2>3. CASE hrslt = "OK"
      <3>1. Succeed
        BY <1>5, <2>3 DEF Result
      <3>2. CASE token = "SETUP" /\ job = "descr"
        <4>1. nak_count' = 0 /\ retry_count' = 0 /\ Len(data') = 0 /\ Needed' \in Nat /\ Needed' > 0
          BY <3>1, <3>2 DEF Succeed, XferInTransfer, XferDispatchPkt, Needed, RequestLen
        <4> QED  BY <4>1
      <3>3. CASE token = "SETUP" /\ job \in {"conf", "proto"}
        BY <3>1, <3>3 DEF Succeed, XferDispatchPkt
      <3>4. CASE token = "IN"
        BY <1>5, <3>1, <3>4 DEF Succeed, Result, Needed
      <3>5. CASE token \in {"OUTHS", "INHS"}
        BY <3>1, <3>5 DEF Succeed
      <3> QED  BY <3>1, <3>2, <3>3, <3>4, <3>5 DEF Succeed
    <2>4. CASE hrslt \notin {"NAK", "TIMEOUT", "OK"}
      BY <1>5, <2>4 DEF Result, Fail, Return
    <2> QED  BY <2>1, <2>2, <2>3, <2>4
  <1>6. CASE Available
    BY <1>6 DEF Available, Fail, Return, Needed
  <1>7. CASE Read
    <2>1. /\ pc = "read" /\ pc' = "free" /\ UNCHANGED <<job, token, nak_count, retry_count>>
          /\ data' = Append(data, Head(fifo))
      BY <1>7 DEF Read
    <2>2. Len(data) < Needed /\ Needed' = Needed
      BY <2>1 DEF IInv, Control, Reading, Needed
    <2>3. Len(data') = Len(data) + 1 /\ Len(data) \in Nat
      BY <2>1 DEF IInv, HostTypes
    <2> QED  BY <2>1, <2>2, <2>3, NeededIs
  <1>8. CASE Free
    <2>1. pc = "free" /\ UNCHANGED <<job, data>> /\ token = "IN" /\ Needed' = Needed
      BY <1>8 DEF Free, IInv, Control, Reading, Needed
    <2>2. CASE Complete(data)
      BY <1>8, <2>1, <2>2 DEF Free
    <2>3. CASE ~Complete(data)
      <3>1. Len(data) < Needed
        BY <2>1, <2>3, IncompleteIs
      <3>2. nak_count' = 0 /\ retry_count' = 0
        BY <1>8, <2>3 DEF Free, XferDispatchPkt
      <3> QED  BY <2>1, <3>1, <3>2
    <2> QED  BY <2>2, <2>3
  <1>9. CASE Save
    <2>1. CASE job = "poll"
      BY <1>9, <2>1 DEF Save, Needed
    <2>2. CASE job # "poll"
      BY <1>9, <2>2 DEF Save, XferDispatchPkt
    <2> QED  BY <2>1, <2>2
  <1>10. CASE Show1
    BY <1>10 DEF Show1, Needed
  <1>11. CASE Show2
    BY <1>11 DEF Show2
  <1>12. CASE Bus \/ Type \/ UNCHANGED vars
    <2>1. UNCHANGED <<pc, job, token, nak_count, retry_count, data>>
      BY <1>12 DEF Bus, Nak, Lose, SendReport, SendDescriptor, TakePacket, AcceptSetup, Status,
         Done, Type, vars
    <2> QED  BY <2>1 DEF Needed
  <1>13. CASE Replug
    BY <1>13 DEF Replug
  <1> QED  BY <1>1, <1>2, <1>3, <1>4, <1>5, <1>6, <1>7, <1>8, <1>9, <1>10, <1>11, <1>12, <1>13
           DEF Next, Host

\* What a transfer still has to go through is bounded, stage by stage.
LEMMA Bounds ==
  ASSUME IInv, Within, pc # "start"
  PROVE  /\ Stage \in 0 .. 2 /\ Missing \in 0 .. Needed
         /\ Tries \in 1 .. NakLimit + RetryLimit /\ Distance \in 1 .. 8
  <1>1. Stage \in 0 .. 2
    BY DEF Stage
  <1>2. Missing \in 0 .. Needed
    BY NeededIs DEF Missing, Within, IInv, HostTypes
  <1>3. Tries \in 1 .. NakLimit + RetryLimit
    BY TransferAssumption DEF Tries, Within, IInv, HostTypes, Fetched, Showing
  <1>4. Distance \in 1 .. 8
    BY DEF Distance, IInv, HostTypes, OnTheBus, Reading, Showing
  <1> QED  BY <1>1, <1>2, <1>3, <1>4

\* A step that stays with its packet and its try gets nearer by an access.
LEMMA AccessNearer ==
  ASSUME UNCHANGED <<job, token, data, nak_count, retry_count>>,
         pc \in Fetched <=> pc' \in Fetched,
         Distance' < Distance
  PROVE  Nearer
  <1>1. Stage' = Stage /\ Missing' = Missing
    BY DEF Stage, Missing, Needed
  <1>2. Tries' = Tries
    BY DEF Tries
  <1> QED  BY <1>1, <1>2 DEF Nearer

\* Each step of the host gets nearer.
LEMMA HostNearer ==
  ASSUME IInv, IInv', Within, Within', pc # "start", Host
  PROVE  pc' = "start" \/ Nearer
  <1> SUFFICES ASSUME pc' # "start" PROVE Nearer
    OBVIOUS
  <1> USE TransferAssumption DEF hostVars, pioVars, chipVars, deviceVars
  <1>1. CASE Launch \/ SeeDone \/ ClearDone
    <2>1. Distance' < Distance /\ pc \notin Fetched /\ pc' \notin Fetched
      BY <1>1 DEF Launch, SeeDone, ClearDone, Distance, Fetched, Showing
    <2>2. UNCHANGED <<job, token, data, nak_count, retry_count>>
      BY <1>1 DEF Launch, SeeDone, ClearDone
    <2> QED  BY <2>1, <2>2, AccessNearer
  <1>2. CASE GiveUp
    BY <1>2 DEF GiveUp, Fail, Return
  <1>3. CASE Result
    <2>1. CASE hrslt = "NAK"
      <3>1. /\ pc = "result" /\ pc' = "launch" /\ UNCHANGED <<job, token, data, retry_count>>
            /\ nak_count' = nak_count + 1
        BY <1>3, <2>1 DEF Result, Retry, Return
      <3>2. Stage' = Stage /\ Missing' = Missing
        BY <3>1 DEF Stage, Missing, Needed
      <3>3. Tries' < Tries
        BY <3>1 DEF Tries, Fetched, Showing, IInv, HostTypes
      <3> QED  BY <3>2, <3>3 DEF Nearer
    <2>2. CASE hrslt = "TIMEOUT"
      <3>1. /\ pc = "result" /\ pc' = "launch" /\ UNCHANGED <<job, token, data, nak_count>>
            /\ retry_count' = retry_count + 1
        BY <1>3, <2>2 DEF Result, Retry, Return
      <3>2. Stage' = Stage /\ Missing' = Missing
        BY <3>1 DEF Stage, Missing, Needed
      <3>3. Tries' < Tries
        BY <3>1 DEF Tries, Fetched, Showing, IInv, HostTypes
      <3> QED  BY <3>2, <3>3 DEF Nearer
    <2>3. CASE hrslt = "OK"
      <3>1. Succeed /\ pc = "result"
        BY <1>3, <2>3 DEF Result
      <3>2. CASE token = "SETUP"
        <4>1. token' \in {"IN", "INHS"}
          BY <3>1, <3>2 DEF Succeed, XferInTransfer, XferDispatchPkt
        <4>2. Stage' < Stage
          BY <3>2, <4>1 DEF Stage
        <4> QED  BY <4>2 DEF Nearer
      <3>3. CASE token = "IN"
        <4>1. pc' = "avail" /\ UNCHANGED <<job, token, nak_count, retry_count, data>>
          BY <3>1, <3>3 DEF Succeed
        <4>2. Distance' < Distance
          BY <3>1, <4>1 DEF Distance
        <4> QED  BY <3>1, <4>1, <4>2, AccessNearer DEF Fetched, Showing
      <3>4. CASE token \in {"OUTHS", "INHS"}
        BY <3>1, <3>4 DEF Succeed
      <3> QED  BY <3>1, <3>2, <3>3, <3>4 DEF Succeed
    <2>4. CASE hrslt \notin {"NAK", "TIMEOUT", "OK"}
      BY <1>3, <2>4 DEF Result, Fail, Return
    <2> QED  BY <2>1, <2>2, <2>3, <2>4
  <1>4. CASE Available
    <2>1. pc = "avail" /\ pc' = "read" /\ UNCHANGED <<job, token, nak_count, retry_count, data>>
      BY <1>4 DEF Available, Fail, Return
    <2>2. Distance' < Distance
      BY <2>1 DEF Distance
    <2> QED  BY <2>1, <2>2, AccessNearer DEF Fetched, Showing
  <1>5. CASE Read
    <2>1. /\ pc = "read" /\ UNCHANGED <<job, token>> /\ token = "IN"
          /\ data' = Append(data, Head(fifo))
      BY <1>5 DEF Read, IInv, Control, Reading
    <2>2. Len(data') = Len(data) + 1 /\ Len(data) \in Nat /\ Needed \in Nat /\ Needed' = Needed
      BY <2>1, NeededIs DEF IInv, HostTypes, Needed
    <2>3. Missing' < Missing /\ Stage' = Stage
      <3>1. Stage' = Stage
        BY <2>1 DEF Stage
      <3> HIDE DEF Needed
      <3> QED  BY <2>1, <2>2, <3>1 DEF Missing
    <2> QED  BY <2>3 DEF Nearer
  <1>6. CASE Free
    <2>1. pc = "free" /\ UNCHANGED <<job, data>> /\ token = "IN"
      BY <1>6 DEF Free, IInv, Control, Reading
    <2>2. CASE Complete(data)
      <3>1. pc' = "save" /\ UNCHANGED <<token, nak_count, retry_count>>
        BY <1>6, <2>2 DEF Free
      <3>2. Distance' < Distance
        BY <2>1, <3>1 DEF Distance
      <3> QED  BY <2>1, <3>1, <3>2, AccessNearer DEF Fetched, Showing
    <2>3. CASE ~Complete(data)
      <3>1. pc' = "launch" /\ token' = "IN" /\ nak_count' = 0 /\ retry_count' = 0
        BY <1>6, <2>3 DEF Free, XferDispatchPkt
      <3>2. Stage' = Stage /\ Missing' = Missing
        BY <2>1, <3>1 DEF Stage, Missing, Needed
      <3>3. Tries' = Tries
        BY <2>1, <3>1 DEF Tries, Fetched, Showing
      <3>4. Distance' < Distance
        BY <2>1, <3>1 DEF Distance
      <3> QED  BY <3>2, <3>3, <3>4 DEF Nearer
    <2> QED  BY <2>2, <2>3
  <1>7. CASE Save
    <2>1. pc = "save" /\ token = "IN"
      BY <1>7 DEF Save, IInv, Control, Reading
    <2>2. CASE job = "poll"
      <3>1. pc' = "show1" /\ UNCHANGED <<job, data, token, nak_count, retry_count>>
        BY <1>7, <2>2 DEF Save
      <3>2. Distance' < Distance
        BY <2>1, <3>1 DEF Distance
      <3> QED  BY <2>1, <3>1, <3>2, AccessNearer DEF Fetched, Showing
    <2>3. CASE job # "poll"
      <3>1. token' = "OUTHS"
        BY <1>7, <2>3 DEF Save, XferDispatchPkt
      <3>2. Stage' < Stage
        BY <2>1, <3>1 DEF Stage
      <3> QED  BY <3>2 DEF Nearer
    <2> QED  BY <2>2, <2>3
  <1>8. CASE Show1
    <2>1. pc = "show1" /\ pc' = "show2" /\ UNCHANGED <<job, token, nak_count, retry_count, data>>
      BY <1>8 DEF Show1
    <2>2. Distance' < Distance
      BY <2>1 DEF Distance
    <2> QED  BY <2>1, <2>2, AccessNearer DEF Fetched, Showing
  <1> QED  BY <1>1, <1>2, <1>3, <1>4, <1>5, <1>6, <1>7, <1>8
           DEF Host, XferCtrlReq, Poll, Show2

\* A control request, a poll with all its packets and the retries of each come to an end after
\* a bounded number of register accesses, whatever the device answers, loses or sends twice:
\* USB_NAK_LIMIT and USB_RETRY_LIMIT bound the tries of a packet although each counts alone.
THEOREM TransfersAdvance ==
  Spec => /\ TransferAdvances
          /\ [](pc # "start" => /\ Stage \in 0 .. 2 /\ Missing \in 0 .. Needed
                                /\ Tries \in 1 .. NakLimit + RetryLimit /\ Distance \in 1 .. 8)
  <1>1. Init => Within
    BY DEF Init, Within, OnTheBus
  <1>2. IInv /\ IInv' /\ Within /\ [Next]_vars => Within'
    BY WithinStep
  <1>3. IInv /\ IInv' /\ Within /\ Within' /\ [Next]_vars =>
          [pc # "start" => IF Host THEN pc' = "start" \/ Nearer
                           ELSE UNCHANGED <<Stage, Missing, Tries, Distance>>]_vars
    <2> SUFFICES ASSUME IInv, IInv', Within, Within', Next, pc # "start"
                 PROVE  IF Host THEN pc' = "start" \/ Nearer
                        ELSE UNCHANGED <<Stage, Missing, Tries, Distance>>
      OBVIOUS
    <2>1. CASE Host
      BY <2>1, HostNearer
    <2>2. CASE ~Host
      <3>1. UNCHANGED <<pc, job, token, nak_count, retry_count, data>>
        BY <2>2 DEF Next, Bus, Nak, Lose, SendReport, SendDescriptor, TakePacket, AcceptSetup,
           Status, Done, Type, Replug, hostVars
      <3> QED  BY <2>2, <3>1 DEF Stage, Missing, Tries, Distance, Needed
    <2> QED  BY <2>1, <2>2
  <1>4. IInv /\ Within => (pc # "start" => /\ Stage \in 0 .. 2 /\ Missing \in 0 .. Needed
                                           /\ Tries \in 1 .. NakLimit + RetryLimit
                                           /\ Distance \in 1 .. 8)
    BY Bounds
  <1> QED  BY <1>1, <1>2, <1>3, <1>4, Invariance, PTL DEF Spec, TransferAdvances
=============================================================================
