# Super Mario Bros. on the DE10-Lite: a TLA+ model of the keyboard host, its run-time system and the game

The repository is a small game console.  A Nios II processor on the FPGA runs a C
program (`software/usb_kb`) that talks over SPI to a MAX3421E USB host chip,
enumerates a keyboard and copies its keycodes into two registers.  It stands on the
library the tools put into the board support package (HAL): interrupts, a system
clock, file descriptors, drivers for the SPI core and the JTAG UART.  Hardware
written in SystemVerilog reads those registers once a frame, moves Mario and the
Goomba, keeps the state of the game and paints the picture on a VGA screen.

## 1. Inventory

| Part | Source | State it keeps | Operations |
|---|---|---|---|
| Main loop | `software/usb_kb/main.c` | `runningdebugflag`, `errorflag`, `device`, the LED and key registers | `MAX3421E_Task`, `USB_Task`, then report, poll, show an error or start over |
| Chip driver | `usb_kb/MAX3421E.c` | the chip's registers, `usb_task_state` | `MAX3421E_init`, `MaxIntHandler`, `MAX_busprobe`, register access |
| Enumeration | `usb_kb/transfer.c` `USB_Task` | `usb_task_state`, `devtable`, `usb_delay`, `tmp_addr` | one case per task state |
| Class drivers | `usb_kb/HID.c` | `hid_device` (address, interface, endpoint record) | probe a device, poll a keyboard or a mouse |
| Transfers | `usb_kb/transfer.c` `Xfer*` | toggles and retry counters of an endpoint | control request, IN transfer, dispatch with retries |
| Register access | `MAX3421E.c` `MAXreg_*`, `MAXbytes_*`, `altera_avalon_spi.c` | locals of one command | push and fetch bytes through the SPI core |
| System clock | HAL `alt_tick.c`, `alt_alarm_start.c`, `alt_llist.h`, `alt_gettod.c`, `alt_settod.c` | tick counter, list of alarms, time of day | count, start and stop an alarm, call what is due |
| JTAG UART | `altera_avalon_jtag_uart_*.c` | two ring buffers, enabled interrupts, seconds without a host | write, read, close, interrupt, time-out |
| System start | HAL `alt_main.c`, `alt_irq_handler.c`, `alt_sys_init.c` | enabled lines, table of handlers | bring up interrupts, timer, UART; dispatch |
| File descriptors | HAL `alt_open.c`, `alt_close.c`, `alt_fd_lock.c`, `alt_io_redirect.c` and others | `alt_fd_list`, `alt_max_fd` | open, close, lock, unlock, set flags, redirect |
| Mario | `ball.sv`, `jump.sv` | position, jump state | move at each frame, collide with the level and the Goomba |
| Goomba | `goomba.sv` | alive or dead, position, patrol state and counter | patrol, die |
| Game | `gamestate.sv`, `mushroom.sv`, `super_mario.sv` | START, ON, OFF, WIN; mushroom eaten; Mario grown | transitions on keys and collisions |
| Video timing | `VGA_controller.sv` | pixel and line counters, registered sync pulses | count |
| Picture, level | `Color_Mapper.sv` | the 30 x 40 grid of solid cells | paint a pixel, mark a cell |
| Animation | `ball.sv` dividers, `dynamic_sprite.sv`, `dynamic_goomba` | three divided clocks, two pictures | step once in eight frames |
| Displays | `HexDriver.sv`, `main.c` | none | decode a digit |
| Top level | `lab62.sv` | none | wire everything together |

**How they interact.**  The keyboard program is a single loop that polls the
interrupt pin of the chip; below it the timer and the UART interrupt it, and share
the tick counter and the ring buffers with it.  The chip, the bus, the device and the user run beside it, and
they meet it only at register accesses: an event may come between any two.  The
program gives the game two key registers, written one after the other.  The game
has two clocks.  The registers of Mario, of the jump machine and of the Goomba
step at the rising edge of the vertical sync pulse; the state of the game, the
mushroom and Mario's growth are clocked at 50 MHz and sample, all through the
frame, events that `ball.sv` works out combinationally from those registers and
the keys.  One button resets everything, asynchronously for most registers.  The
beam writes the level grid cell by cell while it paints, and `ball.sv` reads it.

**What is hard.**  In the program: an event between two register accesses, the
order in which the handler chooses a state and then increments it, state left
behind by an enumeration that failed, data cached for a session; packets that are
refused, lost, damaged or answered twice, and a time-out that an answer misses by a
little.  In the library: interrupts between any two steps of a call, buffers that are
full or empty, a host that goes away, a counter that rolls over, callbacks that change
the list being walked, a table whose scans stop at a mark.  In the game: the
two clocks, a reset that does not reach every register, positions that wrap at 10
bits, collisions resolved by tests that override one another, array indices past
the end, cells read before they are painted.  Between the two: a report half written
when a frame samples it.

**What makes each part correct.**

* Program: no missing record is dereferenced; the device that is polled is the one
  in the port and is polled by its own driver, until a change waits to be noticed;
  a change is noticed; enumeration ends; nothing is sent before frames are.
* Transfers: a descriptor is read exactly; reports reach the key registers in order,
  none twice, none left out, and all of them eventually.
* Register access: an access is one read or write of one register, whatever the pace.
* System clock: every alarm on its tick, no wait cut short, the time of day kept.
* JTAG UART: both directions are pipes; nothing waits for an interrupt that is off; a
  call returns though the host is gone.  No line is served without its handler.
* File descriptors: none is lost, a lock is exclusive, the standard ones are the UART.
* Displays: after a report both its numbers can be read.
* Video timing: one step of the game per frame, never while a pixel is shown.
* Goomba: it stays between its blocks for ever, though it never looks at them, and
  it keeps walking.
* Mario: he stays in the picture and on the floor, whatever pushes him.
* Pictures: strides keep their beat, and who does not walk is shown standing.
* Level: it is painted before anybody runs into it.
* Game: a fall ends it in time; a stomped Goomba and a grown Mario do not.

## 2. Modules

```
   PortService    <-- implements --  Displays <- UsbHost  <-- UsbHost_proof, MCUsbHost
   ReportChannel  <-- implements --  Transfer     <-- Transfer_proof
   RegisterPort   <-- implements --  Spi          <-- Spi_proof, MCSpi
   AlarmClock     <-- implements --  SystemClock  <-- Clocks_proof, MCSystemClock
   CharPipe twice <-- implements --  JtagUart     <-- JtagUart_proof, MCJtagUart
                                     FileTable    <-- FileTable_proof, MCFileTable
   FrameClock     <-- implements --  VgaTiming    <-- Clocks_proof, MCVgaTiming
   Patrol         <-- implements --  Goomba       <-- Goomba_proof
   Strides        <-- implements --  Animation, on Goomba  <-- Goomba_proof, MCGoomba
                                     Motion <- Game  <-- Game_proof, MCGame
```

**UsbHost** models `main.c`, `MAX3421E.c`, `USB_Task` of `transfer.c` and the class
probes of `HID.c`.  `pc` is the program's counter; a pass of the loop is divided
exactly at the register accesses where an event can be seen or lost:

| `pc` | Code |
|---|---|
| `reset`, `initprobe`, `initack` | `MAX3421E_init`: up to the bus probe, the probe, the acknowledgement |
| `max` | `MAX3421E_Task` up to the read of HIRQ |
| `probe`, `ack` | `MaxIntHandler`: the bus probe with `usb_task_state++`, the write that clears HIRQ |
| `task` | one visit of `USB_Task` |
| `main` | the rest of the body of main's loop |

The variables have the names of the code where it has them (`usb_task_state`,
`devtable`, `tmp_addr`, `runningdebugflag`, `errorflag`, `device`); `hid_addr` is
`hid_device.addr`; `latched` is the copy of HIRQ the handler works on; `hirq`,
`lowspeed`, `sofka` and `busrst` are the chip's HIRQ, MODE and HCTL; `settled` is
the comparison `now > usb_delay`.  The transfers a case makes are one outcome,
success or failure (`Transfer` takes them apart); a transfer fails when the device in the port does not answer
at that address and speed, and may fail when it does.  The user plugs and unplugs
at any time.  The chip ends bus resets and raises its interrupt bits.  The data
sheet leaves open whether a bus reset raises CONDETIRQ; `ResetCondet` says when
it may.

**PortService** is what the reader of the keyboard may rely on: a device is served
only while it is the one in the port or a change waits to be noticed, service is
not handed over without an enumeration, and a port given up comes back only
through a change.

**Transfer** is the rest of `transfer.c` with `kbdPoll`, `mousePoll` and `setKeycode`:
`XferCtrlReq` with its data and status stages, `XferInTransfer`, `XferDispatchPkt`.  `pc`
is again divided at the register accesses: `launch` writes HXFR, `wait` reads HIRQ
until HXFRDNIRQ, `clear` clears it, `result` reads HRSL, `avail`, `read`, `free` handle
RCVDAVIRQ and the FIFO, `save` reads the toggle back, `show1` and `show2` write the key
registers.  `nak_count`, `retry_count` and `rcvToggle` are the code's.  The chip
(`inflight`, `hxfrdn`, `hrslt`, `rcvtog`, `fifo`) and the device (`head`, `dtog`, `cpos`,
`ctog`) are external, modelled from what the code expects of them: NAK, a lost or
damaged token, an acknowledgement that gets lost so that the device sends the packet
again with the old toggle.  A chip that sees a wrong toggle drops the packet; whether
HRSL then shows hrTOGERR or success is left open.  `late` is a chip that may answer
after the driver has given up; the token stays in `inflight` until it does.  `stale` notes
that a request, and not a poll, was given up: the loop initialises the chip only when it
leaves the running state, so that an answer to that request may meet the requests of the
next session.  Nothing is claimed of the data read then, until the chip is initialised.  The HID drivers always use endpoint 1 of the
table (`HID.c:216`, `HID.c:225`); the address they store in `epAddr` is never read.
**ReportChannel** is what the game may rely on: reports one by one, in order; of two
reports the second register shows the first one's key before the first register shows
the second one's, so that a frame sees at most one report torn.

**Spi** is one register access: the four `MAX*` functions and the loop of
`alt_avalon_spi_command`, whose locals (`written`, `write_zeros`, `read_ignore`, `credits`) it
keeps, against the SPI core (`hold` is TXDATA, `shift` the byte on the wire, `rxdata`
and `rrdy`, the error bits `toe` and `roe`) and a chip that takes the first byte for a
command.  **RegisterPort** is what all other modules take an access for.  Two branches
of the code are dead: `alt_avalon_spi_command` never returns a negative number, so the
error messages of `MAXreg_*` are never printed, and `credits` never becomes -1024,
because the last byte is fetched before another could be sent.

**SystemClock** has three clients of the tick counter, which share nothing else and are
looked at one at a time: the alarms (`alt_tick` visits the list one alarm at a time,
callbacks may start and stop alarms in between, their own too), the two waits of `transfer.c` in
milliseconds, and the time of day.  **AlarmClock** counts down the ticks of each alarm and
says whose callback runs.  What a user of the code has to observe is a guard: an alarm
that is in the list is not started again (the ring would break), a callback does not stop
the alarm that follows its own (`alt_tick` has noted it already), nobody asks for
2^32 - 1 ticks, which become 0, and a callback that stops and restarts its own alarm and
still returns a period, which `alt_tick` then adds, has a word hold the sum.

**JtagUart** is the driver with its interrupt handler, the alarm that counts the
seconds without a host, the dispatcher and the start of the system.  `pc` is the
program in a call, `isr` the handlers; handlers come between any two steps of the
program, the program not between two of theirs.  `in`, `out`, `n` and `left` are a
call's locals, read once and used after the buffer may have moved.  The waiting loops
compare a pointer with the copy; `host_inactive` is not volatile, and is read anew each
time only because the program is built without optimisation.  **CharPipe** is
one direction: in order, none lost, doubled or overwritten, at most its capacity
under way.

**FileTable** is the pool of descriptors: `dev` and `fd_flags` are the fields of
`alt_fd_list`, `alt_max_fd` the mark.  A call of a descriptor that is not open follows a
null pointer in the code, so that being open is a guard.  Facts of the code that the
model keeps: `alt_fd_lock` scans below the mark only and misses the highest descriptor,
while `alt_file_locked` includes it; the standard descriptors are never released and
closing one does not unlock it; a descriptor is released even if its driver's close
fails; a failed open leaves the mark where it was raised to.  `lseek` and `fstat` of
drivers, and file systems, do not exist here.

**Displays** holds `printSignedHex0`, `printSignedHex1`, `setLED` and `HexDriver` as
functions; a port is the set of its bits that are 1, so that the masks and shifts of
the code are set operations.  They are judged by a reader who knows the figures:
`ReportReadable` asks, in every state of `UsbHost` in which the loop shows a report, that
any two numbers can be read back over any previous picture.

**VgaTiming** is `VGA_controller.sv`: `clkdiv`, `hc`, `vc`, `hs`, `vs`.  `Clk` is one
cycle of the 50 MHz clock.  **FrameClock** is what the game relies on: one edge of
vs per frame, in blanking, and one more when a reset ends.

**Goomba** is `goomba`, `gsm` and `goombaPos` of `goomba.sv`, with the 10-bit
arithmetic and the signed comparisons of the code; whether Mario stomps it is an
input.  **Patrol** is the promise `Game` builds on: between two ends, a pixel per
frame, gone one frame after the stomp, back only when the reset is pressed, and still
while it is held.

**Animation** adds to the frames and the reset of `Goomba` the pictures: three divided
clocks, each driven by the one before, and the machines `dynamic_sprite` and
`dynamic_goomba`.  **Strides** is what they show: a counter of eight frames that only a
reset starts over.  The reset of `dynamic_sprite` is synchronous to a clock that the
reset holds low; the model therefore leaves `which_mario` alone.

**Motion** is the combinational block of `ball.sv`, an operator from the inputs
of a frame to its motion and events: the grid tests in the order of the code, a
later one overriding an earlier one, in the air and on the ground, for the small
and the grown Mario.  `grid_X` and `grid_Y` have 10 bits, and the places they put Mario
at use all of them; an index into the arrays keeps the low 5 or 6 (`Index`).  Where it
falls outside the arrays, `offGrid` says what is read.

**Game** holds the registers.  `Frame` is the rising edge of vs: position, jump
machine and Goomba.  `Sample` is a cycle of the 50 MHz clock: game state, mushroom
and growth, on whatever the keys are then; any number of samples, but at least
one, come between two frames.  The keys of a frame and of the samples before it
are chosen independently, so the model covers a key that changes in mid-frame.
`Reset` is the button; it leaves `jump_state` alone, because the reset of `jump.sv`
waits for a clock that stops while the button is down (that is what
`FrameClock` says of `Press`).  `Paint` is the beam: it passes the rows from the top to
the bottom, writes a row's cells into `grid` and `mushroom_grid` while the game is
played, and leaves out those that Mario covers all of.  Only rows where it makes a
difference are steps; a frame ends at the bottom, except on the start screen, where
the game may begin anywhere in the picture.  The cells themselves are a constant.
`PlainLevel` and `ClearStart` say what makes a level safe: no cell so high that a jump
reaches the top, an open pit, no cell for Mario to be pushed over an edge from, the
Goomba's patrol away from the pit and the mushroom, nothing where Mario starts.  Only
the proofs use them; `MCGame` has TLC check that the whole level of `Color_Mapper.sv`,
with the patrol of `goomba.sv`, is such a level (`WholeIsPlain`).

## 3. Runs

| Run | States | What it shows |
|---|---|---|
| `usb` | 530,004 | the loop serves what is in the port and with the right driver, `PortService`, a lost device is noticed, enumeration ends; the displays after a report |
| `usb_OnlyServicedCleared` | violation | a change between probe and acknowledgement is lost |
| `transfer` | 1,761,901 | descriptors exact, reports in order and all of them, over a bus that loses and damages packets, across re-plugs |
| `mouse_NakMeansNoNewData` | violation | a poll that has read a report ends with hrNAK |
| `spi` | 35,624 | every access is one of `RegisterPort`, and ends |
| `clock` | 126,243 | alarms on their tick across the roll-over, no wait cut short, the settle time ends, the time of day kept |
| `jtag` | 243,441 | both pipes, nothing stuck, calls return, the system comes up served |
| `files` | 33,148 | no descriptor lost, locks exclusive, standard streams on the UART |
| `vga_timing` | 840,002, the real frame | blanking, `FrameClock` with its liveness |
| `goomba_patrol` | 67,114, the real Goomba | keeps walking, `Patrol`; the pictures, `Strides` |
| `game_level` | 123,917 | Mario in the left fifth of the level, painted by the beam |
| `game_goomba` | 116,920 | Mario, the Goomba, the mushroom and the princess in a pen |

**Bounds.**

* `UsbHost` has no artificial bound: three device kinds (a full-speed keyboard, a
  low-speed mouse, a disk nobody claims), both speeds, the port also empty or with a
  bad line, and two user addresses, so that the search for a free one can run out.
* `Transfer`: limits of 2 attempts, so that one retry and the last one both happen; a
  descriptor of 2 packets, so that one follows another; 3 reports, enough for one in
  the device, one in the chip and one shown (2 where answers may be late, and no new ones
  while `stale` says that an answer to a request may still come).  The passing run has full packets of 8
  bytes, as a keyboard's; the violation takes packets of 4, filled.
* `Spi`: bytes 0 and 1, at most 3 bytes read, packets and set-up data of 1 to 3 bytes:
  an empty FIFO, one that is read in part and one that is read out.
* `SystemClock`: words of 16, so that the counter rolls over within the longest alarm
  (`Waits` reaches the largest number of ticks there is), 3 ticks and 3 milliseconds to
  the second, two alarms, periods of 0 (the alarm ends), 1 and 15 (once round).
* `JtagUart`: a ring of 3 cells, FIFOs of 2, calls of up to 3 characters, so that a call
  does not fit the buffer; `Starts` splits the characters between the two directions;
  `IntMax` is 4 and the time-out 2 seconds.
* `FileTable`: three descriptors beyond the standard ones, two devices.
* `VgaTiming` and `Goomba` run with the real parameters.
* `Game`: the level is 640 pixels wide in the code, too many positions for exhaustive
  search together with the rest; the modules take their edges and their cells as
  parameters, and the runs use worlds that hold one of each thing: steps of one and two
  blocks, a platform, the mushroom, the floor and the pit (`game_level`: the real cells
  and the real edge at 3, the right edge moved to 191); a Goomba with a patrol of two
  pixels, a block, the mushroom and the princess (`game_goomba`).  `NotOver` stops Mario
  at the game-over screen, where nothing he does is seen.  `KeyPairs` leaves out keys with
  no effect and pairs that repeat another.  Reads outside the arrays give 0.  That the
  parts of the level stand for the whole of it is proved (section 5).

**What the passing runs say that a test would hardly reach.**  The class cached in
`device` never goes stale although nothing renews it within a session
(`PollsWithItsDriver`); the record an interrupted enumeration leaves is never served
(`RunningMeansReachable`); the two toggles never lock up, whatever is lost
(`ReportsArrive`), and the answer to a poll that comes after the time-out never brings an
older report back (`NeverBack`), though one may then be shown twice or lost; an alarm due in
the tick of the roll-over runs in that tick (`AlarmSpec`); a character never waits in a
buffer for an interrupt that is off (`Drains`, `RxOpen`) although the handler switches it
off between any two steps of the call that fills the buffer; a lock is exclusive
(`OneLock`) although the scan of `alt_fd_lock` misses a descriptor; one token, passed
between the credit, the core and the chip, keeps every byte of an access in its place
(`PortSpec`); sideways collisions, which move Mario by up to 16 pixels with no look at
the edges, never push him out (`InWorld`); a Mario who grows has his feet in the ground
until the next edge and not longer (`FeetOnFloor`); a stomped Goomba, whose body is still
there for a frame, does not end the game on any keys (`StompIsSafe`), which rests on
the body being gone before Mario lands; the Goomba's test is near Mario's head, which
leaves the grown one immune (`GrownIsImmune`); the level is empty when the game starts
and half painted in its first frame, but Mario moves as if it were there
(`PaintedInTime`); a reset leaves Mario's legs in mid-run, and he stands within eight
frames (`StandsAtRest`).

**What the violations say.**  HIRQ is acknowledged after the bus was looked at, so a
change in between is lost and an empty port keeps being enumerated (`MAX3421E.c:268`).
A report that fills a packet shorter than the 8 bytes `mousePoll` asks for does not
complete the transfer: another packet is asked for, NAKs follow, and the poll returns
hrNAK, which `main.c` takes for "no new data", although a report was read; its toggle
is not saved either, so the next report is dropped (`transfer.c:217`).

**Seen on the way and not claimed.**  `rHIRQ | bmFRAMEIRQ` is never zero, so that the
wait for a frame in `USB_Task` is none (`transfer.c:298`).  `usb_task_state++` comes after
the probe and can land on another state than WAIT_RESET (`MAX3421E.c:264`).  The vertical
pulse lies on lines 489 and 490; `VGA_controller.sv:98` names 490 and 491.  A settle time
whose end falls into the last millisecond before the 32-bit milliseconds wrap is waited
for until some later wrap misses it; `SettleEnds` is stated for the others, and says that
the wait ends, not how soon: the program has to look at the clock in time.
After a request that timed out the chip is not initialised (`main.c:222` does so only when
the running state is left): an answer that comes still, or the packet it has put into the
FIFO, is taken by the next session for its own, and the descriptor read there can be
wrong.  It takes a chip that is silent for five seconds and then answers, so that the
properties of the data are stated for sessions without such an answer (`stale`).
`settimeofday` multiplies in 32 bits where `gettimeofday` does in 64, so `DayIsKept` is
stated for as long as the product fits.  -128 has no magnitude in a signed byte and is
left out of `Numbers`; a boot mouse does not report it.  `altera_avalon_jtag_uart_write`
of no characters returns an error.  Mario may overlap a block: a small Mario beside a
stack of two by a pixel, and a grown one in the air because his middle row is tested
only on the ground.  With other values than 0 outside the arrays he can hang in the
pit, where the play then never ends (TLC shows it, with `OffGrid` at `SUBSET {"grid"}`,
against `FallEndsPlay`), or be pushed out of the picture; the properties of the game
are therefore checked for 0, what a row of constant zeros reads as.

## 4. Fairness

* `UsbHost`: the loop has no blocking call in the model, so a program step is always
  taken eventually; a bus reset ends (the chip times it), a frame is started every
  millisecond, the settle time passes.  Nothing is assumed of the user but, in
  `EnumerationEnds`, that he leaves the port alone from some time on.  Nothing is
  assumed of transfers: `EnumerationEnds` allows them all to fail, and an error is an
  end.  A transfer ends because the code gives it a time-out.
* `Transfer`: the program runs (`WF` of `Host`) and the chip ends what it has been given
  (`WF` of `Bus`).  `ReportsArrive` needs the bus to work now and then: a device that
  can send a report again and again gets one through and acknowledged (`SF`).  An
  enumeration that fails is an end, because the code waits for a re-plug there.
* `Spi`: the processor runs a call (`WF` of `Driver`), the core shifts (`WF` of `Hardware`).
* `SystemClock`: the timer ticks and a tick is processed to its end (`WF`).  A wait is
  over only while the clock shows certain values, and the loop looks at it far more
  often than it ticks: `SF` of `Expire`.
* `JtagUart`: handlers run first, and end because each moves what is there (`WF` of
  `Handle`); the program runs again and again between interrupts, though no step of it
  stays enabled through them (`SF`); seconds pass.  The host owes nothing.
* `VgaTiming`: the oscillator runs while the button is up.  `Goomba` and `Animation`: vs
  rises again and again, which is what `FrameClock` provides.
* `FileTable` and `Game` claim no liveness.

## 5. Proofs

TLAPS checks these for every value of the constants.  The type invariant `TypeOK` of
each module that has one is proved, and no run repeats it; nor does one repeat the
invariants that a property of a run rests on and that are proved here: `LedShowsRunning`,
`PulseShape`, `StaysBetweenBlocks`, `NoOverrun`, `Quiet`, `TxKicked`, `BelowMark`,
`LockHolds`, `StaysOpened`.

* **UsbHost_proof.** Assumption: at least two addresses, any set of devices with any
  classes and speeds.  Proved: `TypeOK`, `EndpointsPresent`, `PollsWithItsDriver`,
  `RunningMeansReachable`, `FramesBeforeTraffic`, `LedShowsRunning`, and that each step
  is a step of `PortService` or a stutter.  None is inductive: what main may do
  depends on how far a lost device has been noticed.  `IInv` adds which task states
  each program point allows (`ControlInv`), that the latch is empty outside the
  handler and no bus event is pending while its bus reset runs (`LatchInv`), that
  frames are on in every attached state (`FrameInv`), and that addresses are given
  out in order, the last of them to the device being configured or served
  (`TableInv`).
  `ReportReadable` too, for all numbers from -127 to 127 over any contents of both ports:
  a digit's bits come back from the port they are shifted into, the other digits and
  the LEDs of the loop stay.
  `EnumerationAdvances`: where a bus reset raises CONDETIRQ no later than at its start, the
  enumeration of a device that is left alone only goes forward.  `Rank` counts a change
  that waits to be noticed, a re-initialisation and the states still to come, `Steps` the
  program's steps to the next of these; each step lowers one of them, unless it waits for
  the settle time or the bus reset.  A reset that raises CONDETIRQ at its end can send the
  enumeration back without anybody touching the port: there TLC refutes the formula.
* **Spi_proof.** Assumption: bytes are bytes.  Proved: `TypeOK`, `NoOverrun`, `Quiet`, and
  that every step is one of `RegisterPort`.  The invariant counts: there is one token,
  which is the credit, the byte in TXDATA, the byte on the wire or the byte to fetch
  (`OneToken`); with it goes how many bytes of the call are at which place
  (`Counted`), that the chip knows the command once the first has passed (`Commanded`),
  which byte is on its way (`Carried`), and how far each point of the loop is (`Progress`).
  `AccessAdvances` and `NeverStuck`: the hand-overs that the bytes of the access still need,
  and the steps to the next of them (`Left`), go down with each step of the loop and of the
  core, and the loop never waits without a byte under way.
* **FileTable_proof.** Assumption: more than three descriptors.  Proved: `NoLeak`,
  `OneLock`, `StdioWorks`, and that the mark is one (`BelowMark`), that nobody is given a
  locked device (`LockHolds`) and that a descriptor stays what it was opened for
  (`StaysOpened`).  `OneLock` is the hard one, because the scan
  misses the highest descriptor; what keeps a second lock out is that a locked
  descriptor that shares its device is below the mark (`LockedLow`).
* **JtagUart_proof.** Assumption: a buffer of at least two cells, FIFOs of any depth.
  Proved: `TypeOK`, `TxKicked`, `RxOpen`, `Served`, and that both directions are pipes
  (`TxPipe`, `RxPipe`).  `TxKicked` and `RxOpen` are not
  inductive alone: the handler switches an interrupt off on what it read before, so the
  invariant says that characters are left in the UART only if the buffer is full
  (`LeftIfFull`), that the buffer is empty while the system comes up (`BootEmpty`), and
  that a line is enabled only with its handler (`Lined`).  For the pipes, `PipeInv` says
  what a call may rely on while handlers come between its steps: the room `write` has
  found stays free and the characters it has copied stay copied (`WriteHolds`), and the
  characters `read` has found stay where they are (`ReadHolds`).  The rest is about
  rings: what `Ring` is after a pointer has moved or a cell outside it has changed.
  `HandlersReturn`: the dispatcher loops while an interrupt is pending, and a fast host
  makes new ones, but each step of the handlers lowers `Load`, which is at most
  18 * BufLen + 26: they only send what is in the one buffer and fill up the other, and an
  interrupt that finds nothing to do is switched off (`ServiceInv`).
* **Transfer_proof.** Any limits, packet sizes, numbers of packets and reports.  Proved:
  `TypeOK`, `DescriptorExact`, `NeverBack`, and `ReportsInOrder` where a report ends its
  transfer (`OneReport`: it does not fill its packet, or is as long as what the poll
  asks for).  A keyboard's reports do; a mouse whose reports fill packets of 4 bytes
  does not, and is the run `mouse_NakMeansNoNewData`.  The heart of the invariant is
  the agreement of toggles: whichever packet is under way, the device is at the next
  one if its toggle is the chip's, and still at the last one if it is not, so that a
  packet sent again is told from a new one; the rest follows a packet from the device
  through the FIFO to the buffer and the key registers.  `Own` says that the answer under
  way is to the token in hand, which a request that was given up breaks (`stale`): the
  invariant then keeps only the types and the control, until the chip is initialised.
  `TransferAdvances`: each step of the host ends the transfer or brings its end nearer.
  What goes down, in this order, is its stage, the packets it may still read, the NAKs and
  time-outs it still bears (`nak_count` and `retry_count` each count alone, and together
  bound the tries of a packet) and the accesses of one try; `Within` bounds them.
* **Clocks_proof.** *SystemClock*: any word and rates, with room for the milliseconds of
  a wait (the code's 2^32 has).  Proved: `OncePerTick`, `DayIsKept`, `NeverCutShort`, and the
  safety part of `AlarmClock`.  The day is arithmetic: a second is a whole number of
  ticks.  The waits compare milliseconds that wrap at another place than the ticks; the
  invariant bounds the phase by what has passed.  The alarms are the hard ones: the
  linked list is one ring, which is numbered in the order in which `alt_tick` meets its
  alarms, and every alarm before the one it looks at, or before the one it has noted
  while a callback runs, has had its turn.  `OncePerTick`: no alarm is looked at twice in a
  tick, although a callback may start others or its own again; new ones become the first,
  behind the walk, so that the alarms still to come (`ToCome`) only get fewer.
  *VgaTiming*: a line does not end inside its own sync pulse and a frame has at least 492 lines.  Proved: `TypeOK`, `PulseShape`,
  `TicksInBlanking` and the safety part of `FrameClock`.  `PulseShape` is made
  inductive by knowing what the registers hold under reset (`HeldAtZero`); blanking
  follows from it.
* **Goomba_proof.** Assumption: the patrol is clear of the edges.  Proved: `TypeOK`,
  `StaysBetweenBlocks` for a start from 433 to 464 (the code's is 448), and `Patrol`.  The
  invariant ties the position to the state and counter of `gsm`: without the tie
  no bound on the position is inductive.
  *Animation*, which needs no assumption: `StandsAtRest` and `Strides`; while Mario
  runs, the frames he has been idle and the frames to the next stride are at most
  seven.  The animated Goomba still implements `Patrol`.
* **Game_proof.** Assumption: Mario starts inside the picture and not over the pit.  For
  any level, any keys, any value read outside the arrays: `TypeOK`, `FallSeen` (the
  first part of `FallEndsPlay`), `StaleJumpIsHarmless`.  The types need that every
  correction of a motion is an integer before it is cut to 10 bits, lemma by lemma
  through `Motion`; the other two rest on Mario's place before the start (`AtStart`), with
  his feet a cell below the floor if he has grown there.
  For any level that is plain (`PlainLevel`): `InWorld`, `FeetOnFloor`, `FallEndsPlay`,
  `StompIsSafe`, `GrownIsImmune`.  The lemmas take `Motion` through a frame: which cells the corners
  are in, which of the tests that override one another decides, and where that puts
  Mario; 10-bit sums are told from sums that wrap.  The invariant (`LevelInv`) bounds
  what a frame can start from.  A jump of n frames has taken Mario at most 10 n pixels
  up from where he stood, and nothing he stands on is near the top (`WayInv`); his feet
  are at the floor or above, over the pit, or in the ground beside the mushroom that he
  has just eaten (`PlaceInv`); a stomp leaves his head above the Goomba's
  (`StompInv`); and a Mario in the pit is past the top of his jump (`PitInv`), because he
  comes there only by falling, and stays in the air.  `FallEndsPlay` needs the last: the
  jump machine could otherwise still take him up, or nowhere.  `GrownIsImmune` then is geometry: his head is at the Goomba's height
  only where the Goomba never walks.
  For any level that is clear where Mario starts (`ClearStart`): `PaintedInTime`.  The
  level is incomplete only before his first step and in the frame after it (`PaintInv`),
  and there none of his corners is in a cell.

The measures of the last sections of `UsbHost_proof`, `Spi_proof`, `JtagUart_proof` and
`Transfer_proof`, and `OncePerTick`, are the part of liveness that can be proved: how far a
part is from its end is bounded, goes down with each of its own steps and is never put off
by the others.  That these steps are taken is fairness, and stays with the runs.  The
formulas of these sections are no properties of a run: TLC was used to find them, on the
instances of the runs.

Model-checked only is liveness: `LostDeviceNoticed`, `EnumerationEnds`, `ReportsArrive`,
`AccessEnds`, `SettleEnds`, `CallsReturn`, `Drains`, `KeepsPatrolling`, the fairness in
`PortService`, `AlarmClock` and `FrameClock`.  It rests on ENABLED, which the provers do not
reach.

## 6. Not modelled

* The sprite memories (`ram.sv`) are read-only tables; the choice of a colour for a pixel
  and the direction Mario faces are data that come back to nothing.
* The generated system on chip: interconnect and processor are not in the repository
  as source; `system.h` and the register headers are constants.
* The rest of the HAL.  Most of what the repository carries of it is not part of the
  program: headers of masks, and code that is not compiled in or never called (logging,
  profiling, DMA, flash, caches, environment and process calls).  It makes up well over
  half of the C code, so that a map of what runs stays far from covering all of it.
* The console's text, and the C library that formats it.
* The oscillator of the chip: `MAX3421E_reset` waits for it without a way out, though its
  comment promises one (`MAX3421E.c:151`); the models take the chip's reset for granted.
