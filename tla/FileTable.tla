----------------------------- MODULE FileTable ------------------------------
(***************************************************************************)
(* The file descriptors of the HAL: the pool alt_fd_list with its high     *)
(* water mark alt_max_fd, the devices registered with it, the redirection  *)
(* of standard input, output and error from alt_dev_null to the JTAG UART  *)
(* when the system comes up, and the calls on descriptors.  No file    *)
(* system is registered in this system and the program has one thread, so  *)
(* that the semaphores are empty.                                          *)
(*                                                                         *)
(* The program uses only descriptors that are open: standard ones, and     *)
(* those that open has returned and that it has not closed.                *)
(***************************************************************************)
EXTENDS Integers

CONSTANTS
  ALT_MAX_FD,
  Devices,          \* the devices whose drivers the system has
  NullDev, Uart,    \* alt_dev_null, and the device of the standard descriptors
  None,             \* no device: a free descriptor
  Opens             \* the flags open and fcntl are called with

Flags == {"WRONLY", "RDWR", "NONBLOCK", "APPEND", "EXCL", "DEV"}
Private == {"EXCL", "DEV"}              \* ALT_FD_FLAGS_MASK
Settable == {"NONBLOCK", "APPEND"}      \* ALT_FCNTL_FLAGS_MASK

ASSUME FileTableAssumption ==
  /\ ALT_MAX_FD \in Nat /\ ALT_MAX_FD > 3
  /\ {NullDev, Uart} \subseteq Devices /\ NullDev # Uart
  /\ None \notin Devices
  /\ Opens \subseteq SUBSET Flags

Fds == 0 .. ALT_MAX_FD - 1
Standard == 0 .. 2                       \* STDIN_FILENO, STDOUT_FILENO, STDERR_FILENO

VARIABLES
  registered,        \* the devices in alt_dev_list
  dev, fd_flags,     \* the fields of alt_fd_list's entries
  alt_max_fd,
  boot,              \* the standard descriptor that is redirected next; 3 when main runs
  opened             \* history: the descriptors the program holds, as it has opened them
vars == <<registered, dev, fd_flags, alt_max_fd, boot, opened>>

Booted == boot = 3
held == DOMAIN opened
Usable == Standard \union held
----------------------------------------------------------------------------
(* The pool *)

Free == {i \in Fds : dev[i] = None}

\* The descriptor alt_get_fd takes.
Lowest(i) == i \in Free /\ \A j \in Free : i <= j

\* The high water mark once descriptor i is allocated.
Mark(i) == IF i > alt_max_fd THEN i ELSE alt_max_fd

\* alt_file_locked, asked for a descriptor that is just being opened.
alt_file_locked(d, self) ==
  \E i \in Fds : i <= Mark(self) /\ i # self /\ dev[i] = d /\ "EXCL" \in fd_flags[i]

\* Mutant: nothing is released.
ReleaseNothing(fd) == UNCHANGED <<dev, fd_flags>>

\* alt_release_fd keeps the standard descriptors.
alt_release_fd(fd) ==
  IF fd > 2
  THEN /\ dev' = [dev EXCEPT ![fd] = None]
       /\ fd_flags' = [fd_flags EXCEPT ![fd] = {}]
  ELSE UNCHANGED <<dev, fd_flags>>

alt_find_dev(d) == d \in registered
Access(flags) == flags \intersect {"WRONLY", "RDWR"}

\* A device that is registered is opened, if a descriptor is free; of a call that
\* fails because the device is locked the mark remains.
open(d, flags) ==
  /\ Booted
  /\ alt_find_dev(d)
  /\ \E fd \in Fds :
       /\ Lowest(fd)
       /\ alt_max_fd' = Mark(fd)
       /\ IF alt_file_locked(d, fd)
          THEN alt_release_fd(fd) /\ UNCHANGED opened
          ELSE /\ dev' = [dev EXCEPT ![fd] = d]
               /\ fd_flags' = [fd_flags EXCEPT ![fd] = (flags \ Private) \union {"DEV"}]
               /\ opened' = [i \in held \union {fd} |->
                              IF i = fd THEN [dev |-> d, access |-> Access(flags)] ELSE opened[i]]
  /\ UNCHANGED <<registered, boot>>

\* The driver's close may fail; the descriptor is released all the same, unless it is
\* a standard one.
close(fd) ==
  /\ Booted
  /\ fd \in Usable
  /\ alt_release_fd(fd)
  /\ opened' = [i \in held \ {fd} |-> opened[i]]
  /\ UNCHANGED <<registered, alt_max_fd, boot>>

\* Mutant: one more descriptor is left out.
InUseShort(fd) == \E i \in Fds : i < alt_max_fd - 1 /\ i # fd /\ dev[i] = dev[fd]

\* alt_fd_lock looks for another descriptor of the same device.
InUse(fd) == \E i \in Fds : i < alt_max_fd /\ i # fd /\ dev[i] = dev[fd]

\* ioctl with TIOCEXCL.
alt_fd_lock(fd) ==
  /\ Booted
  /\ fd \in Usable
  /\ "DEV" \in fd_flags[fd]
  /\ ~InUse(fd)
  /\ fd_flags' = [fd_flags EXCEPT ![fd] = @ \union {"EXCL"}]
  /\ UNCHANGED <<registered, dev, alt_max_fd, boot, opened>>

\* ioctl with TIOCNXCL.
alt_fd_unlock(fd) ==
  /\ Booted
  /\ fd \in Usable
  /\ "DEV" \in fd_flags[fd]
  /\ fd_flags' = [fd_flags EXCEPT ![fd] = @ \ {"EXCL"}]
  /\ UNCHANGED <<registered, dev, alt_max_fd, boot, opened>>

\* Mutant: all flags are replaced.
SetAll(old, flags) == flags

\* What F_SETFL leaves and what it sets.
SetFlags(old, flags) == (old \ Settable) \union (flags \intersect Settable)

fcntl(fd, flags) ==
  /\ Booted
  /\ fd \in Usable
  /\ fd_flags' = [fd_flags EXCEPT ![fd] = SetFlags(@, flags)]
  /\ UNCHANGED <<registered, dev, alt_max_fd, boot, opened>>
\* The operations a driver has.
Provides(d) == IF d = NullDev THEN {"write"} ELSE {"close", "read", "write", "ioctl"}

\* The device a call of read or write reaches.
alt_read(fd) ==
  IF "WRONLY" \notin fd_flags[fd] /\ "read" \in Provides(dev[fd]) THEN dev[fd] ELSE "EACCES"
alt_write(fd) ==
  IF Access(fd_flags[fd]) # {} /\ "write" \in Provides(dev[fd]) THEN dev[fd] ELSE "EACCES"

\* A request of ioctl for the driver: any but those that lock a device.
alt_ioctl(fd) == IF "ioctl" \in Provides(dev[fd]) THEN dev[fd] ELSE "ENOTTY"

\* A driver without fstat is a terminal's.
alt_fstat(fd) == IF "fstat" \in Provides(dev[fd]) THEN dev[fd] ELSE "_IFCHR"
alt_isatty(fd) == "fstat" \notin Provides(dev[fd]) \/ alt_fstat(fd) = "_IFCHR"
----------------------------------------------------------------------------
(* The system comes up *)

\* alt_sys_init registers the drivers' devices.
alt_dev_reg ==
  /\ registered = {NullDev}
  /\ registered' = Devices
  /\ UNCHANGED <<dev, fd_flags, alt_max_fd, boot, opened>>

\* stdout first, then stdin, then stderr.
Redirected == <<1, 0, 2>>
AccessOf(fd) == IF fd = 0 THEN {} ELSE {"WRONLY"}

\* alt_open_fd: the device is opened, its descriptor copied and released again.
alt_open_fd ==
  /\ ~Booted
  /\ registered = Devices
  /\ LET fd == Redirected[boot + 1]
     IN  /\ dev' = [dev EXCEPT ![fd] = Uart]
         /\ fd_flags' = [fd_flags EXCEPT ![fd] = AccessOf(fd) \union {"DEV"}]
  /\ \E new \in Fds : Lowest(new) /\ alt_max_fd' = Mark(new)
  /\ boot' = boot + 1
  /\ UNCHANGED <<registered, opened>>
----------------------------------------------------------------------------
Init ==
  /\ registered = {NullDev}
  /\ dev = [i \in Fds |-> IF i \in Standard THEN NullDev ELSE None]
  /\ fd_flags = [i \in Fds |-> {}]
  /\ alt_max_fd = -1
  /\ boot = 0 /\ opened = [i \in {} |-> 0]

Next ==
  \/ alt_dev_reg \/ alt_open_fd
  \/ \E d \in Devices, flags \in Opens : open(d, flags)
  \/ \E fd \in Fds : close(fd) \/ alt_fd_lock(fd) \/ alt_fd_unlock(fd)
  \/ \E fd \in Fds, flags \in Opens : fcntl(fd, flags)

Spec == Init /\ [][Next]_vars
----------------------------------------------------------------------------
(* Properties *)

TypeOK ==
  /\ registered \subseteq Devices
  /\ dev \in [Fds -> Devices \union {None}]
  /\ fd_flags \in [Fds -> SUBSET Flags]
  /\ alt_max_fd \in -1 .. ALT_MAX_FD - 1
  /\ boot \in 0 .. 3 /\ held \subseteq Fds
  /\ opened \in [held -> [dev : Devices, access : SUBSET {"WRONLY", "RDWR"}]]

\* No descriptor is lost and none is given out twice: those in use beyond the
\* standard ones are the ones the program holds, failed opens included.
NoLeak == {i \in Fds : dev[i] # None} = Standard \union held

\* The high water mark is one: the scans for locks stop at it.
BelowMark == \A i \in held : i <= alt_max_fd

\* While a descriptor has its device to itself, open gives the device to nobody else.
LockHolds ==
  [][\A i, j \in Fds : "EXCL" \in fd_flags[i] /\ dev'[j] = dev[i] /\ j # i => dev[j] = dev[i]]_vars

\* A device is never locked by two descriptors.
OneLock ==
  \A i, j \in Fds : "EXCL" \in fd_flags[i] /\ "EXCL" \in fd_flags[j] /\ dev[i] = dev[j] => i = j

\* When main runs, what it prints goes to the UART, what it reads comes from there, a timeout
\* it asks for is the UART's, and all three are terminals, whatever it opens, closes, locks or sets.
StdioWorks ==
  Booted => /\ alt_write(1) = Uart /\ alt_write(2) = Uart /\ alt_read(0) = Uart
            /\ \A fd \in Standard : alt_ioctl(fd) = Uart /\ alt_isatty(fd)

\* A descriptor that open has returned stays what it was opened for until it is closed: it
\* leads to that device, for reading or writing as was asked.
StaysOpened ==
  \A fd \in held :
    LET o == opened[fd]
    IN  /\ alt_write(fd) = IF o.access = {} THEN "EACCES" ELSE o.dev
        /\ alt_read(fd) = IF "WRONLY" \in o.access \/ o.dev = NullDev THEN "EACCES" ELSE o.dev
=============================================================================
