-------------------------- MODULE FileTable_proof ---------------------------
(***************************************************************************)
(* Proofs about the file descriptors, for a pool of any size and any set   *)
(* of devices.  The one that is not obvious is OneLock: the scan of        *)
(* alt_fd_lock misses the highest descriptor, so that a device can be      *)
(* locked while that one has it too; what still keeps a second lock out is *)
(* that a locked descriptor which shares its device is below the mark.     *)
(***************************************************************************)
EXTENDS FileTable, TLAPS

Redirection == 1 .. boot
Opened(fd) == \E k \in Redirection : Redirected[k] = fd

\* The standard descriptors are redirected in turn, and nothing else happens before that is done.
Booting ==
  /\ boot > 0 => alt_max_fd >= 3
  /\ ~Booted => held = {}
  /\ \A fd \in Standard :
       IF Opened(fd)
       THEN dev[fd] = Uart /\ Access(fd_flags[fd]) = AccessOf(fd)
       ELSE dev[fd] = NullDev
  /\ ~Booted => \A fd \in Fds : "EXCL" \notin fd_flags[fd]

\* A free descriptor has no flags left; a held one is what it was opened for.
Clean == \A fd \in Fds : dev[fd] = None => fd_flags[fd] = {}
Kept == \A fd \in held :
          fd \notin Standard /\ dev[fd] = opened[fd].dev /\ Access(fd_flags[fd]) = opened[fd].access

\* What a lock knows of the descriptors that share its device.
LockedLow ==
  \A i, j \in Fds : "EXCL" \in fd_flags[i] /\ dev[i] = dev[j] /\ i # j => i < alt_max_fd
LockedBelow == \A i \in Fds : "EXCL" \in fd_flags[i] => i <= alt_max_fd

Inv == /\ TypeOK /\ NoLeak /\ BelowMark /\ OneLock
       /\ Booting /\ Clean /\ Kept /\ LockedLow /\ LockedBelow
-----------------------------------------------------------------------------
\* Setting flags changes neither the access mode nor the private flags.
LEMMA FlagsKept ==
  ASSUME NEW old \in SUBSET Flags, NEW flags \in SUBSET Flags
  PROVE  /\ SetFlags(old, flags) \in SUBSET Flags
         /\ Access(SetFlags(old, flags)) = Access(old)
         /\ "EXCL" \in SetFlags(old, flags) <=> "EXCL" \in old
BY DEF SetFlags, Access, Settable, Flags

\* The flags of a descriptor that is opened: what was asked for, but no lock.
LEMMA FlagsOpened ==
  ASSUME NEW flags \in SUBSET Flags
  PROVE  /\ (flags \ Private) \union {"DEV"} \in SUBSET Flags
         /\ Access((flags \ Private) \union {"DEV"}) = Access(flags)
         /\ Access(flags) \in SUBSET {"WRONLY", "RDWR"}
         /\ "EXCL" \notin (flags \ Private) \union {"DEV"}
BY DEF Access, Private, Flags

\* The new high water mark.
LEMMA MarkBounds ==
  ASSUME FileTableAssumption, alt_max_fd \in -1 .. ALT_MAX_FD - 1, NEW fd \in Fds
  PROVE  /\ Mark(fd) \in -1 .. ALT_MAX_FD - 1 /\ Mark(fd) >= fd /\ Mark(fd) >= alt_max_fd
BY DEF Mark, Fds, FileTableAssumption

\* The devices of free and of usable descriptors.
LEMMA InUseOrFree ==
  ASSUME FileTableAssumption, Inv
  PROVE  /\ Standard \subseteq Fds
         /\ \A fd \in Usable : fd \in Fds /\ dev[fd] # None
         /\ \A fd \in Fds : dev[fd] = None => fd \notin Usable /\ fd >= 3
         /\ Booted => \A fd \in Usable : fd <= alt_max_fd
<1>1. Standard \subseteq Fds
  BY DEF Standard, Fds, FileTableAssumption
<1>2. \A fd \in Usable : fd \in Fds /\ dev[fd] # None
  BY DEF Inv, NoLeak, Usable
<1>3. \A fd \in Fds : dev[fd] = None => fd \notin Usable /\ fd >= 3
  BY <1>2 DEF Usable, Standard, Fds
<1>4. Booted => \A fd \in Usable : fd <= alt_max_fd
  BY DEF Inv, TypeOK, Booted, Booting, BelowMark, Usable, Standard
<1> QED BY <1>1, <1>2, <1>3, <1>4
-----------------------------------------------------------------------------
\* The table starts with the standard descriptors on the UART.
LEMMA InitInv == FileTableAssumption /\ Init => Inv
<1> SUFFICES ASSUME FileTableAssumption, Init PROVE Inv
  OBVIOUS
<1>1. held = {} /\ boot = 0 /\ ~Booted
  BY DEF Init, held, Booted
<1>2. Standard \subseteq Fds
  BY DEF Standard, Fds, FileTableAssumption
<1>3. TypeOK
  BY <1>1, <1>2 DEF Init, TypeOK, FileTableAssumption, Flags
<1>4. NoLeak
  BY <1>1, <1>2 DEF Init, NoLeak, FileTableAssumption
<1>5. Booting
  <2>1. \A fd \in Standard : ~Opened(fd) /\ dev[fd] = NullDev
    BY <1>1, <1>2 DEF Init, Opened, Redirection
  <2> QED BY <1>1, <2>1 DEF Init, Booting
<1> QED BY <1>1, <1>3, <1>4, <1>5
        DEF Init, Inv, BelowMark, OneLock, Clean, Kept, LockedLow, LockedBelow

\* A device is registered, or nothing happens.
LEMMA RegisterInv ==
  ASSUME FileTableAssumption, Inv, alt_dev_reg \/ UNCHANGED vars
  PROVE  Inv' /\ UNCHANGED <<dev, fd_flags>>
<1>1. /\ UNCHANGED <<dev, fd_flags, alt_max_fd, boot, opened>>
      /\ registered' \subseteq Devices
  BY DEF alt_dev_reg, vars, Inv, TypeOK
<1>2. UNCHANGED <<held, Booted, Redirection>> /\ \A fd : Opened(fd)' = Opened(fd)
  BY <1>1 DEF held, Booted, Redirection, Opened
<1>3. TypeOK'
  BY <1>1, <1>2 DEF Inv, TypeOK
<1> QED BY <1>1, <1>2, <1>3
        DEF Inv, NoLeak, BelowMark, OneLock, Booting, Clean, Kept, LockedLow, LockedBelow, Access

\* A standard descriptor is redirected.
LEMMA RedirectInv ==
  ASSUME FileTableAssumption, Inv, alt_open_fd
  PROVE  Inv'
<1>1. boot \in 0 .. 2 /\ boot' = boot + 1
  BY DEF alt_open_fd, Inv, TypeOK, Booted
<1> DEFINE fd == Redirected[boot + 1]
<1>2. fd \in Standard /\ fd \in Fds
  BY <1>1, InUseOrFree DEF Redirected, Standard
<1>3. /\ dev' = [dev EXCEPT ![fd] = Uart]
      /\ fd_flags' = [fd_flags EXCEPT ![fd] = AccessOf(fd) \union {"DEV"}]
      /\ UNCHANGED <<registered, opened>>
  BY DEF alt_open_fd
<1> HIDE DEF fd
<1>4. held = {} /\ held' = {} /\ ~Booted
  BY <1>3 DEF alt_open_fd, Inv, Booting, held
<1>5. PICK new \in Fds : dev[new] = None /\ alt_max_fd' = Mark(new)
  BY DEF alt_open_fd, Lowest, Free
<1>6. alt_max_fd' \in -1 .. ALT_MAX_FD - 1 /\ alt_max_fd' >= 3
  <2>1. new >= 3 /\ new \in Int
    BY <1>5, InUseOrFree DEF Fds
  <2> QED BY <1>5, <2>1, MarkBounds DEF Inv, TypeOK
<1>7. /\ AccessOf(fd) \union {"DEV"} \in SUBSET Flags
      /\ Access(AccessOf(fd) \union {"DEV"}) = AccessOf(fd)
      /\ "EXCL" \notin AccessOf(fd) \union {"DEV"}
  BY DEF AccessOf, Access, Flags
<1>8. Uart \in Devices /\ Uart # None
  BY DEF FileTableAssumption
<1>9. TypeOK'
  <2>1. dev' \in [Fds -> Devices \union {None}] /\ fd_flags' \in [Fds -> SUBSET Flags]
    BY <1>2, <1>3, <1>7, <1>8 DEF Inv, TypeOK
  <2>2. boot' \in 0 .. 3
    BY <1>1
  <2> QED BY <1>3, <1>4, <1>6, <2>1, <2>2 DEF Inv, TypeOK
<1>10. NoLeak'
  BY <1>2, <1>3, <1>4, <1>8 DEF Inv, NoLeak, TypeOK
<1>11. \A i \in Fds : "EXCL" \notin fd_flags'[i]
  BY <1>2, <1>3, <1>4, <1>7 DEF Inv, TypeOK, Booting
<1>12. Booting'
  <2>1. \A i \in Standard : Opened(i)' <=> Opened(i) \/ i = fd
    <3>1. Redirection' = Redirection \union {boot + 1}
      BY <1>1 DEF Redirection
    <3> QED BY <3>1 DEF Opened, fd
  <2>2. ASSUME NEW i \in Standard
        PROVE  IF Opened(i)' THEN dev'[i] = Uart /\ Access(fd_flags'[i]) = AccessOf(i)
               ELSE dev'[i] = NullDev
    <3>1. i \in Fds
      BY InUseOrFree
    <3>2. CASE i = fd
      BY <1>2, <1>3, <1>7, <2>1, <3>1, <3>2 DEF Inv, TypeOK
    <3>3. CASE i # fd
      BY <1>2, <1>3, <2>1, <3>1, <3>3 DEF Inv, TypeOK, Booting
    <3> QED BY <3>2, <3>3
  <2> QED BY <1>4, <1>6, <1>11, <2>2 DEF Booting, Access
<1>13. Clean'
  BY <1>2, <1>3, <1>8 DEF Inv, TypeOK, Clean
<1> QED BY <1>4, <1>9, <1>10, <1>11, <1>12, <1>13
        DEF Inv, BelowMark, OneLock, Kept, LockedLow, LockedBelow

\* A descriptor is opened; the search for a lock sees every one there is.
LEMMA OpenInv ==
  ASSUME FileTableAssumption, Inv, NEW d \in Devices, NEW flags \in Opens, open(d, flags)
  PROVE  /\ Inv'
         /\ \A i, j \in Fds :
              "EXCL" \in fd_flags[i] /\ dev'[j] = dev[i] /\ j # i => dev[j] = dev[i]
<1>1. PICK fd \in Fds :
        /\ dev[fd] = None
        /\ alt_max_fd' = Mark(fd)
        /\ IF alt_file_locked(d, fd)
           THEN alt_release_fd(fd) /\ UNCHANGED opened
           ELSE /\ dev' = [dev EXCEPT ![fd] = d]
                /\ fd_flags' = [fd_flags EXCEPT ![fd] = (flags \ Private) \union {"DEV"}]
                /\ opened' = [i \in held \union {fd} |->
                               IF i = fd THEN [dev |-> d, access |-> Access(flags)] ELSE opened[i]]
  BY DEF open, Lowest, Free
<1>2. /\ UNCHANGED <<registered, boot>> /\ Booted /\ Booted'
      /\ \A i : Opened(i)' = Opened(i)
  BY DEF open, Booted, Opened, Redirection
<1>3. alt_max_fd' \in -1 .. ALT_MAX_FD - 1 /\ alt_max_fd' >= fd /\ alt_max_fd' >= alt_max_fd
  BY <1>1, MarkBounds DEF Inv, TypeOK
<1>4. fd \notin Usable /\ fd >= 3 /\ fd \notin Standard /\ Standard \subseteq Fds
  BY <1>1, InUseOrFree DEF Usable
<1>5. /\ alt_max_fd \in Int /\ alt_max_fd' \in Int /\ Fds \subseteq Int
      /\ held \subseteq Fds
  BY <1>3 DEF Inv, TypeOK, Fds
<1>6. CASE alt_file_locked(d, fd)
  <2>1. alt_release_fd(fd) /\ UNCHANGED opened
    BY <1>1, <1>6
  <2>2. dev' = [dev EXCEPT ![fd] = None] /\ fd_flags' = [fd_flags EXCEPT ![fd] = {}]
    BY <1>4, <1>5, <2>1 DEF alt_release_fd
  <2>3. dev' = dev /\ fd_flags' = fd_flags
    BY <1>1, <2>2 DEF Inv, TypeOK, Clean
  <2>4. UNCHANGED <<registered, boot, dev, fd_flags, held, opened>>
    BY <1>2, <2>1, <2>3 DEF held
  <2>5. TypeOK' /\ NoLeak' /\ OneLock' /\ Clean' /\ Kept'
    BY <1>3, <2>4 DEF Inv, TypeOK, NoLeak, OneLock, Clean, Kept
  <2>6. Booting'
    BY <1>2, <1>3, <1>5, <2>4 DEF Inv, Booting
  <2>7. BelowMark' /\ LockedLow' /\ LockedBelow'
    BY <1>3, <1>5, <2>4 DEF Inv, BelowMark, LockedLow, LockedBelow
  <2> QED BY <2>3, <2>5, <2>6, <2>7 DEF Inv
<1>7. CASE ~alt_file_locked(d, fd)
  <2> DEFINE F == (flags \ Private) \union {"DEV"}
  <2>1. /\ dev' = [dev EXCEPT ![fd] = d]
        /\ fd_flags' = [fd_flags EXCEPT ![fd] = F]
        /\ opened' = [i \in held \union {fd} |->
                        IF i = fd THEN [dev |-> d, access |-> Access(flags)] ELSE opened[i]]
    BY <1>1, <1>7
  <2>2. flags \in SUBSET Flags
    BY DEF FileTableAssumption
  <2>3. F \in SUBSET Flags /\ Access(F) = Access(flags) /\ "EXCL" \notin F
        /\ Access(flags) \in SUBSET {"WRONLY", "RDWR"}
    BY <2>2, FlagsOpened
  <2> HIDE DEF F
  <2>4. held' = held \union {fd}
    BY <2>1 DEF held
  <2>5. /\ dev'[fd] = d /\ fd_flags'[fd] = F /\ d # None
        /\ opened'[fd] = [dev |-> d, access |-> Access(flags)]
        /\ \A i \in Fds \ {fd} : dev'[i] = dev[i] /\ fd_flags'[i] = fd_flags[i]
        /\ \A i \in held : opened'[i] = opened[i] /\ i # fd
    BY <1>4, <2>1 DEF Inv, TypeOK, Usable, FileTableAssumption
  <2>6. \A i \in Fds : "EXCL" \in fd_flags'[i] => i # fd /\ "EXCL" \in fd_flags[i] /\ dev[i] # d
    <3>1. SUFFICES ASSUME NEW i \in Fds, "EXCL" \in fd_flags'[i]
                   PROVE  i # fd /\ "EXCL" \in fd_flags[i] /\ dev[i] # d
      OBVIOUS
    <3>2. i # fd /\ "EXCL" \in fd_flags[i]
      BY <2>3, <2>5, <3>1
    <3>3. i <= Mark(fd)
      <4>1. i <= alt_max_fd
        BY <3>2 DEF Inv, LockedBelow
      <4> QED BY <1>1, <1>3, <1>5, <4>1
    <3> QED BY <1>7, <3>2, <3>3 DEF alt_file_locked
  <2>7. TypeOK'
    <3>1. dev' \in [Fds -> Devices \union {None}] /\ fd_flags' \in [Fds -> SUBSET Flags]
      BY <2>1, <2>3 DEF Inv, TypeOK
    <3>2. opened' \in [held' -> [dev : Devices, access : SUBSET {"WRONLY", "RDWR"}]]
      BY <2>1, <2>3, <2>4 DEF Inv, TypeOK
    <3> QED BY <1>2, <1>3, <1>5, <2>4, <3>1, <3>2 DEF Inv, TypeOK
  <2>8. NoLeak'
    BY <1>5, <2>4, <2>5 DEF Inv, NoLeak
  <2>9. BelowMark'
    BY <1>3, <1>5, <2>4 DEF Inv, BelowMark
  <2>10. OneLock'
    BY <2>5, <2>6 DEF Inv, OneLock
  <2>11. Booting'
    <3>1. boot > 0 => alt_max_fd' >= 3
      BY <1>3, <1>5 DEF Inv, Booting
    <3>2. \A i \in Standard : dev'[i] = dev[i] /\ fd_flags'[i] = fd_flags[i]
      BY <1>4, <2>5
    <3> QED BY <1>2, <3>1, <3>2 DEF Inv, Booting, Access
  <2>12. Clean'
    BY <2>5 DEF Inv, Clean
  <2>13. Kept'
    <3>1. SUFFICES ASSUME NEW i \in held'
                   PROVE  i \notin Standard /\ dev'[i] = opened'[i].dev
                          /\ Access(fd_flags'[i]) = opened'[i].access
      BY DEF Kept, Access
    <3>2. CASE i = fd
      BY <1>4, <2>3, <2>5, <3>2
    <3>3. CASE i # fd
      BY <1>5, <2>4, <2>5, <3>1, <3>3 DEF Inv, Kept
    <3> QED BY <3>2, <3>3
  <2>14. LockedLow'
    <3>1. SUFFICES ASSUME NEW i \in Fds, NEW j \in Fds,
                          "EXCL" \in fd_flags'[i], dev'[i] = dev'[j], i # j
                   PROVE  i < alt_max_fd'
      BY DEF LockedLow
    <3>2. i # fd /\ "EXCL" \in fd_flags[i] /\ dev[i] # d
      BY <2>6, <3>1
    <3>3. j # fd /\ dev[i] = dev[j]
      BY <2>5, <3>1, <3>2
    <3>4. i < alt_max_fd
      BY <3>1, <3>2, <3>3 DEF Inv, LockedLow
    <3> QED BY <1>3, <1>5, <3>4
  <2>15. LockedBelow'
    BY <1>3, <1>5, <2>6 DEF Inv, LockedBelow
  <2>16. ASSUME NEW i \in Fds, NEW j \in Fds, "EXCL" \in fd_flags[i], dev'[j] = dev[i], j # i
         PROVE  dev[j] = dev[i]
    <3>1. i # fd
      BY <1>1, <2>16 DEF Inv, Clean
    <3>2. dev[i] # d
      BY <2>5, <2>6, <2>16, <3>1
    <3> QED BY <2>5, <2>16, <3>2
  <2> QED BY <2>7, <2>8, <2>9, <2>10, <2>11, <2>12, <2>13, <2>14, <2>15, <2>16 DEF Inv
<1> QED BY <1>6, <1>7

\* A descriptor is closed.
LEMMA CloseInv ==
  ASSUME FileTableAssumption, Inv, NEW fd \in Fds, close(fd)
  PROVE  /\ Inv'
         /\ \A i, j \in Fds :
              "EXCL" \in fd_flags[i] /\ dev'[j] = dev[i] /\ j # i => dev[j] = dev[i]
<1>1. /\ UNCHANGED <<registered, alt_max_fd, boot>> /\ Booted /\ Booted'
      /\ \A i : Opened(i)' = Opened(i)
      /\ fd \in Usable /\ alt_release_fd(fd)
      /\ opened' = [i \in held \ {fd} |-> opened[i]]
  BY DEF close, Booted, Opened, Redirection
<1>2. held' = held \ {fd} /\ \A i \in held' : opened'[i] = opened[i]
  BY <1>1 DEF held
<1>3. held \subseteq Fds /\ Standard \subseteq Fds /\ Fds \subseteq Int
  BY InUseOrFree DEF Inv, TypeOK, Fds
<1>4. CASE fd \in Standard
  <2>1. UNCHANGED <<dev, fd_flags>>
    BY <1>1, <1>4 DEF alt_release_fd, Standard
  <2>2. held' = held /\ opened' = opened
    BY <1>1, <1>2, <1>4 DEF Inv, TypeOK, Kept
  <2> QED BY <1>1, <2>1, <2>2
          DEF Inv, TypeOK, NoLeak, BelowMark, OneLock, Booting, Clean, Kept, LockedLow,
              LockedBelow, Access
<1>5. CASE fd \notin Standard
  <2>1. /\ dev' = [dev EXCEPT ![fd] = None]
        /\ fd_flags' = [fd_flags EXCEPT ![fd] = {}]
    BY <1>1, <1>3, <1>5 DEF alt_release_fd, Standard, Fds
  <2>2. /\ dev'[fd] = None /\ fd_flags'[fd] = {}
        /\ \A i \in Fds \ {fd} : dev'[i] = dev[i] /\ fd_flags'[i] = fd_flags[i]
    BY <2>1 DEF Inv, TypeOK
  <2>3. \A i \in Fds : "EXCL" \in fd_flags'[i] => i # fd /\ "EXCL" \in fd_flags[i] /\ dev[i] # None
    BY <2>2 DEF Inv, Clean
  <2>4. TypeOK'
    <3>1. dev' \in [Fds -> Devices \union {None}] /\ fd_flags' \in [Fds -> SUBSET Flags]
      BY <2>1 DEF Inv, TypeOK
    <3>2. opened' \in [held' -> [dev : Devices, access : SUBSET {"WRONLY", "RDWR"}]]
      BY <1>1, <1>2 DEF Inv, TypeOK
    <3> QED BY <1>1, <1>2, <3>1, <3>2 DEF Inv, TypeOK
  <2>5. NoLeak'
    BY <1>2, <1>3, <1>5, <2>2 DEF Inv, NoLeak
  <2>6. BelowMark'
    BY <1>1, <1>2 DEF Inv, BelowMark
  <2>7. OneLock'
    <3>1. SUFFICES ASSUME NEW i \in Fds, NEW j \in Fds, "EXCL" \in fd_flags'[i],
                          "EXCL" \in fd_flags'[j], dev'[i] = dev'[j]
                   PROVE  i = j
      BY DEF OneLock
    <3>2. i # fd /\ j # fd /\ "EXCL" \in fd_flags[i] /\ "EXCL" \in fd_flags[j]
      BY <2>3, <3>1
    <3> QED BY <2>2, <3>1, <3>2 DEF Inv, OneLock
  <2>8. Booting'
    <3>1. \A i \in Standard : dev'[i] = dev[i] /\ fd_flags'[i] = fd_flags[i]
      BY <1>3, <1>5, <2>2
    <3> QED BY <1>1, <3>1 DEF Inv, Booting, Access
  <2>9. Clean'
    BY <2>2 DEF Inv, Clean
  <2>10. Kept'
    BY <1>2, <1>3, <2>2 DEF Inv, Kept, Access
  <2>11. LockedLow'
    <3>1. SUFFICES ASSUME NEW i \in Fds, NEW j \in Fds,
                          "EXCL" \in fd_flags'[i], dev'[i] = dev'[j], i # j
                   PROVE  i < alt_max_fd
      BY <1>1 DEF LockedLow
    <3>2. i # fd /\ "EXCL" \in fd_flags[i] /\ dev[i] # None
      BY <2>3, <3>1
    <3>3. dev[i] = dev[j]
      BY <2>2, <3>1, <3>2
    <3> QED BY <3>1, <3>2, <3>3 DEF Inv, LockedLow
  <2>12. LockedBelow'
    BY <1>1, <2>3 DEF Inv, LockedBelow
  <2>13. ASSUME NEW i \in Fds, NEW j \in Fds, "EXCL" \in fd_flags[i], dev'[j] = dev[i], j # i
         PROVE  dev[j] = dev[i]
    BY <2>2, <2>13 DEF Inv, Clean
  <2> QED BY <2>4, <2>5, <2>6, <2>7, <2>8, <2>9, <2>10, <2>11, <2>12, <2>13 DEF Inv
<1> QED BY <1>4, <1>5

\* The flags of a descriptor in use change, its access mode does not.
LEMMA FlagsInv ==
  ASSUME FileTableAssumption, Inv, NEW fd \in Usable, NEW F \in SUBSET Flags, Booted,
         fd_flags' = [fd_flags EXCEPT ![fd] = F], Access(F) = Access(fd_flags[fd]),
         UNCHANGED <<registered, dev, alt_max_fd, boot, opened>>
  PROVE  /\ TypeOK' /\ NoLeak' /\ BelowMark' /\ Booting' /\ Clean' /\ Kept'
         /\ fd \in Fds /\ dev[fd] # None
         /\ fd_flags'[fd] = F /\ \A i \in Fds \ {fd} : fd_flags'[i] = fd_flags[i]
<1>1. fd \in Fds /\ dev[fd] # None /\ Standard \subseteq Fds
  BY InUseOrFree
<1>2. /\ held' = held /\ Booted' /\ \A i : Opened(i)' = Opened(i)
  BY DEF held, Booted, Opened, Redirection
<1>3. fd_flags'[fd] = F /\ \A i \in Fds \ {fd} : fd_flags'[i] = fd_flags[i]
  BY <1>1 DEF Inv, TypeOK
<1>4. \A i \in Fds : Access(fd_flags'[i]) = Access(fd_flags[i])
  BY <1>3
<1>5. TypeOK'
  BY <1>1, <1>2 DEF Inv, TypeOK
<1>6. Booting'
  <2>1. \A i \in Standard : Access(fd_flags'[i]) = Access(fd_flags[i])
    BY <1>1, <1>4
  <2> QED BY <1>2, <2>1 DEF Inv, Booting, Access
<1>7. Kept'
  BY <1>2, <1>4 DEF Inv, Kept, TypeOK, Access
<1>8. Clean'
  BY <1>1, <1>3 DEF Inv, Clean
<1> QED BY <1>1, <1>2, <1>3, <1>5, <1>6, <1>7, <1>8 DEF Inv, NoLeak, BelowMark

\* Locking: who shares the device must be the highest descriptor, the only one the scan misses.
LEMMA LockInv ==
  ASSUME FileTableAssumption, Inv, NEW fd \in Fds, alt_fd_lock(fd)
  PROVE  Inv'
<1> DEFINE F == fd_flags[fd] \union {"EXCL"}
<1>1. /\ Booted /\ fd \in Usable /\ ~InUse(fd)
      /\ fd_flags' = [fd_flags EXCEPT ![fd] = F]
      /\ UNCHANGED <<registered, dev, alt_max_fd, boot, opened>>
  BY DEF alt_fd_lock
<1>2. F \in SUBSET Flags /\ Access(F) = Access(fd_flags[fd])
  BY DEF Inv, TypeOK, Flags, Access
<1> HIDE DEF F
<1>3. /\ TypeOK' /\ NoLeak' /\ BelowMark' /\ Booting' /\ Clean' /\ Kept'
      /\ dev[fd] # None
      /\ \A i \in Fds \ {fd} : fd_flags'[i] = fd_flags[i]
  BY <1>1, <1>2, FlagsInv
<1>4. alt_max_fd \in Int /\ Fds \subseteq Int
  BY DEF Inv, TypeOK, Fds
<1>5. fd <= alt_max_fd
  BY <1>1, InUseOrFree
<1>6. ASSUME NEW j \in Fds, j # fd, dev[j] = dev[fd]
      PROVE  j = alt_max_fd
  <2>1. j \in Usable
    BY <1>3, <1>6 DEF Inv, NoLeak, Usable
  <2>2. j <= alt_max_fd
    BY <1>1, <2>1, InUseOrFree
  <2>3. ~(j < alt_max_fd)
    BY <1>1, <1>6 DEF InUse
  <2> QED BY <1>4, <2>2, <2>3
<1>7. LockedLow'
  <2>1. SUFFICES ASSUME NEW i \in Fds, NEW j \in Fds,
                        "EXCL" \in fd_flags'[i], dev[i] = dev[j], i # j
                 PROVE  i < alt_max_fd
    BY <1>1 DEF LockedLow
  <2>2. CASE i = fd
    <3>1. j = alt_max_fd
      BY <1>6, <2>1, <2>2
    <3> QED BY <1>4, <1>5, <2>1, <2>2, <3>1
  <2>3. CASE i # fd
    BY <1>3, <2>1, <2>3 DEF Inv, LockedLow
  <2> QED BY <2>2, <2>3
<1>8. ASSUME NEW j \in Fds, j # fd, "EXCL" \in fd_flags[j], dev[j] = dev[fd]
      PROVE  FALSE
  <2>1. j < alt_max_fd
    BY <1>8 DEF Inv, LockedLow
  <2>2. j = alt_max_fd
    BY <1>6, <1>8
  <2> QED BY <1>4, <2>1, <2>2
<1>9. OneLock'
  <2>1. SUFFICES ASSUME NEW i \in Fds, NEW j \in Fds, "EXCL" \in fd_flags'[i],
                        "EXCL" \in fd_flags'[j], dev[i] = dev[j]
                 PROVE  i = j
    BY <1>1 DEF OneLock
  <2>2. CASE i = fd
    BY <1>3, <1>8, <2>1, <2>2
  <2>3. CASE j = fd
    BY <1>3, <1>8, <2>1, <2>3
  <2>4. CASE i # fd /\ j # fd
    BY <1>3, <2>1, <2>4 DEF Inv, OneLock
  <2> QED BY <2>2, <2>3, <2>4
<1>10. LockedBelow'
  BY <1>1, <1>3, <1>5 DEF Inv, LockedBelow
<1> QED BY <1>3, <1>7, <1>9, <1>10 DEF Inv

\* Unlocking, and setting flags: no lock is added.
LEMMA NoLockAdded ==
  ASSUME FileTableAssumption, Inv, NEW fd \in Fds,
         alt_fd_unlock(fd) \/ \E flags \in Opens : fcntl(fd, flags)
  PROVE  Inv' /\ UNCHANGED dev
<1>1. PICK F \in SUBSET Flags :
        /\ fd_flags' = [fd_flags EXCEPT ![fd] = F]
        /\ Access(F) = Access(fd_flags[fd])
        /\ "EXCL" \in F => "EXCL" \in fd_flags[fd]
  <2>1. fd_flags[fd] \in SUBSET Flags
    BY DEF Inv, TypeOK
  <2>2. CASE alt_fd_unlock(fd)
    <3> DEFINE F == fd_flags[fd] \ {"EXCL"}
    <3>1. F \in SUBSET Flags /\ Access(F) = Access(fd_flags[fd]) /\ "EXCL" \notin F
      BY <2>1 DEF Access
    <3>2. fd_flags' = [fd_flags EXCEPT ![fd] = F]
      BY <2>2 DEF alt_fd_unlock
    <3> HIDE DEF F
    <3> QED BY <3>1, <3>2
  <2>3. CASE \E flags \in Opens : fcntl(fd, flags)
    <3>0. PICK flags \in SUBSET Flags : fcntl(fd, flags)
      BY <2>3 DEF FileTableAssumption
    <3> DEFINE F == SetFlags(fd_flags[fd], flags)
    <3>1. /\ F \in SUBSET Flags /\ Access(F) = Access(fd_flags[fd])
          /\ "EXCL" \in F => "EXCL" \in fd_flags[fd]
      BY <2>1, FlagsKept
    <3>2. fd_flags' = [fd_flags EXCEPT ![fd] = F]
      BY <3>0 DEF fcntl
    <3> HIDE DEF F
    <3> QED BY <3>1, <3>2
  <2> QED BY <2>2, <2>3
<1>2. /\ Booted /\ fd \in Usable
      /\ UNCHANGED <<registered, dev, alt_max_fd, boot, opened>>
  BY DEF alt_fd_unlock, fcntl
<1>3. /\ TypeOK' /\ NoLeak' /\ BelowMark' /\ Booting' /\ Clean' /\ Kept'
      /\ fd_flags'[fd] = F /\ \A i \in Fds \ {fd} : fd_flags'[i] = fd_flags[i]
  BY <1>1, <1>2, FlagsInv
<1>4. \A i \in Fds : "EXCL" \in fd_flags'[i] => "EXCL" \in fd_flags[i]
  BY <1>1, <1>3
<1> QED BY <1>2, <1>3, <1>4 DEF Inv, OneLock, LockedLow, LockedBelow
-----------------------------------------------------------------------------
\* Every step keeps the invariant and the locks.
LEMMA NextInv ==
  ASSUME FileTableAssumption, Inv, [Next]_vars
  PROVE  /\ Inv'
         /\ \A i, j \in Fds :
              "EXCL" \in fd_flags[i] /\ dev'[j] = dev[i] /\ j # i => dev[j] = dev[i]
<1>1. CASE alt_dev_reg \/ UNCHANGED vars
  BY <1>1, RegisterInv
<1>2. CASE alt_open_fd
  <2>1. \A i \in Fds : "EXCL" \notin fd_flags[i]
    BY <1>2 DEF alt_open_fd, Inv, Booting
  <2> QED BY <1>2, <2>1, RedirectInv
<1>3. CASE \E d \in Devices, flags \in Opens : open(d, flags)
  BY <1>3, OpenInv
<1>4. CASE \E fd \in Fds : close(fd)
  BY <1>4, CloseInv
<1>5. CASE \E fd \in Fds : alt_fd_lock(fd)
  <2>1. UNCHANGED dev
    BY <1>5 DEF alt_fd_lock
  <2> QED BY <1>5, <2>1, LockInv
<1>6. CASE \E fd \in Fds : alt_fd_unlock(fd) \/ \E flags \in Opens : fcntl(fd, flags)
  BY <1>6, NoLockAdded
<1> QED BY <1>1, <1>2, <1>3, <1>4, <1>5, <1>6 DEF Next

\* The invariant holds in every reachable state.
THEOREM Invariance == Spec => []Inv
<1>1. Init => Inv
  BY InitInv, FileTableAssumption
<1>2. Inv /\ [Next]_vars => Inv'
  BY NextInv, FileTableAssumption
<1> QED BY <1>1, <1>2, PTL DEF Spec

\* The fields have their types throughout (alt_get_fd, alt_release_fd, open, fcntl).
THEOREM TypeCorrect == Spec => []TypeOK
<1>1. Inv => TypeOK
  BY DEF Inv
<1> QED BY <1>1, Invariance, PTL

\* The descriptors in use are the standard ones and those the program holds (open, close).
THEOREM NothingLeaks == Spec => []NoLeak
<1>1. Inv => NoLeak
  BY DEF Inv
<1> QED BY <1>1, Invariance, PTL

\* No descriptor in use is above the high water mark (alt_get_fd).
THEOREM MarkIsHigh == Spec => []BelowMark
<1>1. Inv => BelowMark
  BY DEF Inv
<1> QED BY <1>1, Invariance, PTL

\* No device is locked twice, although the scan of alt_fd_lock misses a descriptor.
THEOREM LockedOnce == Spec => []OneLock
<1>1. Inv => OneLock
  BY DEF Inv
<1> QED BY <1>1, Invariance, PTL

\* A locked device is opened for nobody (alt_file_locked).
THEOREM LocksHold == Spec => LockHolds
<1>1. Inv /\ [Next]_vars
        => [\A i, j \in Fds :
              "EXCL" \in fd_flags[i] /\ dev'[j] = dev[i] /\ j # i => dev[j] = dev[i]]_vars
  BY NextInv, FileTableAssumption
<1> QED BY <1>1, Invariance, PTL DEF Spec, LockHolds

\* Standard input and output work when main runs (alt_io_redirect, alt_read, alt_write).
THEOREM StandardIO == Spec => []StdioWorks
<1>1. ASSUME Inv PROVE StdioWorks
  <2>1. SUFFICES ASSUME Booted
                 PROVE  /\ alt_write(1) = Uart /\ alt_write(2) = Uart /\ alt_read(0) = Uart
                        /\ \A fd \in Standard : alt_ioctl(fd) = Uart /\ alt_isatty(fd)
    BY DEF StdioWorks
  <2>2. \A fd \in Standard : Opened(fd)
    <3>1. Redirection = 1 .. 3
      BY <2>1 DEF Booted, Redirection
    <3>2. Redirected[1] = 1 /\ Redirected[2] = 0 /\ Redirected[3] = 2
      BY DEF Redirected
    <3>3. Opened(1) /\ Opened(0) /\ Opened(2)
      BY <3>1, <3>2 DEF Opened
    <3> QED BY <3>3 DEF Standard
  <2>3. \A fd \in Standard : dev[fd] = Uart /\ Access(fd_flags[fd]) = AccessOf(fd)
    BY <1>1, <2>2 DEF Inv, Booting
  <2>4. Provides(Uart) = {"close", "read", "write", "ioctl"}
    BY FileTableAssumption DEF Provides
  <2>5. alt_read(0) = Uart
    <3>1. "WRONLY" \notin fd_flags[0] /\ dev[0] = Uart
      BY <2>3 DEF Standard, AccessOf, Access
    <3> QED BY <2>4, <3>1 DEF alt_read
  <2>6. \A fd \in {1, 2} : alt_write(fd) = Uart
    <3>1. \A fd \in {1, 2} : Access(fd_flags[fd]) # {} /\ dev[fd] = Uart
      BY <2>3 DEF Standard, AccessOf
    <3> QED BY <2>4, <3>1 DEF alt_write
  <2>7. \A fd \in Standard : alt_ioctl(fd) = Uart /\ alt_isatty(fd)
    BY <2>3, <2>4 DEF alt_ioctl, alt_isatty
  <2> QED BY <2>5, <2>6, <2>7
<1> QED BY <1>1, Invariance, PTL

\* A descriptor leads where it was opened to until it is closed (open, fcntl, alt_read, alt_write).
THEOREM OpenedStays == Spec => []StaysOpened
<1>1. ASSUME Inv PROVE StaysOpened
  <2>1. SUFFICES ASSUME NEW fd \in held
                 PROVE  LET o == opened[fd]
                        IN  /\ alt_write(fd) = IF o.access = {} THEN "EACCES" ELSE o.dev
                            /\ alt_read(fd) = IF "WRONLY" \in o.access \/ o.dev = NullDev
                                              THEN "EACCES" ELSE o.dev
    BY DEF StaysOpened
  <2>2. dev[fd] = opened[fd].dev /\ Access(fd_flags[fd]) = opened[fd].access
    BY <1>1 DEF Inv, Kept
  <2>3. "write" \in Provides(dev[fd]) /\ ("read" \in Provides(dev[fd]) <=> dev[fd] # NullDev)
    BY DEF Provides
  <2>4. "WRONLY" \in fd_flags[fd] <=> "WRONLY" \in opened[fd].access
    BY <2>2 DEF Access
  <2> QED BY <2>2, <2>3, <2>4 DEF alt_read, alt_write
<1> QED BY <1>1, Invariance, PTL
=============================================================================
