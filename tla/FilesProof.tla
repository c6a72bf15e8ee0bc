------------------------------ MODULE FilesProof ------------------------------
(***************************************************************************)
(* Proofs about the file descriptors: what the calls keep true of the      *)
(* pool, for every number of descriptors and every set of file systems,    *)
(* and that they implement OpenFiles.                                      *)
(***************************************************************************)
EXTENDS Files, WellFoundedInduction, TLAPS

Entries == [dev : Devices \union {NoDev}, mode : Access,
            fd_flags : SUBSET {"EXCL", "DEV", "NONBLOCK"}]

Excl(fd) == "EXCL" \in alt_fd_list[fd].fd_flags

\* Only devices can be locked.
FlagsFit == \A fd \in Fds : /\ Excl(fd) => "DEV" \in alt_fd_list[fd].fd_flags
                            /\ "DEV" \in alt_fd_list[fd].fd_flags => Dev(fd) \notin FileSystems

\* What is left of a lock's exclusiveness: those that share the device are above the
\* descriptor that locks it, where alt_fd_lock did not look, and hold no lock.
SharersAbove ==
  \A fd, other \in Fds :
    Excl(fd) /\ Dev(other) = Dev(fd) /\ other # fd => other > fd /\ ~Excl(other)

StreamsOpen == \A s \in Standard : Dev(s) # NoDev

\* Before main nothing has been opened but what redirection opens and releases.
Booting == boot # "main" => held = {} /\ \A fd \in Fds : ~Excl(fd)

Registered == registered = IF boot = "register" THEN {Null} ELSE Devices

\* The streams redirected so far.
Directed ==
  /\ boot \in {"stdin", "stderr", "main"} => Dev(1) = Uart /\ alt_fd_list[1].mode # "RDONLY"
  /\ boot \in {"stderr", "main"} => Dev(0) = Uart /\ alt_fd_list[0].mode # "WRONLY"
  /\ boot = "main" => Dev(2) = Uart /\ alt_fd_list[2].mode # "RDONLY"

Covered == boot \in {"stdin", "stderr", "main"} =>
             \A fd \in Fds : Dev(fd) # NoDev => fd <= alt_max_fd

FilesInv ==
  /\ TypeOK /\ NoNullDevice /\ NoneLeaks /\ SharersAbove
  /\ FlagsFit /\ StreamsOpen /\ Booting /\ Registered /\ Directed /\ Covered
-------------------------------------------------------------------------------
(* Lemmas about the parts of the calls. *)

\* The least free descriptor exists when any is free.
LEMMA FirstFreeIsLeast ==
  ASSUME Free # {}
  PROVE  /\ FirstFree \in Fds /\ Dev(FirstFree) = NoDev
         /\ \A j \in Free : FirstFree <= j
<1>1. Free \subseteq Nat
  BY FilesAssumption DEF Free, Fds
<1>2. PICK i \in Free : \A j \in Free : <<j, i>> \notin OpToRel(<, Nat)
  BY <1>1, NatLessThanWellFounded, WFMin, Zenon
<1>3. \A j \in Free : ~(j < i)
  BY <1>1, <1>2, Zenon DEF OpToRel
<1>4. \A j \in Free : i <= j
  BY <1>1, <1>3
<1>5. FirstFree \in Free /\ \A j \in Free : FirstFree <= j
  BY <1>4, Zenon DEF FirstFree
<1> QED
  BY <1>5 DEF Free, Dev

LEMMA MarkGrows ==
  ASSUME alt_max_fd \in -1 .. MaxFd - 1, NEW i \in Fds
  PROVE  Mark(i) \in alt_max_fd .. MaxFd - 1 /\ i <= Mark(i)
BY FilesAssumption DEF Fds, Mark

LEMMA StandardAreDescriptors ==
  Standard \subseteq Fds /\ 0 \in Standard /\ 1 \in Standard /\ 2 \in Standard
BY FilesAssumption DEF Fds, Standard

\* What the program may use has a device, so no call follows a null pointer.
LEMMA UsableIsOpen ==
  ASSUME FilesInv, NEW fd \in Usable
  PROVE  fd \in Fds /\ Dev(fd) # NoDev
BY StandardAreDescriptors DEF FilesInv, NoneLeaks, StreamsOpen, Usable, TypeOK

\* A lock that open sees is one that any descriptor holds.
LEMMA LocksAreSeen ==
  ASSUME FilesInv, boot = "main", NEW name \in Devices,
         NEW i \in Fds, Dev(i) = NoDev, ~Locked(name, i)
  PROVE  \A fd \in Fds : Dev(fd) = name => ~Excl(fd)
<1> SUFFICES ASSUME NEW fd \in Fds, Dev(fd) = name
             PROVE  ~Excl(fd)
  OBVIOUS
<1>1. fd <= alt_max_fd
  BY FilesAssumption DEF FilesInv, Covered
<1>2. fd \in 0 .. Mark(i) /\ fd # i
  BY FilesAssumption, <1>1, MarkGrows DEF Fds, FilesInv, TypeOK
<1> QED
  BY <1>2, Zenon DEF Locked, Excl, Dev
-------------------------------------------------------------------------------
(* The invariant. *)

\* Calls that leave the pool alone; a failed open or a stat may raise the mark.
LEMMA PoolUnchanged ==
  ASSUME FilesInv, boot = "main", ret' \in Codes \ {"null"},
         alt_max_fd' \in alt_max_fd .. MaxFd - 1,
         UNCHANGED <<alt_fd_list, held, registered, boot>>
  PROVE  FilesInv'
<1>1. TypeOK'
  <2>1. alt_max_fd' \in -1 .. MaxFd - 1
    BY FilesAssumption DEF FilesInv, TypeOK
  <2>2. /\ alt_fd_list' \in [Fds -> Entries]
        /\ \A fd \in Fds : alt_fd_list'[fd].dev = NoDev => alt_fd_list'[fd] = Released
    BY DEF FilesInv, TypeOK, Entries, Dev
  <2> QED
    BY <2>1, <2>2 DEF FilesInv, TypeOK, Entries, Dev
<1>2. NoNullDevice'
  BY DEF NoNullDevice
<1>3. (NoneLeaks /\ SharersAbove /\ FlagsFit /\ StreamsOpen)'
  BY DEF FilesInv, NoneLeaks, SharersAbove, FlagsFit, StreamsOpen, Excl, Dev
<1>4. (Booting /\ Registered /\ Directed)'
  BY DEF FilesInv, Booting, Registered, Directed, Excl, Dev
<1>5. Covered'
  BY FilesAssumption DEF FilesInv, TypeOK, Covered, Dev, Fds
<1> QED
  BY <1>1, <1>2, <1>3, <1>4, <1>5 DEF FilesInv

LEMMA InvInit == Init => FilesInv
<1> SUFFICES ASSUME Init PROVE FilesInv
  OBVIOUS
<1> USE DEF Init
<1>1. \A fd \in Fds : alt_fd_list[fd].dev = (IF fd \in Standard THEN Null ELSE NoDev)
                      /\ alt_fd_list[fd].mode = "RDONLY" /\ alt_fd_list[fd].fd_flags = {}
  BY DEF Released
<1>2. alt_fd_list \in [Fds -> Entries]
  BY DEF Released, Entries, Access, Devices
<1>3. TypeOK
  <2>1. \A fd \in Fds : Dev(fd) = NoDev => alt_fd_list[fd] = Released
    BY FilesAssumption DEF Dev, Released, Devices
  <2>2. alt_max_fd \in -1 .. MaxFd - 1 /\ registered \subseteq Devices /\ held \subseteq Fds
    BY FilesAssumption DEF Devices
  <2> QED
    BY <1>2, <2>1, <2>2 DEF TypeOK, Entries, Codes
<1>4. NoNullDevice /\ Registered /\ Directed /\ Covered
  BY DEF NoNullDevice, Registered, Directed, Covered
<1>5. NoneLeaks
  BY <1>1 DEF NoneLeaks, Dev
<1>6. SharersAbove /\ FlagsFit /\ Booting
  BY <1>1 DEF SharersAbove, FlagsFit, Booting, Excl
<1>7. StreamsOpen
  BY <1>1, StandardAreDescriptors, FilesAssumption DEF StreamsOpen, Dev, Devices
<1> QED
  BY <1>3, <1>4, <1>5, <1>6, <1>7 DEF FilesInv

LEMMA RegisterKeeps ==
  ASSUME FilesInv, Register
  PROVE  FilesInv'
<1> USE DEF Register
<1>1. TypeOK'
  BY DEF FilesInv, TypeOK, Dev, Released
<1>2. (NoNullDevice /\ NoneLeaks /\ SharersAbove /\ FlagsFit /\ StreamsOpen)'
  BY DEF FilesInv, NoNullDevice, NoneLeaks, SharersAbove, FlagsFit, StreamsOpen, Excl, Dev
<1>3. (Booting /\ Registered /\ Directed /\ Covered)'
  BY DEF FilesInv, Booting, Registered, Directed, Covered, Excl, Dev
<1> QED
  BY <1>1, <1>2, <1>3 DEF FilesInv

\* During start-up the first free descriptor is the one above the standard ones, no device
\* is locked, and the stream gets the UART in the mode it needs.
LEMMA RedirectKeeps ==
  ASSUME FilesInv, Redirect
  PROVE  FilesInv'
<1> DEFINE s == IF boot = "stdout" THEN 1 ELSE IF boot = "stdin" THEN 0 ELSE 2
           next == IF boot = "stdout" THEN "stdin" ELSE IF boot = "stdin" THEN "stderr" ELSE "main"
<1>1. boot \in {"stdout", "stdin", "stderr"} /\ RedirectTo(s, next)
  BY DEF Redirect
<1>2. s \in Standard /\ s \in Fds
  BY StandardAreDescriptors DEF Standard
<1>3. 3 \in Fds /\ Dev(3) = NoDev
  BY <1>1, FilesAssumption DEF FilesInv, Booting, NoneLeaks, Fds, Standard
<1>4. Free # {} /\ FirstFree \in Fds /\ FirstFree <= 3
  BY <1>3, FirstFreeIsLeast DEF Free, Dev
<1>5. FirstFree = 3
  <2>1. FirstFree \notin Standard
    BY <1>3, FirstFreeIsLeast DEF Free, Dev, FilesInv, StreamsOpen
  <2> QED
    BY <1>4, <2>1, FilesAssumption DEF Fds, Standard
<1>6. ~Locked(Uart, 3)
  <2>1. \A j \in 0 .. Mark(3) : j \in Fds
    BY <1>3, MarkGrows, FilesAssumption DEF Fds, FilesInv, TypeOK
  <2> QED
    BY <1>1, <2>1 DEF Locked, FilesInv, Booting, Excl
<1>7. Uart \in registered /\ Uart \in Devices /\ Uart \notin FileSystems /\ Uart # NoDev
  BY <1>1, FilesAssumption DEF FilesInv, Registered, Devices
<1>8. /\ alt_fd_list' = [alt_fd_list EXCEPT ![s] = Opened(Uart, StreamMode(s), {})]
      /\ alt_max_fd' = Mark(3) /\ boot' = next
      /\ UNCHANGED <<registered, held, ret>>
  BY <1>1, <1>4, <1>5, <1>6, <1>7 DEF RedirectTo
<1>9. alt_fd_list \in [Fds -> Entries]
  BY DEF FilesInv, TypeOK, Entries
<1>10. /\ alt_fd_list'[s] = [dev |-> Uart, mode |-> StreamMode(s), fd_flags |-> {"DEV"}]
       /\ \A fd \in Fds \ {s} : alt_fd_list'[fd] = alt_fd_list[fd]
  BY <1>2, <1>7, <1>8, <1>9 DEF Opened
<1>11. alt_max_fd' \in alt_max_fd .. MaxFd - 1 /\ 3 <= alt_max_fd'
  BY <1>3, <1>8, MarkGrows DEF FilesInv, TypeOK
<1>12. TypeOK'
  <2>1. alt_fd_list' \in [Fds -> Entries]
    BY <1>2, <1>7, <1>8, <1>9, <1>10 DEF Entries, StreamMode, Access, Opened
  <2>2. \A fd \in Fds : alt_fd_list'[fd].dev = NoDev => alt_fd_list'[fd] = Released
    BY <1>2, <1>7, <1>10 DEF FilesInv, TypeOK, Dev
  <2>3. alt_max_fd' \in -1 .. MaxFd - 1
    BY <1>11, FilesAssumption DEF FilesInv, TypeOK
  <2>4. boot' \in {"register", "stdout", "stdin", "stderr", "main"}
    BY <1>8
  <2> QED
    BY <2>1, <2>2, <2>3, <2>4, <1>8 DEF FilesInv, TypeOK, Entries, Dev
<1>13. NoneLeaks'
  BY <1>2, <1>8, <1>10 DEF FilesInv, NoneLeaks, Dev
<1>14. (SharersAbove /\ FlagsFit /\ Booting)'
  <2>1. \A fd \in Fds : "EXCL" \notin alt_fd_list'[fd].fd_flags
    BY <1>1, <1>2, <1>10 DEF FilesInv, Booting, Excl
  <2>2. FlagsFit'
    BY <2>1, <1>2, <1>7, <1>10 DEF FilesInv, FlagsFit, Excl, Dev
  <2>3. Booting'
    BY <2>1, <1>1, <1>8 DEF FilesInv, Booting, Excl
  <2> QED
    BY <2>1, <2>2, <2>3 DEF SharersAbove, Excl
<1>15. (StreamsOpen /\ NoNullDevice /\ Registered)'
  <2>1. StreamsOpen'
    BY <1>2, <1>7, <1>10, StandardAreDescriptors DEF FilesInv, StreamsOpen, Dev
  <2> QED
    BY <2>1, <1>1, <1>8 DEF FilesInv, NoNullDevice, Registered
<1>16. Directed'
  BY <1>1, <1>8, <1>10, StandardAreDescriptors DEF FilesInv, Directed, Dev, StreamMode
<1>17. Covered'
  <2> SUFFICES ASSUME NEW fd \in Fds, alt_fd_list'[fd].dev # NoDev
               PROVE  fd <= alt_max_fd'
    BY DEF Covered, Dev
  <2>1. fd \in Standard
    BY <1>1, <1>2, <1>10 DEF FilesInv, Booting, NoneLeaks, Dev
  <2> QED
    BY <2>1, <1>11, FilesAssumption DEF Standard, FilesInv, TypeOK, Fds
<1> QED
  BY <1>12, <1>13, <1>14, <1>15, <1>16, <1>17 DEF FilesInv

\* Calls that only ask, among them the opens that take no descriptor.
LEMMA AskingKeeps ==
  ASSUME FilesInv, BadDescriptor \/ \E fd \in Usable : \/ Read(fd) \/ Write(fd) \/ Ioctl(fd)
                                                        \/ Lseek(fd) \/ Fstat(fd) \/ Isatty(fd)
  PROVE  FilesInv'
<1>1. /\ boot = "main" /\ ret' \in Codes \ {"null"}
      /\ UNCHANGED <<alt_fd_list, alt_max_fd, held, registered, boot>>
  <2>1. CASE BadDescriptor
    BY <2>1 DEF BadDescriptor, Returns, Codes
  <2>2. CASE \E fd \in Usable : \/ Read(fd) \/ Write(fd) \/ Ioctl(fd)
                                \/ Lseek(fd) \/ Fstat(fd) \/ Isatty(fd)
    <3>1. PICK fd \in Usable : \/ Read(fd) \/ Write(fd) \/ Ioctl(fd)
                               \/ Lseek(fd) \/ Fstat(fd) \/ Isatty(fd)
      BY <2>2
    <3>2. Dev(fd) # NoDev
      BY UsableIsOpen
    <3>3. CASE Read(fd) \/ Write(fd)
      BY <3>2, <3>3 DEF Read, Write, Through, Returns, Codes
    <3>4. CASE Ioctl(fd) \/ Lseek(fd) \/ Fstat(fd) \/ Isatty(fd)
      BY <3>2, <3>4 DEF Ioctl, Lseek, Fstat, Isatty, Through, Returns, Codes
    <3> QED
      BY <3>1, <3>3, <3>4
  <2> QED
    BY <2>1, <2>2
<1>2. alt_max_fd' \in alt_max_fd .. MaxFd - 1
  BY <1>1, FilesAssumption DEF FilesInv, TypeOK
<1> QED
  BY <1>1, <1>2, PoolUnchanged

\* Stat, and the opens that fail: what they took they have given back.
LEMMA FailingKeeps ==
  ASSUME FilesInv, NEW name \in Devices \union {Unknown},
         \/ Stat(name) \/ OpenNoDevice(name) \/ OpenNoDescriptor(name)
         \/ OpenLocked(name) \/ OpenRefused(name)
  PROVE  FilesInv' /\ UNCHANGED alt_fd_list
<1> USE FilesAssumption
<1>1. boot = "main" /\ ret' \in Codes \ {"null"} /\ UNCHANGED <<held, registered, boot>>
  BY DEF Stat, OpenNoDevice, OpenNoDescriptor, OpenLocked, OpenRefused, Returns, Codes
<1>2. \/ alt_max_fd' = alt_max_fd
      \/ Free # {} /\ alt_max_fd' = Mark(FirstFree)
  BY DEF Stat, OpenNoDevice, OpenNoDescriptor, OpenLocked, OpenRefused
<1>3. alt_max_fd' \in alt_max_fd .. MaxFd - 1
  <2>1. alt_max_fd \in -1 .. MaxFd - 1
    BY DEF FilesInv, TypeOK
  <2>2. CASE alt_max_fd' = alt_max_fd
    BY <2>1, <2>2
  <2>3. CASE Free # {} /\ alt_max_fd' = Mark(FirstFree)
    BY <2>1, <2>3, FirstFreeIsLeast, MarkGrows
  <2> QED
    BY <1>2, <2>2, <2>3
<1>4. UNCHANGED alt_fd_list
  <2>1. CASE UNCHANGED alt_fd_list
    BY <2>1
  <2>2. CASE Free # {} /\ ReleasedAgain(FirstFree)
    <3>1. FirstFree \in Fds /\ alt_fd_list[FirstFree] = Released
      BY <2>2, FirstFreeIsLeast DEF FilesInv, TypeOK, Dev
    <3>2. alt_fd_list \in [Fds -> Entries]
      BY DEF FilesInv, TypeOK, Entries
    <3> QED
      BY <2>2, <3>1, <3>2 DEF ReleasedAgain
  <2> QED
    BY <2>1, <2>2 DEF Stat, OpenNoDevice, OpenNoDescriptor, OpenLocked, OpenRefused
<1> QED
  BY <1>1, <1>3, <1>4, PoolUnchanged

\* The entry of one descriptor changes, on these conditions.
LEMMA EntryChanges ==
  ASSUME FilesInv, boot = "main", NEW i \in Fds, NEW e \in Entries, e.dev # NoDev \/ e = Released,
         i \in Standard => e.dev = Dev(i) /\ e.mode = alt_fd_list[i].mode,
         "EXCL" \in e.fd_flags => "DEV" \in e.fd_flags,
         "DEV" \in e.fd_flags => e.dev \notin FileSystems,
         "EXCL" \in e.fd_flags => \A other \in Fds \ {i} :
                                     Dev(other) = e.dev => other > i /\ ~Excl(other),
         e.dev # NoDev => \A other \in Fds \ {i} :
                            Excl(other) /\ Dev(other) = e.dev => i > other,
         alt_fd_list' = [alt_fd_list EXCEPT ![i] = e],
         alt_max_fd' \in alt_max_fd .. MaxFd - 1, e.dev # NoDev => i <= alt_max_fd',
         held' = IF e.dev = NoDev THEN held \ {i}
                 ELSE IF i \in Standard THEN held ELSE held \union {i},
         ret' \in Codes \ {"null"}, UNCHANGED <<registered, boot>>
  PROVE  FilesInv'
<1> USE FilesAssumption
<1>1. alt_fd_list \in [Fds -> Entries]
  BY DEF FilesInv, TypeOK, Entries
<1>2. /\ alt_fd_list' \in [Fds -> Entries] /\ alt_fd_list'[i] = e
      /\ \A other \in Fds \ {i} : alt_fd_list'[other] = alt_fd_list[other]
  BY <1>1
<1>3. alt_max_fd \in -1 .. MaxFd - 1 /\ alt_max_fd' \in -1 .. MaxFd - 1
  BY DEF FilesInv, TypeOK
<1>4. TypeOK'
  <2>1. \A other \in Fds : alt_fd_list'[other].dev = NoDev => alt_fd_list'[other] = Released
    BY <1>2 DEF FilesInv, TypeOK, Dev
  <2>2. boot' \in {"register", "stdout", "stdin", "stderr", "main"} /\ registered' \subseteq Devices
    BY DEF FilesInv, TypeOK
  <2>3. held' \subseteq Fds
    BY DEF FilesInv, TypeOK
  <2> QED
    BY <1>2, <1>3, <2>1, <2>2, <2>3 DEF TypeOK, Entries, Dev
<1>5. NoneLeaks'
  <2>1. {fd \in Fds \ Standard : alt_fd_list'[fd].dev # NoDev} = held'
    <3>1. {fd \in Fds \ Standard : alt_fd_list[fd].dev # NoDev} = held
      BY DEF FilesInv, NoneLeaks, Dev
    <3> QED
      BY <1>2, <3>1
  <2> QED
    BY <2>1 DEF NoneLeaks, Dev
<1>6. FlagsFit'
  <2>1. \A fd \in Fds : /\ "EXCL" \in alt_fd_list'[fd].fd_flags
                           => "DEV" \in alt_fd_list'[fd].fd_flags
                        /\ "DEV" \in alt_fd_list'[fd].fd_flags
                           => alt_fd_list'[fd].dev \notin FileSystems
    BY <1>2 DEF FilesInv, FlagsFit, Excl, Dev
  <2> QED
    BY <2>1 DEF FlagsFit, Excl, Dev
<1>7. SharersAbove'
  <2> SUFFICES ASSUME NEW a \in Fds, NEW b \in Fds, "EXCL" \in alt_fd_list'[a].fd_flags,
                      alt_fd_list'[b].dev = alt_fd_list'[a].dev, b # a
               PROVE  b > a /\ "EXCL" \notin alt_fd_list'[b].fd_flags
    BY DEF SharersAbove, Excl, Dev
  <2>1. CASE a = i
    BY <1>2, <2>1 DEF Excl, Dev
  <2>2. CASE b = i
    <3>1. Excl(a) /\ Dev(a) = e.dev /\ a \in Fds \ {i}
      BY <1>2, <2>2 DEF Excl, Dev
    <3>2. e.dev # NoDev
      <4>1. alt_fd_list[a].fd_flags # {}
        BY <3>1, Zenon DEF Excl
      <4> QED
        BY <3>1, <4>1 DEF FilesInv, TypeOK, Released, Dev
    <3>3. i > a
      BY <3>1, <3>2
    <3>4. "EXCL" \notin e.fd_flags
      BY <3>1, Zenon
    <3> QED
      BY <1>2, <2>2, <3>3, <3>4
  <2>3. CASE a # i /\ b # i
    BY <1>2, <2>3 DEF FilesInv, SharersAbove, Excl, Dev
  <2> QED
    BY <2>1, <2>2, <2>3
<1>8. StreamsOpen'
  <2>1. \A s \in Standard : alt_fd_list'[s].dev # NoDev
    BY <1>2, StandardAreDescriptors DEF FilesInv, StreamsOpen, Dev
  <2> QED
    BY <2>1 DEF StreamsOpen, Dev
<1>9. (NoNullDevice /\ Booting /\ Registered)'
  BY DEF FilesInv, NoNullDevice, Booting, Registered
<1>10. Directed'
  <2>1. \A s \in Standard : /\ alt_fd_list'[s].dev = alt_fd_list[s].dev
                            /\ alt_fd_list'[s].mode = alt_fd_list[s].mode
    BY <1>2, StandardAreDescriptors DEF Dev
  <2> QED
    BY <2>1, StandardAreDescriptors DEF FilesInv, Directed, Dev
<1>11. Covered'
  <2>1. \A fd \in Fds : alt_fd_list'[fd].dev # NoDev => fd <= alt_max_fd'
    <3> SUFFICES ASSUME NEW fd \in Fds, alt_fd_list'[fd].dev # NoDev, fd # i
                 PROVE  fd <= alt_max_fd'
      BY <1>2
    <3>1. fd <= alt_max_fd
      BY <1>2 DEF FilesInv, Covered, Dev
    <3> QED
      BY <1>3, <3>1 DEF Fds
  <2> QED
    BY <2>1 DEF Covered, Dev
<1> QED
  BY <1>4, <1>5, <1>6, <1>7, <1>8, <1>9, <1>10, <1>11 DEF FilesInv

\* The new descriptor holds no lock, and nothing else holds one on its device.
LEMMA OpenDoneKeeps ==
  ASSUME FilesInv, NEW name \in Devices \union {Unknown}, NEW mode \in Modes,
         NEW flags \in {{}, {"NONBLOCK"}}, OpenDone(name, mode, flags)
  PROVE  FilesInv'
<1> USE FilesAssumption
<1> DEFINE e == Opened(name, mode, flags)
<1>1. /\ boot = "main" /\ name \in Devices /\ Free # {}
      /\ UNCHANGED <<registered, boot>> /\ ret' = "ok"
  BY DEF OpenDone, Returns, FilesInv, Registered, Devices
<1>2. PICK i \in Fds : i = FirstFree /\ Dev(i) = NoDev
  BY <1>1, FirstFreeIsLeast
<1>3. /\ name \in FileSystems \/ ~Locked(name, i)
      /\ alt_fd_list' = [alt_fd_list EXCEPT ![i] = e]
      /\ alt_max_fd' = Mark(i) /\ held' = held \union {i}
  BY <1>2 DEF OpenDone
<1>4. alt_max_fd' \in alt_max_fd .. MaxFd - 1 /\ i <= alt_max_fd'
  BY <1>3, MarkGrows DEF FilesInv, TypeOK
<1>5. /\ e \in Entries /\ e.dev = name /\ name # NoDev
      /\ e.fd_flags = flags \union (IF name \in FileSystems THEN {} ELSE {"DEV"})
  BY <1>1 DEF Opened, Entries, Access
<1>6. i \notin Standard
  BY <1>2 DEF FilesInv, StreamsOpen
<1>7. \A fd \in Fds : Dev(fd) = name => ~Excl(fd)
  <2>1. CASE name \in FileSystems
    BY <2>1 DEF FilesInv, FlagsFit
  <2>2. CASE ~Locked(name, i)
    BY <1>1, <1>2, <2>2, LocksAreSeen
  <2> QED
    BY <1>3, <2>1, <2>2
<1>8. "EXCL" \notin e.fd_flags /\ ("DEV" \in e.fd_flags => e.dev \notin FileSystems)
  BY <1>5
<1>9. held' = IF e.dev = NoDev THEN held \ {i}
              ELSE IF i \in Standard THEN held ELSE held \union {i}
  BY <1>3, <1>5, <1>6
<1>10. "ok" \in Codes \ {"null"}
  BY DEF Codes
<1> HIDE DEF e
<1> QED
  BY <1>1, <1>3, <1>4, <1>5, <1>6, <1>7, <1>8, <1>9, <1>10, EntryChanges

LEMMA CloseKeeps ==
  ASSUME FilesInv, NEW fd \in Usable, Close(fd)
  PROVE  FilesInv'
<1> USE FilesAssumption
<1>1. fd \in Fds /\ Dev(fd) # NoDev
  BY UsableIsOpen
<1>2. /\ boot = "main" /\ ret' \in Codes \ {"null"} /\ CloseFree(fd) /\ held' = held \ {fd}
      /\ UNCHANGED <<registered, boot, alt_max_fd>>
  BY <1>1 DEF Close, Through, Returns, Codes
<1>3. alt_max_fd' \in alt_max_fd .. MaxFd - 1
  BY <1>2 DEF FilesInv, TypeOK
<1>4. CASE fd \in Standard
  <2>1. UNCHANGED <<alt_fd_list, held>>
    BY <1>2, <1>4 DEF CloseFree, FilesInv, NoneLeaks
  <2> QED
    BY <1>2, <1>3, <2>1, PoolUnchanged
<1>5. CASE fd \notin Standard
  <2>1. alt_fd_list' = [alt_fd_list EXCEPT ![fd] = Released]
    BY <1>2, <1>5 DEF CloseFree
  <2>2. Released \in Entries /\ Released.dev = NoDev /\ Released.fd_flags = {}
    BY DEF Released, Entries, Access
  <2>3. "EXCL" \notin Released.fd_flags /\ "DEV" \notin Released.fd_flags
    BY <2>2
  <2> QED
    BY <1>1, <1>2, <1>3, <1>5, <2>1, <2>2, <2>3, EntryChanges
<1> QED
  BY <1>4, <1>5

\* The flags of a descriptor that the program may use change.
LEMMA FlagsChange ==
  ASSUME FilesInv, boot = "main", NEW fd \in Usable,
         NEW flags \in SUBSET {"EXCL", "DEV", "NONBLOCK"},
         "DEV" \in flags <=> "DEV" \in alt_fd_list[fd].fd_flags,
         \/ "EXCL" \in flags => Excl(fd)
         \/ "DEV" \in flags /\ ~Shared(fd),
         alt_fd_list' = [alt_fd_list EXCEPT ![fd].fd_flags = flags],
         ret' \in Codes \ {"null"}, UNCHANGED <<alt_max_fd, held, registered, boot>>
  PROVE  FilesInv'
<1> USE FilesAssumption
<1> DEFINE e == [alt_fd_list[fd] EXCEPT !.fd_flags = flags]
<1>1. fd \in Fds /\ Dev(fd) # NoDev
  BY UsableIsOpen
<1>2. alt_fd_list \in [Fds -> Entries] /\ alt_max_fd \in -1 .. MaxFd - 1
  BY DEF FilesInv, TypeOK, Entries
<1>3. e \in Entries /\ e.dev = Dev(fd) /\ e.mode = alt_fd_list[fd].mode /\ e.fd_flags = flags
  BY <1>1, <1>2 DEF Entries, Dev
<1>4. alt_fd_list' = [alt_fd_list EXCEPT ![fd] = e]
  BY <1>1, <1>2
<1>5. "EXCL" \in flags => "DEV" \in flags
  BY <1>1 DEF FilesInv, FlagsFit
<1>6. "DEV" \in flags => Dev(fd) \notin FileSystems
  BY <1>1 DEF FilesInv, FlagsFit
<1>7. fd <= alt_max_fd /\ alt_max_fd' \in alt_max_fd .. MaxFd - 1
  BY <1>1, <1>2 DEF FilesInv, Covered
<1>8. \A other \in Fds \ {fd} : Excl(other) /\ Dev(other) = Dev(fd) => fd > other
  BY <1>1 DEF FilesInv, SharersAbove, Excl
<1>9. "EXCL" \in flags => \A other \in Fds \ {fd} : Dev(other) = Dev(fd) => other > fd /\ ~Excl(other)
  <2>1. CASE "EXCL" \in flags => Excl(fd)
    BY <1>1, <2>1 DEF FilesInv, SharersAbove, Excl
  <2>2. CASE ~Shared(fd)
    <3> SUFFICES ASSUME NEW other \in Fds \ {fd}, Dev(other) = Dev(fd)
                 PROVE  other > fd /\ ~Excl(other)
      OBVIOUS
    <3>1. other <= alt_max_fd
      BY <1>1 DEF FilesInv, Covered
    <3>2. other \notin 0 .. alt_max_fd - 1
      BY <2>2, Zenon DEF Shared
    <3>3. other = alt_max_fd
      BY <1>2, <3>1, <3>2 DEF Fds
    <3>4. other > fd
      BY <1>1, <1>7, <3>3 DEF Fds
    <3>5. ~Excl(other)
      <4>1. fd \in Fds \ {other}
        BY <1>1
      <4>2. Excl(other) => fd > other
        BY <1>1 DEF FilesInv, SharersAbove, Excl
      <4> QED
        BY <1>1, <3>4, <4>2 DEF Fds
    <3> QED
      BY <3>4, <3>5
  <2> QED
    BY <2>1, <2>2
<1>10. held' = IF e.dev = NoDev THEN held \ {fd}
               ELSE IF fd \in Standard THEN held ELSE held \union {fd}
  <2>1. fd \in Standard \/ fd \in held
    BY DEF Usable
  <2> QED
    BY <1>1, <1>3, <2>1
<1> HIDE DEF e
<1> QED
  BY <1>1, <1>3, <1>4, <1>5, <1>6, <1>7, <1>8, <1>9, <1>10, EntryChanges

\* The calls that change flags: a lock is only taken when the scan sees no sharer.
LEMMA FlagCallsKeep ==
  ASSUME FilesInv, NEW fd \in Usable,
         Lock(fd) \/ Unlock(fd) \/ \E flags \in {{}, {"NONBLOCK"}} : SetFlags(fd, flags)
  PROVE  FilesInv'
<1> USE DEF Returns
<1>1. /\ boot = "main" /\ ret' \in Codes \ {"null"}
      /\ UNCHANGED <<alt_max_fd, held, registered, boot>>
  BY DEF Lock, Unlock, SetFlags, Codes
<1>2. fd \in Fds /\ alt_fd_list \in [Fds -> Entries]
  BY UsableIsOpen DEF FilesInv, TypeOK, Entries
<1>3. alt_fd_list[fd].fd_flags \in SUBSET {"EXCL", "DEV", "NONBLOCK"}
  BY <1>2 DEF Entries
<1>4. CASE Lock(fd)
  <2>1. CASE Shared(fd)
    <3>1. alt_max_fd' \in alt_max_fd .. MaxFd - 1
      BY <1>1, FilesAssumption DEF FilesInv, TypeOK
    <3> QED
      BY <1>1, <1>4, <2>1, <3>1, PoolUnchanged DEF Lock
  <2>2. CASE ~Shared(fd)
    <3> DEFINE f == alt_fd_list[fd].fd_flags \union {"EXCL"}
    <3>1. /\ alt_fd_list' = [alt_fd_list EXCEPT ![fd].fd_flags = f]
          /\ "DEV" \in alt_fd_list[fd].fd_flags
      BY <1>4, <2>2 DEF Lock
    <3>2. f \in SUBSET {"EXCL", "DEV", "NONBLOCK"} /\ "DEV" \in f
      BY <1>3, <3>1
    <3> HIDE DEF f
    <3> QED
      BY <1>1, <2>2, <3>1, <3>2, FlagsChange
  <2> QED
    BY <2>1, <2>2
<1>5. CASE Unlock(fd)
  <2> DEFINE f == alt_fd_list[fd].fd_flags \ {"EXCL"}
  <2>1. alt_fd_list' = [alt_fd_list EXCEPT ![fd].fd_flags = f]
    BY <1>5 DEF Unlock
  <2>2. /\ f \in SUBSET {"EXCL", "DEV", "NONBLOCK"} /\ "EXCL" \notin f
        /\ "DEV" \in f <=> "DEV" \in alt_fd_list[fd].fd_flags
    BY <1>3
  <2> HIDE DEF f
  <2> QED
    BY <1>1, <2>1, <2>2, FlagsChange
<1>6. CASE \E flags \in {{}, {"NONBLOCK"}} : SetFlags(fd, flags)
  <2>1. PICK flags \in {{}, {"NONBLOCK"}} : SetFlags(fd, flags)
    BY <1>6
  <2> DEFINE f == Settable(fd, flags)
  <2>2. alt_fd_list' = [alt_fd_list EXCEPT ![fd].fd_flags = f]
    BY <2>1 DEF SetFlags
  <2>3. /\ f \in SUBSET {"EXCL", "DEV", "NONBLOCK"} /\ ("EXCL" \in f => Excl(fd))
        /\ "DEV" \in f <=> "DEV" \in alt_fd_list[fd].fd_flags
    BY <1>3 DEF Settable, Excl
  <2> HIDE DEF f
  <2> QED
    BY <1>1, <2>2, <2>3, FlagsChange
<1> QED
  BY <1>4, <1>5, <1>6

LEMMA InvStep == FilesInv /\ [Next]_vars => FilesInv'
<1> SUFFICES ASSUME FilesInv, [Next]_vars PROVE FilesInv'
  OBVIOUS
<1>1. CASE Register \/ Redirect
  BY <1>1, RegisterKeeps, RedirectKeeps
<1>2. CASE Open
  <2>1. PICK name \in Devices \union {Unknown} :
          \/ OpenNoDevice(name) \/ OpenNoDescriptor(name) \/ OpenLocked(name) \/ OpenRefused(name)
          \/ \E mode \in Modes, flags \in {{}, {"NONBLOCK"}} : OpenDone(name, mode, flags)
    BY <1>2 DEF Open
  <2> QED
    BY <2>1, FailingKeeps, OpenDoneKeeps
<1>3. CASE BadDescriptor
  BY <1>3, AskingKeeps
<1>4. CASE \E name \in Devices \union {Unknown} : Stat(name)
  BY <1>4, FailingKeeps
<1>5. CASE \E fd \in Usable : \/ Close(fd) \/ Read(fd) \/ Write(fd)
                              \/ Ioctl(fd) \/ Lseek(fd) \/ Fstat(fd) \/ Isatty(fd)
                              \/ Lock(fd) \/ Unlock(fd)
                              \/ \E flags \in {{}, {"NONBLOCK"}} : SetFlags(fd, flags)
  BY <1>5, CloseKeeps, AskingKeeps, FlagCallsKeep
<1>6. CASE UNCHANGED vars
  BY <1>6 DEF vars, FilesInv, TypeOK, NoNullDevice, NoneLeaks, SharersAbove, FlagsFit, StreamsOpen,
              Booting, Registered, Directed, Covered, Excl, Dev
<1> QED
  BY <1>1, <1>2, <1>3, <1>4, <1>5, <1>6 DEF Next

\* What the invariant rests on, as a theorem of the specification.
LEMMA AlwaysInv == Spec => []FilesInv
BY InvInit, InvStep, PTL DEF Spec

\* The pool, the mark and the results stay what their types say, and a free entry is blank.
THEOREM FilesTypes == Spec => []TypeOK
<1>1. FilesInv => TypeOK
  BY DEF FilesInv
<1> QED
  BY <1>1, AlwaysInv, PTL

\* No call follows a null device, whatever has been closed, refused or given back.
THEOREM NeverNull == Spec => []NoNullDevice
<1>1. FilesInv => NoNullDevice
  BY DEF FilesInv
<1> QED
  BY <1>1, AlwaysInv, PTL

\* The descriptors in use beyond the standard ones are exactly those the program holds.
THEOREM DescriptorsNotLost == Spec => []NoneLeaks
<1>1. FilesInv => NoneLeaks
  BY DEF FilesInv
<1> QED
  BY <1>1, AlwaysInv, PTL

\* No descriptor in use lies above the mark that the scans end at.
THEOREM ScansSeeAll == Spec => []MarkCovers
<1>1. FilesInv => MarkCovers
  BY DEF FilesInv, Covered, MarkCovers
<1> QED
  BY <1>1, AlwaysInv, PTL

\* The standard streams can be used from the start of main on.
THEOREM StreamsStay == Spec => []StreamsWork
<1>1. FilesInv => StreamsWork
  <2> SUFFICES ASSUME FilesInv, boot = "main" PROVE StreamsWork
    BY DEF StreamsWork
  <2>1. \A s \in Standard : s = 0 \/ s = 1 \/ s = 2
    BY DEF Standard
  <2> QED
    BY <2>1 DEF FilesInv, Directed, StreamsWork
<1> QED
  BY <1>1, AlwaysInv, PTL
-------------------------------------------------------------------------------
(* The calls implement OpenFiles. *)

\* A device's holder is the descriptor that locks it.
HolderFits ==
  \A d \in Devices :
    /\ \A fd \in Fds : Holder(d) = fd <=> Dev(fd) = d /\ Excl(fd)
    /\ Holder(d) \in Fds \union {NoHandle}

LEMMA HolderIs == FilesInv => HolderFits
<1> SUFFICES ASSUME FilesInv, NEW d \in Devices
             PROVE  /\ \A fd \in Fds : Holder(d) = fd <=> Dev(fd) = d /\ Excl(fd)
                    /\ Holder(d) \in Fds \union {NoHandle}
  BY DEF HolderFits
<1>1. NoHandle \notin Fds
  BY FilesAssumption DEF NoHandle, Fds
<1>2. CASE \E fd \in Fds : Dev(fd) = d /\ Excl(fd)
  <2>1. Holder(d) \in Fds /\ Dev(Holder(d)) = d /\ Excl(Holder(d))
    <3> DEFINE P(fd) == Dev(fd) = d /\ "EXCL" \in alt_fd_list[fd].fd_flags
    <3>1. Holder(d) = CHOOSE fd \in Fds : P(fd)
      BY <1>2, Zenon DEF Holder, Excl
    <3>2. \E fd \in Fds : P(fd)
      BY <1>2, Zenon DEF Excl
    <3> HIDE DEF P
    <3>3. Holder(d) \in Fds /\ P(Holder(d))
      BY <3>1, <3>2, Zenon
    <3> QED
      BY <3>3, Zenon DEF P, Excl
  <2>2. \A fd \in Fds : Dev(fd) = d /\ Excl(fd) => fd = Holder(d)
    BY <2>1, Zenon DEF FilesInv, SharersAbove, Excl
  <2> QED
    BY <2>1, <2>2, Zenon
<1>3. CASE ~ \E fd \in Fds : Dev(fd) = d /\ Excl(fd)
  <2>1. Holder(d) = NoHandle
    BY <1>3, Zenon DEF Holder, Excl
  <2> QED
    BY <1>1, <1>3, <2>1, Zenon
<1> QED
  BY <1>2, <1>3

LEMMA HolderIsNext == FilesInv' => HolderFits'
BY HolderIs, PTL

\* Descriptors with the same device and the same locks on it: the same holder.
LEMMA SameHolder ==
  ASSUME HolderFits, HolderFits', NEW d \in Devices,
         \A fd \in Fds : (Dev(fd) = d /\ Excl(fd)) <=> (Dev(fd) = d /\ Excl(fd))'
  PROVE  Holder(d)' = Holder(d)
<1>1. /\ \A fd \in Fds : Holder(d) = fd <=> Dev(fd) = d /\ Excl(fd)
      /\ \A fd \in Fds : Holder(d)' = fd <=> (Dev(fd) = d /\ Excl(fd))'
      /\ Holder(d) \in Fds \union {NoHandle} /\ Holder(d)' \in Fds \union {NoHandle}
  BY Zenon DEF HolderFits
<1>2. CASE Holder(d) \in Fds
  BY <1>1, <1>2, Zenon
<1>3. CASE Holder(d)' \in Fds
  BY <1>1, <1>3, Zenon
<1> QED
  BY <1>1, <1>2, <1>3

\* A device that none locks has no holder.
LEMMA NoHolder ==
  ASSUME HolderFits, NEW d \in Devices, \A fd \in Fds : Dev(fd) = d => ~Excl(fd)
  PROVE  Holder(d) = NoHandle
BY Zenon DEF HolderFits

LEMMA PromisedInit == Init => Promised!Init
<1> SUFFICES ASSUME Init PROVE Promised!Init
  OBVIOUS
<1>1. FilesInv /\ HolderFits
  BY InvInit, HolderIs
<1>2. \A d \in Devices : Holder(d) = NoHandle
  <2>1. \A fd \in Fds : ~Excl(fd)
    BY <1>1 DEF Init, FilesInv, Booting
  <2> QED
    BY <1>1, <2>1, NoHolder, Zenon
<1>3. \A fd \in Fds : Dev(fd) \in Devices \union {NoDev}
  BY <1>1 DEF FilesInv, TypeOK, Dev
<1>4. \A fd \in Fds : Dev(fd) # NoDev <=> fd \in Standard
  BY FilesAssumption DEF Init, Dev, Released, Devices
<1>5. [fd \in Fds |-> Dev(fd)] \in [Fds -> Devices \union {NoDev}]
  BY <1>3
<1>6. [d \in Devices |-> Holder(d)] = [d \in Devices |-> NoHandle]
  BY <1>2, Zenon
<1>7. \A h \in Fds : [fd \in Fds |-> Dev(fd)][h] # NoDev <=> h \in Standard
  BY <1>4
<1> QED
  BY <1>5, <1>6, <1>7 DEF Promised!Init

\* The pool is what it was: nothing happens to the promise.
LEMMA PoolStutters ==
  ASSUME UNCHANGED alt_fd_list
  PROVE  UNCHANGED Promised!vars
<1>1. UNCHANGED [fd \in Fds |-> Dev(fd)]
  BY Zenon DEF Dev
<1>2. UNCHANGED [d \in Devices |-> Holder(d)]
  BY Zenon DEF Holder, Dev
<1> QED
  BY <1>1, <1>2 DEF Promised!vars

\* An open or a redirection: descriptor i gets a device that none locks, and no lock.
LEMMA DeviceChanges ==
  ASSUME FilesInv, FilesInv', NEW i \in Fds, NEW e, ~Excl(i),
         "EXCL" \notin e.fd_flags,
         alt_fd_list' = [alt_fd_list EXCEPT ![i] = e]
  PROVE  /\ [fd \in Fds |-> Dev(fd)]' = [[fd \in Fds |-> Dev(fd)] EXCEPT ![i] = e.dev]
         /\ UNCHANGED [d \in Devices |-> Holder(d)]
<1>1. alt_fd_list'[i] = e /\ \A fd \in Fds \ {i} : alt_fd_list'[fd] = alt_fd_list[fd]
  BY DEF FilesInv, TypeOK
<1>2. \A fd \in Fds : alt_fd_list'[fd].dev = IF fd = i THEN e.dev ELSE alt_fd_list[fd].dev
  BY <1>1
<1>3. [fd \in Fds |-> Dev(fd)]' = [[fd \in Fds |-> Dev(fd)] EXCEPT ![i] = e.dev]
  BY <1>2 DEF Dev
<1>4. \A d \in Devices : Holder(d)' = Holder(d)
  <2> TAKE d \in Devices
  <2>1. \A fd \in Fds : (Dev(fd) = d /\ Excl(fd)) <=> (Dev(fd) = d /\ Excl(fd))'
    <3>1. \A fd \in Fds : "EXCL" \in alt_fd_list'[fd].fd_flags
                          <=> fd # i /\ "EXCL" \in alt_fd_list[fd].fd_flags
      BY <1>1
    <3>2. \A fd \in Fds : "EXCL" \in alt_fd_list[fd].fd_flags => fd # i
      BY DEF Excl
    <3> QED
      BY <1>2, <3>1, <3>2 DEF Dev, Excl
  <2> QED
    BY <2>1, HolderIs, HolderIsNext, SameHolder, Zenon
<1>5. UNCHANGED [d \in Devices |-> Holder(d)]
  BY <1>4, Zenon
<1> QED
  BY <1>3, <1>5

LEMMA OpenPromised ==
  ASSUME FilesInv, FilesInv', NEW name \in Devices \union {Unknown}, NEW mode \in Modes,
         NEW flags \in {{}, {"NONBLOCK"}}, OpenDone(name, mode, flags)
  PROVE  Promised!Next
<1> DEFINE e == Opened(name, mode, flags)
<1>1. boot = "main" /\ name \in Devices /\ Free # {}
  BY FilesAssumption DEF OpenDone, Returns, FilesInv, Registered, Devices
<1>2. PICK i \in Fds : i = FirstFree /\ Dev(i) = NoDev
  BY <1>1, FirstFreeIsLeast
<1>3. /\ name \in FileSystems \/ ~Locked(name, i)
      /\ alt_fd_list' = [alt_fd_list EXCEPT ![i] = e]
  BY <1>2 DEF OpenDone
<1>4. \A fd \in Fds : Dev(fd) = name => ~Excl(fd)
  <2>1. CASE name \in FileSystems
    BY <2>1 DEF FilesInv, FlagsFit
  <2>2. CASE ~Locked(name, i)
    BY <1>1, <1>2, <2>2, LocksAreSeen
  <2> QED
    BY <1>3, <2>1, <2>2
<1>5. ~Excl(i)
  BY <1>2 DEF FilesInv, TypeOK, Released, Excl, Dev
<1>6. "EXCL" \notin e.fd_flags /\ e.dev = name
  BY DEF Opened
<1> HIDE DEF e
<1>7. /\ [fd \in Fds |-> Dev(fd)]' = [[fd \in Fds |-> Dev(fd)] EXCEPT ![i] = name]
      /\ UNCHANGED [d \in Devices |-> Holder(d)]
  BY <1>3, <1>5, <1>6, DeviceChanges
<1>8. [d \in Devices |-> Holder(d)][name] = NoHandle
  BY <1>1, <1>4, HolderIs, NoHolder, Zenon
<1>9. [fd \in Fds |-> Dev(fd)][i] = NoDev
  BY <1>2
<1> QED
  BY <1>1, <1>7, <1>8, <1>9 DEF Promised!Next, Promised!Open

LEMMA RedirectPromised ==
  ASSUME FilesInv, FilesInv', Redirect
  PROVE  Promised!Next \/ UNCHANGED Promised!vars
<1> DEFINE next(s) == IF s = 1 THEN "stdin" ELSE IF s = 0 THEN "stderr" ELSE "main"
<1>1. PICK s \in Standard : boot # "main" /\ RedirectTo(s, next(s))
  BY StandardAreDescriptors DEF Redirect
<1>2. s \in Fds /\ Uart \in Devices
  BY StandardAreDescriptors DEF Devices
<1>3. \A fd \in Fds : ~Excl(fd)
  BY <1>1 DEF FilesInv, Booting
<1>4. CASE UNCHANGED alt_fd_list
  BY <1>4, PoolStutters
<1>5. CASE alt_fd_list' = [alt_fd_list EXCEPT ![s] = Opened(Uart, StreamMode(s), {})]
  <2> DEFINE e == Opened(Uart, StreamMode(s), {})
  <2>1. "EXCL" \notin e.fd_flags /\ e.dev = Uart
    BY DEF Opened
  <2> HIDE DEF e
  <2>2. /\ [fd \in Fds |-> Dev(fd)]' = [[fd \in Fds |-> Dev(fd)] EXCEPT ![s] = Uart]
        /\ UNCHANGED [d \in Devices |-> Holder(d)]
    BY <1>2, <1>3, <1>5, <2>1, DeviceChanges DEF e
  <2>3. [d \in Devices |-> Holder(d)] = [d \in Devices |-> NoHandle]
    <3>1. \A d \in Devices : Holder(d) = NoHandle
      BY <1>3, HolderIs, NoHolder, Zenon
    <3> QED
      BY <3>1, Zenon
  <2> QED
    BY <1>1, <1>2, <2>2, <2>3 DEF Promised!Next, Promised!Redirect
<1> QED
  BY <1>1, <1>4, <1>5 DEF RedirectTo

LEMMA ClosePromised ==
  ASSUME FilesInv, FilesInv', NEW fd \in Usable, Close(fd)
  PROVE  Promised!Next \/ UNCHANGED Promised!vars
<1>1. fd \in Fds /\ Dev(fd) # NoDev /\ CloseFree(fd)
  BY UsableIsOpen DEF Close
<1>2. CASE fd \in Standard
  BY <1>1, <1>2, PoolStutters DEF CloseFree
<1>3. CASE fd \notin Standard
  <2>1. /\ alt_fd_list'[fd] = Released
        /\ \A other \in Fds \ {fd} : alt_fd_list'[other] = alt_fd_list[other]
    BY <1>1, <1>3 DEF CloseFree, FilesInv, TypeOK
  <2>2. [h \in Fds |-> Dev(h)]' = [[h \in Fds |-> Dev(h)] EXCEPT ![fd] = NoDev]
    <3>1. \A h \in Fds : alt_fd_list'[h].dev = IF h = fd THEN NoDev ELSE alt_fd_list[h].dev
      BY <2>1 DEF Released
    <3> QED
      BY <3>1 DEF Dev
  <2>3. \A d \in Devices : Holder(d)' = IF Holder(d) = fd THEN NoHandle ELSE Holder(d)
    <3> TAKE d \in Devices
    <3>1. HolderFits /\ HolderFits'
      BY HolderIs, HolderIsNext
    <3>2. \A h \in Fds : (Dev(h) = d /\ Excl(h))' <=> h # fd /\ Dev(h) = d /\ Excl(h)
      BY <2>1 DEF Dev, Excl, Released
    <3>3. CASE Holder(d) = fd
      <4>1. \A h \in Fds : ~(Dev(h) = d /\ Excl(h))'
        BY <1>1, <3>1, <3>2, <3>3, Zenon DEF HolderFits
      <4>2. /\ \A h \in Fds : Holder(d)' = h <=> (Dev(h) = d /\ Excl(h))'
            /\ Holder(d)' \in Fds \union {NoHandle}
        BY <3>1, Zenon DEF HolderFits
      <4> QED
        BY <3>3, <4>1, <4>2, Zenon
    <3>4. CASE Holder(d) # fd
      <4>1. ~(Dev(fd) = d /\ Excl(fd))
        BY <1>1, <3>1, <3>4, Zenon DEF HolderFits
      <4>2. \A h \in Fds : (Dev(h) = d /\ Excl(h)) <=> (Dev(h) = d /\ Excl(h))'
        BY <3>2, <4>1, Zenon
      <4> QED
        BY <3>1, <3>4, <4>2, SameHolder, Zenon
    <3> QED
      BY <3>3, <3>4
  <2>4. [d \in Devices |-> Holder(d)]'
        = [d \in Devices |-> IF [c \in Devices |-> Holder(c)][d] = fd THEN NoHandle
                             ELSE [c \in Devices |-> Holder(c)][d]]
    BY <2>3
  <2>5. [h \in Fds |-> Dev(h)][fd] # NoDev
    BY <1>1
  <2> QED
    BY <1>1, <1>3, <2>2, <2>4, <2>5 DEF Promised!Next, Promised!Close
<1> QED
  BY <1>2, <1>3

\* The devices stay and so do the locks of every descriptor but fd.
LEMMA LocksChange ==
  ASSUME FilesInv, FilesInv', NEW fd \in Usable, NEW flags \in SUBSET {"EXCL", "DEV", "NONBLOCK"},
         alt_fd_list' = [alt_fd_list EXCEPT ![fd].fd_flags = flags]
  PROVE  /\ UNCHANGED [h \in Fds |-> Dev(h)]
         /\ \A h \in Fds : Dev(h)' = Dev(h) /\ (h # fd => (Excl(h)' <=> Excl(h)))
         /\ Excl(fd)' <=> "EXCL" \in flags
<1>1. fd \in Fds /\ alt_fd_list \in [Fds -> Entries]
  BY UsableIsOpen DEF FilesInv, TypeOK, Entries
<1>2. /\ \A h \in Fds : alt_fd_list'[h].dev = alt_fd_list[h].dev
      /\ \A h \in Fds \ {fd} : alt_fd_list'[h].fd_flags = alt_fd_list[h].fd_flags
      /\ alt_fd_list'[fd].fd_flags = flags
  BY <1>1 DEF Entries
<1>3. UNCHANGED [h \in Fds |-> Dev(h)]
  BY <1>2 DEF Dev
<1>4. \A h \in Fds : Dev(h)' = Dev(h) /\ (h # fd => (Excl(h)' <=> Excl(h)))
  BY <1>2 DEF Dev, Excl
<1>5. Excl(fd)' <=> "EXCL" \in flags
  BY <1>2 DEF Excl
<1> QED
  BY <1>3, <1>4, <1>5

LEMMA FlagsPromised ==
  ASSUME FilesInv, FilesInv', NEW fd \in Usable, NEW flags \in SUBSET {"EXCL", "DEV", "NONBLOCK"},
         alt_fd_list' = [alt_fd_list EXCEPT ![fd].fd_flags = flags]
  PROVE  Promised!Next \/ UNCHANGED Promised!vars
<1>1. fd \in Fds /\ Dev(fd) # NoDev /\ Dev(fd) \in Devices
  BY UsableIsOpen DEF FilesInv, TypeOK, Dev
<1>2. /\ UNCHANGED [h \in Fds |-> Dev(h)]
      /\ \A h \in Fds : Dev(h)' = Dev(h) /\ (h # fd => (Excl(h)' <=> Excl(h)))
  BY LocksChange
<1>3. HolderFits /\ HolderFits'
  BY HolderIs, HolderIsNext
<1>4. \A d \in Devices : d # Dev(fd) => Holder(d)' = Holder(d)
  <2> SUFFICES ASSUME NEW d \in Devices, d # Dev(fd) PROVE Holder(d)' = Holder(d)
    OBVIOUS
  <2>1. \A h \in Fds : (Dev(h) = d /\ Excl(h)) <=> (Dev(h) = d /\ Excl(h))'
    BY <1>2, Zenon
  <2> QED
    BY <1>3, <2>1, SameHolder, Zenon
<1>5. CASE Excl(fd)' <=> Excl(fd)
  <2>1. \A d \in Devices : Holder(d)' = Holder(d)
    <3> TAKE d \in Devices
    <3>1. \A h \in Fds : (Dev(h) = d /\ Excl(h)) <=> (Dev(h) = d /\ Excl(h))'
      BY <1>2, <1>5, Zenon
    <3> QED
      BY <1>3, <3>1, SameHolder, Zenon
  <2>2. UNCHANGED [d \in Devices |-> Holder(d)]
    BY <2>1, Zenon
  <2> QED
    BY <1>2, <2>2 DEF Promised!vars
<1>6. CASE Excl(fd)' /\ ~Excl(fd)
  <2>1. Holder(Dev(fd)) = NoHandle
    <3>1. \A h \in Fds : h # fd /\ Dev(h)' = Dev(fd)' => ~Excl(h)'
      BY <1>1, <1>6, Zenon DEF FilesInv, SharersAbove, Excl
    <3>2. \A h \in Fds : Dev(h) = Dev(fd) => ~Excl(h)
      BY <1>1, <1>2, <1>6, <3>1, Zenon
    <3> QED
      BY <1>1, <1>3, <3>2, NoHolder, Zenon
  <2>2. \A d \in Devices : Holder(d)' = IF d = Dev(fd) THEN fd ELSE Holder(d)
    BY <1>1, <1>2, <1>3, <1>4, <1>6, Zenon DEF HolderFits
  <2>3. [d \in Devices |-> Holder(d)]' = [[d \in Devices |-> Holder(d)] EXCEPT ![Dev(fd)] = fd]
    BY <1>1, <2>2
  <2>4. [h \in Fds |-> Dev(h)][fd] = Dev(fd) /\ [d \in Devices |-> Holder(d)][Dev(fd)] = NoHandle
    BY <1>1, <2>1
  <2> QED
    BY <1>1, <1>2, <2>3, <2>4 DEF Promised!Next, Promised!Lock
<1>7. CASE ~Excl(fd)' /\ Excl(fd)
  <2>1. Holder(Dev(fd)) = fd
    BY <1>1, <1>3, <1>7, Zenon DEF HolderFits
  <2>2. \A d \in Devices : d = Dev(fd) => Holder(d)' = NoHandle
    <3> SUFFICES ASSUME NEW d \in Devices, d = Dev(fd) PROVE Holder(d)' = NoHandle
      OBVIOUS
    <3>1. \A h \in Fds : Dev(h) = d /\ Excl(h) => h = fd
      BY <1>3, <2>1, Zenon DEF HolderFits
    <3>2. \A h \in Fds : h # fd => ~(Dev(h)' = d /\ Excl(h)')
      BY <1>2, <3>1, Zenon
    <3>3. \A h \in Fds : ~(Dev(h)' = d /\ Excl(h)')
      BY <1>7, <3>2, Zenon
    <3> QED
      BY <1>3, <3>3, Zenon DEF HolderFits
  <2>3. \A d \in Devices : Holder(d)' = IF d = Dev(fd) THEN NoHandle ELSE Holder(d)
    BY <1>4, <2>2, Zenon
  <2>4. [d \in Devices |-> Holder(d)]'
        = [[d \in Devices |-> Holder(d)] EXCEPT ![Dev(fd)] = NoHandle]
    BY <1>1, <2>3
  <2>5. [h \in Fds |-> Dev(h)][fd] = Dev(fd) /\ [d \in Devices |-> Holder(d)][Dev(fd)] = fd
    BY <1>1, <2>1
  <2> QED
    BY <1>1, <1>2, <2>4, <2>5 DEF Promised!Next, Promised!Unlock
<1> QED
  BY <1>5, <1>6, <1>7

LEMMA FlagCallsPromised ==
  ASSUME FilesInv, FilesInv', NEW fd \in Usable,
         Lock(fd) \/ Unlock(fd) \/ \E flags \in {{}, {"NONBLOCK"}} : SetFlags(fd, flags)
  PROVE  Promised!Next \/ UNCHANGED Promised!vars
<1>1. alt_fd_list[fd].fd_flags \in SUBSET {"EXCL", "DEV", "NONBLOCK"}
  <2>1. fd \in Fds /\ alt_fd_list \in [Fds -> Entries]
    BY UsableIsOpen DEF FilesInv, TypeOK, Entries
  <2> QED
    BY <2>1 DEF Entries
<1>2. \/ UNCHANGED alt_fd_list
      \/ \E f \in SUBSET {"EXCL", "DEV", "NONBLOCK"} :
           alt_fd_list' = [alt_fd_list EXCEPT ![fd].fd_flags = f]
  <2>1. CASE Lock(fd)
    BY <1>1, <2>1 DEF Lock
  <2>2. CASE Unlock(fd)
    BY <1>1, <2>2 DEF Unlock
  <2>3. CASE \E flags \in {{}, {"NONBLOCK"}} : SetFlags(fd, flags)
    BY <1>1, <2>3 DEF SetFlags, Settable
  <2> QED
    BY <2>1, <2>2, <2>3
<1> QED
  BY <1>2, PoolStutters, FlagsPromised

LEMMA PromisedStep ==
  ASSUME FilesInv, FilesInv', [Next]_vars
  PROVE  [Promised!Next]_Promised!vars
<1>1. CASE Register \/ BadDescriptor \/ \E name \in Devices \union {Unknown} : Stat(name)
  BY <1>1, PoolStutters DEF Register, BadDescriptor, Stat
<1>2. CASE Redirect
  BY <1>2, RedirectPromised
<1>3. CASE Open
  <2>1. PICK name \in Devices \union {Unknown} :
          \/ OpenNoDevice(name) \/ OpenNoDescriptor(name) \/ OpenLocked(name) \/ OpenRefused(name)
          \/ \E mode \in Modes, flags \in {{}, {"NONBLOCK"}} : OpenDone(name, mode, flags)
    BY <1>3 DEF Open
  <2> QED
    BY <2>1, FailingKeeps, PoolStutters, OpenPromised
<1>4. CASE \E fd \in Usable : \/ Close(fd) \/ Read(fd) \/ Write(fd)
                              \/ Ioctl(fd) \/ Lseek(fd) \/ Fstat(fd) \/ Isatty(fd)
                              \/ Lock(fd) \/ Unlock(fd)
                              \/ \E flags \in {{}, {"NONBLOCK"}} : SetFlags(fd, flags)
  <2>1. CASE \E fd \in Usable : \/ Read(fd) \/ Write(fd) \/ Ioctl(fd)
                                \/ Lseek(fd) \/ Fstat(fd) \/ Isatty(fd)
    BY <2>1, PoolStutters DEF Read, Write, Ioctl, Lseek, Fstat, Isatty
  <2>2. CASE \E fd \in Usable : Close(fd)
    BY <2>2, ClosePromised
  <2>3. CASE \E fd \in Usable : \/ Lock(fd) \/ Unlock(fd)
                                \/ \E flags \in {{}, {"NONBLOCK"}} : SetFlags(fd, flags)
    BY <2>3, FlagCallsPromised
  <2> QED
    BY <1>4, <2>1, <2>2, <2>3
<1>5. CASE UNCHANGED vars
  BY <1>5, PoolStutters DEF vars
<1> QED
  BY <1>1, <1>2, <1>3, <1>4, <1>5 DEF Next

\* Whatever the program calls, descriptors and locks behave as OpenFiles promises.
THEOREM FilesImplementOpenFiles == Spec => KeepsOpenFiles
<1>1. FilesInv /\ FilesInv' /\ [Next]_vars => [Promised!Next]_Promised!vars
  BY PromisedStep
<1> QED
  BY <1>1, AlwaysInv, PromisedInit, PTL DEF Spec, KeepsOpenFiles, Promised!Spec
===============================================================================
