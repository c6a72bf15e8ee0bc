--------------------------------- MODULE Files ---------------------------------
(***************************************************************************)
(* File descriptors of the HAL: the pool alt_fd_list with its high-water   *)
(* mark, the lists of devices and file systems, redirection of the         *)
(* standard streams at start-up, and open, close, read, write, ioctl,      *)
(* fcntl, lseek, fstat, isatty and stat.  One program calls them and no    *)
(* interrupt does, so each call is a step.  The program only uses          *)
(* descriptors it holds, or negative ones that a failed open gave it.      *)
(***************************************************************************)
EXTENDS Integers

CONSTANTS MaxFd,                \* ALT_MAX_FD (32)
          Null, Uart,           \* the devices /dev/null and /dev/jtag_uart_0
          FileSystems,          \* mount points (none in this system)
          NoDev, Unknown,       \* the null pointer; a name that nothing has
          Modes                 \* access modes that the program opens with

Devices == {Null, Uart} \union FileSystems
Access == {"RDONLY", "WRONLY", "RDWR"}

ASSUME FilesAssumption ==
  /\ MaxFd \in Nat /\ MaxFd > 3
  /\ Null # Uart /\ {Null, Uart} \intersect FileSystems = {}
  /\ NoDev \notin Devices /\ Unknown \notin Devices
  /\ Modes \subseteq Access

Fds == 0 .. MaxFd - 1
Standard == 0 .. 2              \* STDIN_FILENO, STDOUT_FILENO, STDERR_FILENO

VARIABLES alt_fd_list,          \* device, access mode and other flags of each descriptor
          alt_max_fd,
          registered,           \* names of the devices and file systems on the lists
          boot,                 \* what start-up is at, then "main"
          held,                 \* descriptors that open returned and were not closed
          ret                   \* of the last call: an error, or "ok"

vars == <<alt_fd_list, alt_max_fd, registered, boot, held, ret>>

Released == [dev |-> NoDev, mode |-> "RDONLY", fd_flags |-> {}]

Init ==
  /\ alt_fd_list = [i \in Fds |-> IF i \in Standard THEN [Released EXCEPT !.dev = Null] ELSE Released]
  /\ alt_max_fd = -1
  /\ registered = {Null}
  /\ boot = "register" /\ held = {} /\ ret = "ok"
--------------------------------------------------------------------------------
(* The parts of open. *)

Free == {i \in Fds : alt_fd_list[i].dev = NoDev}
FirstFree == CHOOSE i \in Free : \A j \in Free : i <= j

Mark(i) == IF i > alt_max_fd THEN i ELSE alt_max_fd

\* alt_get_fd's entry for a device or file system after open has set its flags.
Opened(name, mode, flags) ==
  [dev |-> name, mode |-> mode,
   fd_flags |-> flags \union (IF name \in FileSystems THEN {} ELSE {"DEV"})]

LockedBelow(name, i) ==         \* mutant: the loop ends before the mark
  \E j \in 0 .. Mark(i) - 1 : /\ j # i /\ alt_fd_list[j].dev = name
                              /\ "EXCL" \in alt_fd_list[j].fd_flags
\* alt_file_locked, after descriptor i has been allocated; not for file systems.
Locked(name, i) ==
  \E j \in 0 .. Mark(i) : /\ j # i /\ alt_fd_list[j].dev = name
                          /\ "EXCL" \in alt_fd_list[j].fd_flags

ReleasedKept(i) ==              \* mutant: a descriptor taken in vain is kept
  alt_fd_list' = [alt_fd_list EXCEPT ![i] = Opened(Null, "RDONLY", {})]
\* alt_release_fd for a descriptor that was only allocated by the same call.
ReleasedAgain(i) == alt_fd_list' = [alt_fd_list EXCEPT ![i] = Released]
--------------------------------------------------------------------------------
(* Start-up: alt_sys_init registers the devices, alt_io_redirect opens one for *)
(* each stream and gives its entry to the stream.                              *)

Register ==
  /\ boot = "register"
  /\ registered' = Devices
  /\ boot' = "stdout"
  /\ UNCHANGED <<alt_fd_list, alt_max_fd, held, ret>>

StreamMode(s) == IF s = 0 THEN "RDONLY" ELSE "WRONLY"
RedirectTo(s, next) ==
  /\ IF Uart \in registered /\ Free # {} /\ ~Locked(Uart, FirstFree)
     THEN /\ alt_fd_list' = [alt_fd_list EXCEPT ![s] = Opened(Uart, StreamMode(s), {})]
          /\ alt_max_fd' = Mark(FirstFree)
     ELSE UNCHANGED <<alt_fd_list, alt_max_fd>>
  /\ boot' = next
  /\ UNCHANGED <<registered, held, ret>>

Redirect == \/ boot = "stdout" /\ RedirectTo(1, "stdin")
            \/ boot = "stdin"  /\ RedirectTo(0, "stderr")
            \/ boot = "stderr" /\ RedirectTo(2, "main")
--------------------------------------------------------------------------------
(* The program's calls. *)

Returns(code) == boot = "main" /\ ret' = code /\ UNCHANGED <<registered, boot>>
Usable == held \union Standard
Dev(fd) == alt_fd_list[fd].dev

OpenNoDevice(name) ==
  /\ name \notin registered
  /\ Returns("ENODEV")
  /\ UNCHANGED <<alt_fd_list, alt_max_fd, held>>

OpenNoDescriptor(name) ==
  /\ name \in registered /\ Free = {}
  /\ Returns("EMFILE")
  /\ UNCHANGED <<alt_fd_list, alt_max_fd, held>>

OpenLocked(name) ==
  /\ name \in registered \ FileSystems /\ Free # {} /\ Locked(name, FirstFree)
  /\ Returns("EACCES")
  /\ ReleasedAgain(FirstFree) /\ alt_max_fd' = Mark(FirstFree)
  /\ UNCHANGED held

\* A file system may have no such file.
OpenRefused(name) ==
  /\ name \in registered \intersect FileSystems /\ Free # {}
  /\ Returns("ENOENT")
  /\ ReleasedAgain(FirstFree) /\ alt_max_fd' = Mark(FirstFree)
  /\ UNCHANGED held

OpenDone(name, mode, flags) ==
  /\ name \in registered /\ Free # {}
  /\ name \in FileSystems \/ ~Locked(name, FirstFree)
  /\ Returns("ok")
  /\ alt_fd_list' = [alt_fd_list EXCEPT ![FirstFree] = Opened(name, mode, flags)]
  /\ alt_max_fd' = Mark(FirstFree)
  /\ held' = held \union {FirstFree}

Open == \E name \in Devices \union {Unknown} :
          \/ OpenNoDevice(name) \/ OpenNoDescriptor(name) \/ OpenLocked(name) \/ OpenRefused(name)
          \/ \E mode \in Modes, flags \in {{}, {"NONBLOCK"}} : OpenDone(name, mode, flags)

\* stat opens the name for reading, asks and closes; what close waits for is in JtagUart.
Stat(name) ==
  /\ IF name \in registered /\ Free # {} /\ (name \in FileSystems \/ ~Locked(name, FirstFree))
     THEN Returns("ok") ELSE Returns("EBADFD")
  /\ alt_max_fd' = IF name \in registered /\ Free # {} THEN Mark(FirstFree) ELSE alt_max_fd
  /\ UNCHANGED <<alt_fd_list, held>>

\* What a call that goes through the descriptor's device returns: a null pointer there is
\* followed.
Through(fd, code) == IF Dev(fd) = NoDev THEN Returns("null") ELSE Returns(code)

CloseFreeAll(fd) == alt_fd_list' = [alt_fd_list EXCEPT ![fd] = Released]    \* mutant
CloseFree(fd) ==
  alt_fd_list' = IF fd \in Standard THEN alt_fd_list ELSE [alt_fd_list EXCEPT ![fd] = Released]

\* The UART's close may fail when the descriptor does not wait; the descriptor is freed.
Close(fd) ==
  /\ \/ Through(fd, "ok")
     \/ Dev(fd) = Uart /\ "NONBLOCK" \in alt_fd_list[fd].fd_flags /\ Returns("EWOULDBLOCK")
     \/ Dev(fd) \in FileSystems /\ Returns("EIO")
  /\ CloseFree(fd)
  /\ held' = held \ {fd}
  /\ UNCHANGED alt_max_fd

\* Read and write: the mode and then the driver decide.
Read(fd) ==
  /\ IF alt_fd_list[fd].mode = "WRONLY" THEN Returns("EACCES")
     ELSE Through(fd, IF Dev(fd) = Null THEN "EACCES" ELSE "ok")
  /\ UNCHANGED <<alt_fd_list, alt_max_fd, held>>

Write(fd) ==
  /\ IF alt_fd_list[fd].mode = "RDONLY" THEN Returns("EACCES") ELSE Through(fd, "ok")
  /\ UNCHANGED <<alt_fd_list, alt_max_fd, held>>

\* alt_fd_lock looks at the descriptors below the mark, and not at the mark.
Shared(fd) == \E i \in 0 .. alt_max_fd - 1 : i # fd /\ Dev(i) = Dev(fd)

\* The requests TIOCEXCL and TIOCNXCL; a descriptor of a file system hands them to its driver.
Lock(fd) ==
  /\ "DEV" \in alt_fd_list[fd].fd_flags
  /\ IF Shared(fd) THEN Returns("EACCES") /\ UNCHANGED alt_fd_list
     ELSE Returns("ok") /\ alt_fd_list' = [alt_fd_list EXCEPT ![fd].fd_flags = @ \union {"EXCL"}]
  /\ UNCHANGED <<alt_max_fd, held>>

Unlock(fd) ==
  /\ "DEV" \in alt_fd_list[fd].fd_flags
  /\ Returns("ok") /\ alt_fd_list' = [alt_fd_list EXCEPT ![fd].fd_flags = @ \ {"EXCL"}]
  /\ UNCHANGED <<alt_max_fd, held>>

\* Other requests, and the two above of a file system, go to the driver.
Ioctl(fd) ==
  /\ \E code \in {"ok", "ENOTTY"} : Through(fd, code)
  /\ UNCHANGED <<alt_fd_list, alt_max_fd, held>>

\* No device can seek.
Lseek(fd) ==
  /\ Through(fd, IF Dev(fd) \in FileSystems THEN "ok" ELSE "ENOTSUP")
  /\ UNCHANGED <<alt_fd_list, alt_max_fd, held>>

Fstat(fd)  == Through(fd, "ok") /\ UNCHANGED <<alt_fd_list, alt_max_fd, held>>
Isatty(fd) == Through(fd, "ok") /\ UNCHANGED <<alt_fd_list, alt_max_fd, held>>

\* F_SETFL sets O_NONBLOCK and O_APPEND.
Settable(fd, flags) == (alt_fd_list[fd].fd_flags \ {"NONBLOCK", "APPEND"}) \union flags
SetFlags(fd, flags) ==
  /\ Returns("ok") /\ alt_fd_list' = [alt_fd_list EXCEPT ![fd].fd_flags = Settable(fd, flags)]
  /\ UNCHANGED <<alt_max_fd, held>>

\* Every call finds out about a descriptor from a failed open.
BadDescriptor == Returns("EBADFD") /\ UNCHANGED <<alt_fd_list, alt_max_fd, held>>

Next == \/ Register \/ Redirect \/ Open \/ BadDescriptor
        \/ \E name \in Devices \union {Unknown} : Stat(name)
        \/ \E fd \in Usable : \/ Close(fd) \/ Read(fd) \/ Write(fd)
                              \/ Ioctl(fd) \/ Lseek(fd) \/ Fstat(fd) \/ Isatty(fd)
                              \/ Lock(fd) \/ Unlock(fd)
                              \/ \E flags \in {{}, {"NONBLOCK"}} : SetFlags(fd, flags)

Spec == Init /\ [][Next]_vars
--------------------------------------------------------------------------------
Codes == {"ok", "ENODEV", "EMFILE", "EACCES", "ENOENT", "EBADFD", "EWOULDBLOCK", "EIO",
          "ENOTTY", "ENOTSUP", "null"}

TypeOK ==
  /\ alt_fd_list \in [Fds -> [dev : Devices \union {NoDev}, mode : Access,
                              fd_flags : SUBSET {"EXCL", "DEV", "NONBLOCK"}]]
  /\ \A fd \in Fds : Dev(fd) = NoDev => alt_fd_list[fd] = Released
  /\ alt_max_fd \in -1 .. MaxFd - 1
  /\ registered \subseteq Devices
  /\ boot \in {"register", "stdout", "stdin", "stderr", "main"}
  /\ held \subseteq Fds
  /\ ret \in Codes

\* No call follows a null device: what the program holds, and the standard streams even
\* after it has closed them, have a device.
NoNullDevice == ret # "null"

\* No descriptor is lost: those in use beyond the standard ones are those that open returned
\* and nobody closed, so that failed opens and stat leave nothing behind.
NoneLeaks == {fd \in Fds \ Standard : Dev(fd) # NoDev} = held

\* The scans of open for locks and of ioctl for sharers see every descriptor in use: none
\* lies above the high-water mark once start-up has opened one.
MarkCovers == boot = "main" => \A fd \in Fds : Dev(fd) # NoDev => fd <= alt_max_fd

\* alt_fd_lock.c 39-45: the lock gives "exclusive access to a device", and is granted
\* "if there are no other open file descriptors which reference the same device".
\* The code does not keep it: the loop ends before the highest descriptor, which may
\* share the device.  No run has it; as an INVARIANT of the run files it fails at once.
LockIsExclusive ==
  \A fd, other \in Fds :
    /\ Dev(fd) = Dev(other) /\ "EXCL" \in alt_fd_list[fd].fd_flags
    => fd = other

\* The standard streams work from the start of main on: the program can read the first and
\* write the others, on the UART, whatever it has closed, locked or opened.
StreamsWork ==
  boot = "main" =>
    /\ \A s \in Standard : Dev(s) = Uart
    /\ alt_fd_list[0].mode # "WRONLY" /\ alt_fd_list[1].mode # "RDONLY"
    /\ alt_fd_list[2].mode # "RDONLY"

NoHandle == -1
Holder(d) ==
  IF \E fd \in Fds : Dev(fd) = d /\ "EXCL" \in alt_fd_list[fd].fd_flags
  THEN CHOOSE fd \in Fds : Dev(fd) = d /\ "EXCL" \in alt_fd_list[fd].fd_flags
  ELSE NoHandle

Promised == INSTANCE OpenFiles WITH Handles <- Fds,
              device <- [fd \in Fds |-> Dev(fd)], holder <- [d \in Devices |-> Holder(d)]

\* The calls do what OpenFiles says of descriptors and locks.
KeepsOpenFiles == Promised!Spec
================================================================================
