# Breakout: TLA+ models, checks and proofs

This directory holds the verification project of the Breakout game for the MAX10 FPGA: the
SystemVerilog of the game, the C program on the Nios II processor that reads a USB keyboard for it,
and the board support package (BSP) under that program. Every definition is translated from the
source files; line numbers in comments are theirs.

## 1. The system

Three layers. The first two share one byte, the keycode.

* **The game** is hardware. `vga_controller` counts pixels and produces the vertical sync `VGA_VS`.
  That signal is the clock (`frame_clk`) of `ball` and `bar`, so one rising edge is one step of the
  game. `ball` owns the ball, the wall of blocks, the lives and the score; `bar` owns the bar.
  `color_mapper` draws, and holds one latch on the 50 MHz clock: the start screen.
  `Reset_actual` (lab62.sv 121) is the push button KEY[0] or "no lives left".
* **The USB host** is software: one endless loop (`main.c`) that serves the interrupt of the
  MAX3421E chip (`MAX3421E.c`), advances the enumeration state machine `USB_Task` (`transfer.c`),
  lets `HID.c` recognise a keyboard or a mouse, polls it, and writes the keycode to a port of the
  processor system, from which `ball`, `bar` and `color_mapper` read it.
* **The BSP** is the Nios II HAL as configured for this board: no operating system, one program,
  interrupts of a system timer (1000 ticks a second) and of the JTAG UART, over which the program
  prints. The program reaches the MAX3421E through an SPI core that it polls. Only what this
  configuration compiles is modelled: fast JTAG UART driver, enhanced interrupt API, 32 descriptors,
  no logging, no profiling.

| component | state | operations | talks to |
|---|---|---|---|
| `bar.sv` | position, motion | one tick of frame_clk | reads keycode, start_menu, Bar_Reset; BarX to ball |
| `ball.sv` (+ `blocks.sv`) | position, motion, parked, wall, lives, score, `moved` | asynchronous reset; one tick | reads BarX, keycode, start_menu; Bar_Reset to bar; lives_zero to the reset |
| `lab62.sv` | none of its own | reset network, clocks | wires all |
| `Color_Mapper.sv` | start screen latch, its delayed copy | one edge of the 50 MHz clock; drawing | start_menu to ball and bar |
| `VGA_controller.sv` | pixel and line counters, syncs | one pixel clock | VGA_VS clocks the game |
| `hex_converter.sv`, `HexDriver.sv`, `font_rom.sv` | none | pure functions | drawing, HEX displays |
| `main.c` | two flags, class of the device, keycode | one turn of the loop | calls all below |
| `MAX3421E.c` | chip registers | initialisation, bus probe, interrupt handler, register access | sets `usb_task_state`; SPI |
| `transfer.c` | `usb_task_state`, device table, settle deadline, toggles | USB_init, USB_Task, transfers | calls the probes of HID.c; the tick count |
| `HID.c` | `hid_device`, endpoint records | two probes, two polls | device table |
| SPI access | credits and bytes of an access; holding, shift and receive registers | `alt_avalon_spi_command`, the core's byte clock | MAX3421E |
| start-up, interrupts, alarms | PIE, IENABLE, handlers, `_alt_nticks`, `alt_alarm_list` | alt_main, dispatcher, timer routine, alt_tick, alt_alarm_start and stop | every driver |
| JTAG UART driver | two rings, `irq_enable`, `host_inactive`, timeout | write, read, close, ioctl, interrupt routine, alarm | host at the end of the cable |
| file descriptors | `alt_fd_list`, `alt_max_fd`, device list | redirection, open ... stat | drivers |
| heap, time of day, delay, stubs | a pointer; an offset | plain functions | |
| `lab62soc`, `db`, `output_files` | | generated code | |

What is hard about it:

* Nonblocking assignments (`ball.sv`): one clocked block of three parts which overwrite each other;
  conditions read old values; several loop iterations assign the same register.
* Ten-bit arithmetic that wraps, on coordinates compared as unsigned words.
* Three clock domains and a reset that clears its own cause (lives_zero is decoded from the lives
  that the reset restores).
* A device can be plugged in or out, and a bus reset can end, between any two accesses of the
  program to the chip; interrupts are level flags that are acknowledged after the bus was sampled.
* Attempts at enumeration fail half-way and leave slots, flags and deadlines behind.
* Packets, answers and acknowledgements are lost on the bus. What was already done is sent again, and
  only a toggle tells a repetition from the next packet; a transfer given up may still complete.
* An interrupt routine and the program share rings, flags and a linked list; each reads indices that
  the other is about to change. Critical sections are a bit in a register.
* Callbacks take entries out of the list that the tick is walking over. The tick count wraps, and
  so does the millisecond clock computed from it, elsewhere.
* The program polls an SPI core that goes on while the poll looks at a status word read earlier.
* System calls fail after they took a descriptor; locks are looked for up to a mark that lags.

What makes the parts correct: the bar stays on its track; the ball stays on the field; a life goes
only when the ball has really passed the bar; no bounce is lost to a later assignment; a block
once fallen stays so and a point is never given for nothing; the start screen freezes the game; the
game as a whole keeps to the rules of the repository's README (but for the one about the score). For the USB
host: the state byte is always a state; no null record is followed; transfers wait for the bus reset; what
main polls is what is there; a lost device is noticed; every attempt ends. For the transfers: a read returns
the bytes asked for in order, a write that returns success was carried out, every report reaches main once and
in turn, every call returns. For the BSP: characters pass the UART in order, none lost, and no call waits for
an interrupt that cannot come; alarms fire at the tick they are due; sections and interrupts exclude each
other; descriptors are neither lost nor shared by accident, and locks lock; an SPI access is exactly what its
caller asked for.

## 2. The modules

| module | models | source |
|---|---|---|
| `Signals` | ten-bit words and their sums, keycodes | port declarations |
| `Bar` | the bar, one action per branch | bar.sv |
| `Ball` | ball, wall, lives, score, one action per branch of the chain | ball.sv, output_files/blocks.sv |
| `Game` | ball and bar on a common tick, start screen latch, both resets | lab62.sv, Color_Mapper.sv 97-105 |
| `GameRules` | abstract: what the player is promised | README.md 18-23 of the repository |
| `UsbHost` | main loop, interrupt handler, probe, USB_Task, HID probes, chip and bus | main.c, MAX3421E.c, transfer.c, HID.c |
| `Transfer` | control transfers, polls and the dispatcher under them, chip registers, device endpoints | transfer.c 75-227, HID.c 203-222 |
| `Spi` | the four register accessors, the loop of `alt_avalon_spi_command`, the SPI core | MAX3421E.c 31-99, altera_avalon_spi.c, lab62soc_spi_0.v |
| `ByteStream` | abstract: what one direction of the UART promises | |
| `JtagUart` | write, read, close and ioctl against interrupt routine, alarm and host | altera_avalon_jtag_uart_*.c |
| `LinkedList` | insertion and removal | alt_llist.h |
| `Hal` | start-up, dispatcher, alarms, tick count, deadlines | alt_main.c, alt_sys_init.c, alt_irq_handler.c, alt_tick.c, alt_alarm_start.c, alt_irq.h, timer driver, transfer.c 144, 277 |
| `OpenFiles` | abstract: what the calls promise about open files | |
| `Files` | pool of descriptors, redirection, system calls | alt_open.c, alt_close.c, alt_ioctl.c and the rest of the calls |
| `BallAlone` | the ball over a bar that stays where it is, or roams | ball.sv |
| `MCGame` | instance for TLC | |
| `BallProof`, `GameProof` (with the bar), `UsbHostProof`, `TransferProof`, `SpiProof`, `FilesProof`, `HalProof`, `UartProof` | theorems and proofs | |

`Game` EXTENDS `Bar` and `Ball` and INSTANCEs `GameRules` under a refinement mapping: the phase is
"menu" while the delayed latch is up, else "parked" or "flight" by Ball_Reset; the wall is the
blocks. The README's rule for the score, a point for every block, is not among the rules of `GameRules`,
because the code does not keep it: it is `PointPerBlock`, refuted by a run of its own. `UsbHost` stands alone;
its `keycode` is the input `keycode` of `Game`, which is quantified there over all values at every edge. That
is more than the USB host can do, so what holds of `Game` holds with it. `JtagUart` INSTANCEs `ByteStream`
twice, once per direction, and `Files` INSTANCEs `OpenFiles`.

The layers fit together by what one takes as a step and the next one opens: a transfer is a step of
`UsbHost` and the whole of `Transfer`; a register access is a step of both and the whole of `Spi`; a
write to a descriptor is a step of `Files` and a call in `JtagUart`; the UART's routine and its alarm
are steps of `Hal`. Each of these steps is allowed there whatever the module below can do.

**How the clocked block of ball.sv is written.** Its chain of else-ifs is a disjunction of actions
(`LoseLife`, `Launch`, `Park`, `BounceLeft`, ..., `Fly`), each with the negation of the branches
before it. The two parts that follow, the loop over the blocks and `if (~moved)`, assign the same
registers again, and the last nonblocking assignment wins. They are the operators `Steer`, `Place`
and `BreakBlocks`, through which every branch passes what it computed. When several blocks are hit
the highest index wins (`Last`), and the score grows by one (`BreakBlocks`).

**How resets are written.** `GameOver` is the tick that takes the last life: lives becomes 0,
lives_zero raises Reset_actual, the asynchronous resets act, lives is 3 again and the pulse is over
before any clock edge, so that bar (which samples Reset) and the latch (same) do not see it.
`KeyReset` is KEY[0], held for many clock cycles. Either restarts the video timing: vs is cleared and
rises with the next pixel clock, one more frame tick before the 50 MHz latch can change. `restart` is up
until that tick and only holds back `MenuClock`.

**How the USB host is written.** `pc` names the points between accesses to the chip where the
hardware can step in: before and after the probe of `MAX3421E_init`, between reading HIRQ, the probe
and the acknowledgement of the handler, around USB_Task, and in main. A call of USB_Task is one
step, with one action per state; the transfers in it succeed only if a device answers at the address
used, and can always fail. The hardware's actions are `LineChange` (plug, unplug, replace, disturb),
`ResetDisturbs` (the comment of MAX3421E.c:136: a bus reset raises a connect interrupt), `ResetDone`
and `DelayPasses`. J and K of the line are one value, since they only choose the speed. usb_error,
last_usb_task_state and the printed text are never read by the program and are left out, and so are
LEDs 0 to 2 and the HEX digits.

**How transfers are written.** `Transfer` is the inside of what `UsbHost` takes as one step: it shows what
"succeeds" means there (`ConfirmedIsDone`) and why a transfer may fail at any time. `caller` runs through the
calls of the keyboard's probe (two reads of the configuration, two writes) and then polls for ever; `pc`
stands where the chip can get in between: waiting for HXFRDNIRQ, between clearing it and reading the
result, before the FIFO is read, before the toggle is saved. `Dispatch` sets the time limit from any
reading of the clock, which wraps; `now` is followed inside a dispatch only. The chip and the device are
external: packets, answers and acknowledgements get lost; a data packet with the wrong toggle is acknowledged
and dropped; rHRSL reads "busy" while a transfer is under way. `LateAnswers` says whether a transfer that
the program gave up can still complete. Contents are left out: a packet is the number of its report and
its place in it, or its place in the descriptor. `Replug` stands for all of `UsbHost` between the loss of a
device and the probe of the next.

**How the SPI access is written.** The accessors differ only in what they hand to
`alt_avalon_spi_command`; `Start` is that call up to the loop, then one action per part of a turn:
`Poll` (the inner loop and its status), `Send`, `Receive`, `Finish`. The core takes a byte from the
holding register (`Load`) and exchanges it (`Exchange`) at any time between them. The chip takes command
bytes apart by `Decoded`, independently of the accessors. The branch that gives up credits
(`credits' = -1024`) would need an access without bytes to wait for, which no accessor issues.

**How the UART is written.** The program runs when no routine does (`isr = "off"`); a routine runs
to its end; the host works between any two steps of both. `WriteLook` reads `tx_out` and `WriteCopy`
uses it, and the interrupt may come in between; likewise `ReadLook` and `ReadCopy`. Characters are
numbered round a circle, so that one lost, doubled or out of its place is a wrong number. The loops
that wait on volatile variables are guards (`WriteWait`, `ReadWait`, `CloseEnd`). `AlarmClear` is apart from
`Alarm` because clearing the activity bit loses activity since it was read.

**How interrupts and alarms are written.** Every statement inside a critical section is a step of its
own; that no interrupt takes place in it is the value of `pie`. The list is the pointers of
alt_llist.h, and `cursor` and `next` are the local variables of alt_tick. A stopped alarm's `time` is dropped,
except with `StopsFollowing`, where the tick may still come to its entry. A callback is a choice: it
stops alarms, then returns 0 or a number of ticks. `due` counts, without ever wrapping, the ticks until
an alarm is due: it is the reference for `time` and `rollover`. `lines` are the levels of the interrupt
lines. Milliseconds are computed as transfer.c does, product first.

**How the descriptors are written.** A call is one step, since no interrupt uses the pool. `ret = "null"`
stands for a call through the device pointer of an entry that has none. What a driver answers is a
choice among its codes. A file system is a constant that may be there: this board registers none, but
open and close have branches for it. An entry's private data pointer is left out, as only a driver reads it.

Operators marked "mutant" are faulty variants of the definition that follows them. Nothing uses
them; put in its place, each makes one property fail.

## 3. The runs

Passing runs:

| run | instance | what it shows |
|---|---|---|
| `ball_screen` | real screen, two blocks, one life; a bar that can be at any of four places at every tick, or stays at one of 71 | `BallInField`: corners let the ball at most a few pixels into a wall, and it comes back. `NoPhantomLoss`: the wrapped coordinates above the top never compare as the bottom. `CoveredNeverLost`: a bar that stays loses no ball that falls on it |
| `game` | 40 x 90 screen, 2 x 2 blocks, a short bar with a long step, two lives | `BarOnTrack`, `UnstartedStill`, `BounceNeverOverwritten`; `ScoreTracksFallen`: the score is between half the number of fallen blocks and all of it; `KeepsTheRules`: Game implements GameRules |
| `usb` | table of 2 usable slots, 3 kinds of device, at most 4 disturbances of the bus | `TypeOK`, `NoNullDeref`, `ReportedDeviceIsPolled`, `ResetIsOver`, `RunningMeansAnswering`; live: `UnplugNoticed`, `AttachEnds` |
| `transfer` | boot keyboard (packets and reports of 8 bytes), 3 reports, no late answers | `ReadIsExact`, `ConfirmedIsDone`, `EachReportOnce`; live: `CallsReturn` |
| `spi` | three registers, accesses of 0 to 8 bytes | `NothingLost`: the core never overruns, however late the loop looks. `AccessIsExact`: the chip saw register, direction and bytes as asked, and the bytes of a read are the ones it supplied. Live: `AccessEnds` |
| `uart` | rings of 4, FIFOs of 2, requests of up to 3; one program that writes, closes and sets the timeout, one that reads | `OutputKept`, `InputKept`: each direction implements `ByteStream`. `PendingMeansEnabled`, `ReceiveOffMeansFull`: no interrupt is off that somebody waits for. Live: `WritesReturn`, `ReadsReturn` |
| `hal` | three alarms, a tick count modulo 5, periods of 1 to 3 ticks | `ListHoldsRunning`, `FiresWhenDue`, `InterruptsAreSafe`, `WatchRuns`; live: `AlarmsFire`, `ReachableDeadlinesEnd` |
| `files` | 6 descriptors, one file system besides the two devices | `NoNullDevice`, `NoneLeaks`, `StreamsWork`, and `KeepsOpenFiles`: Files implements OpenFiles |

Runs that refute what the documentation says of the program; each is a finding in PROJECT.json:

| run | claim | what happens |
|---|---|---|
| `one_point` | the score goes up by 1 for every block destroyed (README.md:23) | a ball on the edge between two rows destroys a block of each in one frame; both assign the same score + 1 (ball.sv:179) |
| `launch_rises` | the space bar launches the ball upwards from the bar | space held over a game over: the ball flies horizontally above the bar and never ends |
| `late_answer` | a read transfers the bytes asked for | with late answers, the packet of a transfer given up is taken for the next read's first |
| `deadline_wrap` | a dispatch ends at its time limit, a settle delay after 200 ms | the clock goes back to 0 after 4294967 ms; a deadline set shortly before is never reached |

`late_answer` and `deadline_wrap` are the two sides of the time limit: set near the wrap it does not end the
wait for a chip that is silent, and when it does end a wait, the answer may still come. `one_point` has
a passing counterpart, which says what is left of the claim: `ScoreTracksFallen`, no more than two blocks for
a point and no point for nothing.

Four more disagreements have no run of their own. TLC shows each of them when asked:

* A device plugged in between a probe of the bus and the acknowledgement of the interrupt
  (MAX3421E.c:187-188, 214-226) is never noticed, however long it stays. `PlugInNoticed` in `UsbHost` states
  that it is, after MAX3421E.c:125; it fails with a single event on the bus (`MaxEvents = 1`).
* A lock is granted although the highest descriptor refers to the same device: alt_fd_lock.c:43 says that there
  must be none, but the loop of line 61 ends before it. `LockIsExclusive` in `Files` states the promise and
  fails at once. What is left is that a device has one lock at most; `KeepsOpenFiles` includes it.
* With packets half as long as a report (`MaxPkt = 4` in `transfer`) `EachReportOnce` fails: the acknowledgement
  of the first packet is lost, its repetition ends the poll without saving the toggle (transfer.c:202), and the
  second packet is then dropped as a repetition. The size is the device's choice (HID.c:85); a boot keyboard
  sends its 8 bytes in one packet.
* With a callback that stops the alarm after its own (`StopsFollowing`, in `hal` with periods of one tick)
  `AlarmsFire` fails: alt_tick stays on an entry that points to itself (alt_tick.c:100-140). No driver of
  this system has such a callback, but nothing forbids it.

Met while modelling, and too small or too unlikely for a run of their own:

* A ball that the bar turns on the last line still takes one step down and is lost (ball.sv:153).
* A stale bus event makes the handler skip the state that
  arms the settle delay (MAX3421E.c:222).
* A report as short as a packet ends with NAK although it was stored, because XferInTransfer asks on for
  the rest (transfer.c:217).
* USB_STATE_ERROR (0xff) has its own case in USB_Task, but the switch masks the low bits, so that it falls
  into the default marked "Should never get here" (transfer.c:382); both do nothing. A descriptor of length
  0 makes the loop of HID.c:165 endless.
* altera_avalon_jtag_uart_write.c:214 says that -EIO means that no host is connected; a write that found the
  ring full can return it after a single second of silence, long before the timeout that defines
  "connected" (line 187). A write or read of 0 characters returns -EIO or -EWOULDBLOCK. With the largest
  timeout a program can set, INT_MAX - 1, a write waits for ever for a host that is gone: hence the
  condition in `WritesReturn`.
* A close that fails with EWOULDBLOCK has freed the descriptor (alt_close.c:84-93). A lock taken on a
  standard stream outlives its close. alt_open.c:79 compares an unsigned index with alt_max_fd,
  which is -1 at first; the scan stays in the table only because alt_get_fd has raised the mark before.
* An alarm of 2^32 - 1 ticks fires at once.
* alt_settod.c:83 multiplies in 32 bits where alt_gettod.c:93 uses 64, and alt_busy_sleep.c:104 goes
  wrong for an exact multiple of its longest delay. No one in this system calls either with such values.

**Bounds.** In `ball_screen` the geometry is that of the source, so the arithmetic is
the real one; what is cut is the number of blocks and the freedom of the bar (four places, or one
place per behaviour); the theorems about the real screen have every place and the whole wall. Two blocks
make the corner with the left wall, where a hit could turn the ball outwards. One life is enough where
lives matter to no property of the run; `game` has two of the three, so that a ball is lost with and
without the game being over. In `game` the screen is small so that every key may come at every edge; the steps of
ball, the heights of ball, bar and blocks are real, and the screen is just high enough for both rows,
free space, bar and bottom. A bar step of 6 against a track that starts at 8 keeps the near-wrap of the
track test reachable. In `usb` a table of two usable slots (7 in the code) is the smallest in which
slots can be exhausted; four disturbances are enough for a device to run, be lost, come back and be
lost again, or for two failed attempts in a row. In `transfer` the descriptor of 18 bytes takes three
packets, the last one short; three reports bring each toggle back; RetryLimit is the real one, NakLimit 2
instead of 200; the clock has 4 readings and a limit of 2, so that half of the limits are met and half lie
beyond the wrap. Devices may be replaced any number of times. In `uart` the rings are larger than the
FIFOs and hold three characters, so that both fill, wrap, and are copied in two pieces; characters are
told apart over more than a ring's length. In `hal` the count wraps every five ticks, so that alarms
are set before and fire after a wrap, with the list holding up to three. In `spi` eight bytes is the
longest access the USB host makes (a setup packet); three registers cover the first, the last and one
between. In `files` the three descriptors beyond the standard ones are enough for a sharer below and one
above the holder of a lock, and for the pool to run out.

**Deadlock** is checked in every run: neither the hardware nor the loop ever stops.

**Fairness.** In `UsbHost`: weak fairness of the program's steps together (the loop
never blocks and there is no other thread), of `ResetDone` (the chip ends a bus reset after 50 ms)
and of `DelayPasses` (time passes; the wrap of the tick count is left out, `Hal` has it). No device is assumed to
answer, and disturbances are finite: a bus disturbed for ever can restart the attachment for ever. In `Transfer`:
weak fairness of the program and of the chip, which ends every transfer it is given, if only with a timeout
of the bus. In `Spi`: weak fairness of the loop and of the core, which run on clocks of their own. In
`JtagUart`: strong fairness of the interrupt routine, the program and the alarm, since the others interrupt them
again and again but each comes back in finite time, and weak fairness of the alarm's second half; the host
promises nothing. In `Hal`: strong fairness of the timer, of taking interrupts and of the program, which
are held up by critical sections and routines that end, and weak fairness of the routines. Polling loops see
every value of the clock: the loop is far shorter than a tick. Nothing is assumed of callbacks.
A UART that raises its line again before its routine is done, for ever, would keep the timer out; `UartRaises`
excludes that, because a character takes longer than the routine.

## 4. What is proved

TLAPS checks, for every value of the constants admitted by the named assumptions:

* `BallProof`: the lemmas about a tick of the ball, each branch on its own. The invariant for any screen is
  `BallInv`: types, `ParkedAtRest` (a parked ball has no motion and touches no block),
  `BounceNeverOverwritten`, `ScoreTracksFallen`. The argument for `BounceNeverOverwritten`: a tick that
  leaves `moved` clear took no branch and hit nothing, so the next tick, at the same place, finds
  nothing either; only the bar may have moved. That for `ScoreTracksFallen`: two blocks hit in one tick are
  one row apart (`HitsAreRowsApart`), and three places cannot all be one row from each other, so that no
  tick fells more than two (`AtMostTwoHits`). It rests on `SpacingAssumption`: columns are further apart than
  two half-widths, rows may touch but not overlap.
  The second half is about the real screen (`RealScreen`: the parameters of ball.sv and any number of rows up
  to four). `FieldInv` lists where the ball can be near the two upper corners, motion included. On the left
  (`TopCorner`) the branch of the left wall hides that of the top for a tick or two, so that the ball leaves
  through the top and its height wraps; it can sink to 1020 and no lower. On the right (`RightTurn`) the
  branch of the top hides that of the wall, and the ball gets to 640. Two more things are needed. The corner's
  block has fallen whenever the ball is in that corner, since it is hit on the way (`BlocksAreHit`: a step is
  never long enough to pass a strip); otherwise a hit there could turn the ball outwards. And the height is
  always 2 modulo 3, as 452 is: with another remainder the height could wrap in the left corner to where it
  counts as the bottom. From it `BallStaysInField`, for a bar anywhere on its track at every tick. Over a
  still bar `CoverInv` adds where a falling ball can be below the bar's edge: past the bar, or next to the right
  wall, whose branch goes first and costs at most three steps of height (`Covered`). From it
  `StillBarHolds`, at every place of the track.
* `GameProof`, the bar alone: `BarStaysOnTrack`. The inductive invariant adds that the motion is a step or none,
  since the test on wrapping words only means what it says within one step of the track.
* `GameProof`, the game: `GameInv` adds the bar's invariant and `Unstarted`, which relates latch, delayed copy
  and `restart`. From it: `TypeCorrect`, `BouncesAreKept`, `ScoreIsEarned`, `StartScreenHolds`,
  `GameBarOnTrack`, `LostBallIsParked`, and the refinement `GameImplementsRules`, where a frame tick
  maps to `BreakSome`, `LoseBall`, `LaunchBall` or a stutter. On the real screen and bar (`RealGame`), with
  `FieldInv`: `BallKeptInField`, `LivesAreLostBelow`, `NoBlockIsMissed`.
* `UsbHostProof`: `UsbInv`. `Probed` says that the handler and the initialisation never meet a
  transfer in progress; `FlagMeansRan` that runningdebugflag is seen by main before anything else
  can run; `SlotsInOrder` that slots fill from the first on, and the last is the device's;
  `EventEndsReset` that a bus event recorded during a bus reset is its end. From it: `UsbTypeCorrect`,
  `PointersAreSet`, `PolledAsReported`, `TransfersAfterReset`, `RunningAnswers`. The
  last needs the one before: a bus reset takes the device's address away.
* `TransferProof`: `TransferInv`, for both values of `LateAnswers`. `StageOfCall` gives each stage of a call
  its packet; `OwnResult` says that a dispatcher which finds the chip idle reads the result of its own
  packet, because launching makes the chip busy; `PacketsThere` that the FIFO holds a packet when one is
  taken. From it: `TransferTypes`, `WritesAreConfirmed`. So a late completion never passes for success;
  what it can do is leave its data behind (`late_answer`). Without late answers (`~LateAnswers`) the FIFO is
  empty whenever a dispatch starts, and the two toggles tell a repetition from the next packet; `ReadsAreExact`
  relates what the device has sent, what lies in the FIFO and what is stored. `ReportsComeOnce` needs in
  addition that a packet holds a whole report and that a poll ends with it (`OneReportPerPacket`; both are 8
  bytes for a boot keyboard): a time-out between the packets of a longer report would lose its first half.
* `SpiProof`: the loop writes a byte only with a credit, and gets the credit back with the byte that comes in. So
  with one credit at most one byte is in the core, in the holding register, the shift register or the
  receive register, and the sequence sent is what the chip has heard and that byte. From it `TypesHold`,
  `NothingIsLost` and `AccessesAreExact`. `TypesHold` bounds the credits by 0 and 1, so it says that the branch
  which gives up credits is never taken.
* `FilesProof`: `FilesInv`. `Covered` says that no descriptor in use lies above the mark, already while
  start-up is redirecting; `Booting` that no lock is held and nothing open until main, so that redirection
  cannot be refused; `FlagsFit` that only devices are locked. `EntryChanges` is the one lemma behind open,
  close, lock, unlock and F_SETFL: an entry may change as long as a lock it takes or a device it gets
  fits what the others hold. The case that needs care is a lock: a sharer that the short scan missed
  can only be the highest descriptor, and by the old invariant it holds no lock itself. `SharersAbove` says
  so: the holder is the lowest of the descriptors that share its device. It is why no
  second lock can be had, although `LockIsExclusive` fails. From it all the run's invariants, and the refinement
  `FilesImplementOpenFiles`, for which `HolderIs` shows that the chosen holder is the only one.
* `HalProof`: `HalInv`, for both values of `StopsFollowing` (what fails in `stops_following` is progress, not
  safety). `Apart` says that an alarm that does not run has null pointers or points to itself, which is why
  stopping it twice does no harm; `Walks` that the tick stands on entries that were once inserted; `Sections`
  what each critical section has still to do. The lemmas `InsertLinks` and `RemoveLinks` are about any list.
  From it: `HalTypes`, `AlarmsAreListed`, `SectionsExclude`, `HostIsWatched`. `AlarmsFireWhenDue` is about the
  order of the walk, and a walk asks for induction over the list. It is replaced by statements about sets:
  `OneRing` (every set of running alarms has a member whose predecessor lies outside, so the list is one ring)
  and `RestSettled` (every set that holds the entry to come and is closed under `next` holds all alarms that
  this tick has not settled). `Timed` says what `time` and `rollover` mean: the distance to the count is what
  is left of the period, and the flag is set exactly while the count has to wrap first.
* `UartProof`: `UartInv`. `Looks` says that an index which write or read looked at may be old when the copy uses
  it, but only on the safe side: the room seen is still there, and so is what was seen to be held. `SpaceFits` says
  that the space the routine read from the core is still there, because only the host touches the FIFO besides.
  `RingPut` and `RingTake` are about any ring: a copy that does not wrap puts its characters behind those in the
  ring, and a copy out takes the first. From it: `UartTypes`, `PendingEnabled`, `ReceiveOff`, and the two
  refinements `OutputIsKept` and `InputIsKept`: a copy by write and a character sent by the host map to `Accept`, a
  character taken by the host and a copy by read to `Deliver`, and the routine's moves between ring and FIFO
  to a stutter.

The types of `Game`, `Transfer`, `Files`, `Hal` and `JtagUart` are proved only, because a wrong step breaks another
property of the run first; so are `LostBallIsParked` and `ScansSeeAll`, which the runs see through
`KeepsTheRules` and `KeepsOpenFiles`.

Assumptions: `BarAssumption` (the track is one step away from the wrap), `BallAssumption` and
`LayoutAssumption` (every block ends above the parked ball), `SpacingAssumption` (blocks do not overlap),
`GameAssumption` (ball and bar start in the same column), `UsbAssumption`, `TransferAssumption`,
`FilesAssumption` and `HalAssumption` (types, and that names are distinct), `UartAssumption` (types, and that
a ring is no longer than the circle of characters). TLC evaluates them on the values of the runs.

The theorems about the real screen have its numbers as hypotheses, which are the constants of `ball_screen`;
what the theorems add to that run is every place of the bar at every tick, and the whole wall.

Only model-checked: all liveness, that is `UnplugNoticed`, `AttachEnds`, `CallsReturn`, `AccessEnds`,
`WritesReturn`, `ReadsReturn`, `AlarmsFire` and `ReachableDeadlinesEnd`: the prover has no rules for fairness. Every
safety property of a passing run is stated by a theorem.

## 5. Not modelled

Drawing, fonts and HEX digits (combinational, no state), and the counters of the video timing. The speed of
the device. Of the BSP: alt_sbrk (a pointer that moves up and is compared with the end of the heap),
alt_busy_sleep, alt_gettod, alt_settod, alt_times (plain functions of the count), alt_exit; alt_gmon and
alt_log_printf, which this configuration switches off; stubs that return an error; headers of register
macros and constants, which are most of the lines. Of the interrupt controller: masking of a single
interrupt, which nobody calls. `lab62soc`, `db`, `output_files`, `simulation` are generated. After power-up
BarX holds an arbitrary word until the first tick; Game starts with KEY[0] pressed once.

More than half of the lines under src/ that count as code are licence headers, comments, register macros and
files that this configuration does not compile, which is what keeps the share of lines that the map
covers low; the functions that are compiled and have state are nearly all there.

## 6. Plan

1. Done: Bar, Ball, Game, GameRules, UsbHost, Transfer with their runs and proofs.
2. Done: Files with OpenFiles, Hal with LinkedList and JtagUart with ByteStream, runs and proofs; Spi with its
   run.
3. Done: every invariant and refinement of the passing runs proved.
4. `VgaTiming`: counters and syncs; one frame tick per frame and in the blanking, or one after a
   reset, which is what `restart` in Game stands for. The displays as functions against a reference.
