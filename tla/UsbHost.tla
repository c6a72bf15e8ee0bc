------------------------------- MODULE UsbHost -------------------------------
(***************************************************************************)
(* The USB host software (software/usb_kb): the loop of main.c, the        *)
(* interrupt handler and bus probe of MAX3421E.c, the state machine        *)
(* USB_Task of transfer.c and the driver probes of HID.c, against the      *)
(* MAX3421E chip and the device on its bus.                                *)
(*                                                                         *)
(* The program has one thread; what interleaves with it is the hardware.   *)
(* pc stands between the chip accesses of an interrupt's handling, where a *)
(* device can come and go; a call of USB_Task is one step, whose transfers *)
(* succeed only when a device answers at the address used, and may always  *)
(* fail.  usb_error, last_usb_task_state and the printf's are left out:    *)
(* the program never reads what they write.                                *)
(***************************************************************************)
EXTENDS Integers

CONSTANTS USB_NUMDEVICES,       \* length of the device table, slot 0 included (8)
          Keys,                 \* first keycodes of a keyboard report
          Kinds,                \* what may be plugged in
          MaxEvents             \* bound: disturbances of the bus in a behaviour

ASSUME UsbAssumption ==
  /\ USB_NUMDEVICES \in Nat /\ USB_NUMDEVICES > 1
  /\ Kinds \subseteq {"keyboard", "mouse", "other"}
  /\ MaxEvents \in Nat
  /\ "none" \in Keys

(* usb_task_state: a byte, of which the upper half selects the case in USB_Task. *)
INITIALIZE        == 1          \* USB_DETACHED_SUBSTATE_INITIALIZE
WAIT_FOR_DEVICE   == 3          \* USB_DETACHED_SUBSTATE_WAIT_FOR_DEVICE
ILLEGAL           == 4          \* USB_DETACHED_SUBSTATE_ILLEGAL
ATTACHED          == 16         \* USB_STATE_ATTACHED
SETTLE            == 17
RESET_DEVICE      == 18
WAIT_RESET        == 19         \* USB_ATTACHED_SUBSTATE_WAIT_RESET_COMPLETE
WAIT_SOF          == 20
GET_DESCRIPTOR    == 21         \* ..._GET_DEVICE_DESCRIPTOR_SIZE
ADDRESSING        == 32
CONFIGURING       == 48
RUNNING           == 64
ERROR             == 255

Detached(s) == s < 16           \* (s & USB_STATE_MASK) == USB_STATE_DETACHED
Slot == 1 .. USB_NUMDEVICES - 1

VARIABLES
  pc,                           \* where the program is
  usb_task_state,
  epinfo, devclass,             \* devtable, from slot 1 on
  tmp_addr,                     \* the address USB_Task assigned last
  hid_addr,                     \* hid_device.addr: the address polls go to
  usb_delay,                    \* the settle deadline: "ahead" or "past"
  runningdebugflag, errorflag, device, led9, keycode,           \* main.c
  line,                         \* the bus: "SE0" (no device), "JK", "SE1" (illegal)
  condet, busevent,             \* CONDETIRQ and BUSEVENTIRQ of the chip's HIRQ
  busrst,                       \* BUSRST of HCTL: a bus reset is in progress
  hirq,                         \* BUSEVENTIRQ in the handler's copy of HIRQ
  kind, devaddr,                \* the device on the bus, and its address
  events                        \* disturbances of the bus so far

progVars == <<pc, usb_task_state, tmp_addr, hid_addr, usb_delay, hirq>>
tableVars == <<epinfo, devclass>>
mainVars == <<runningdebugflag, errorflag, device, led9, keycode>>
chipVars == <<condet, busevent, busrst>>
busVars == <<line, kind, devaddr, events>>
vars == <<progVars, tableVars, mainVars, chipVars, busVars>>

Init ==
  /\ pc = "reset" /\ usb_task_state = INITIALIZE
  /\ epinfo = [s \in Slot |-> "NULL"] /\ devclass = [s \in Slot |-> "none"]
  /\ tmp_addr = 0 /\ hid_addr = 0 /\ usb_delay = "past" /\ hirq = FALSE
  /\ runningdebugflag = FALSE /\ errorflag = FALSE /\ device = "none"
  /\ led9 = FALSE /\ keycode = "none"
  /\ line \in {"SE0", "JK"} /\ kind \in Kinds /\ devaddr = 0 /\ events = 0
  /\ condet = FALSE /\ busevent = FALSE /\ busrst = FALSE
------------------------------------------------------------------------------
(* USB_init and MAX_busprobe. *)

ClearTable ==
  /\ epinfo' = [s \in Slot |-> "NULL"]
  /\ devclass' = [s \in Slot |-> "none"]

ProbeFromDetached(s) ==         \* mutant: a device is only looked for when detached
  IF line = "JK" THEN IF Detached(s) THEN ATTACHED ELSE s
  ELSE IF line = "SE1" THEN ILLEGAL
  ELSE IF Detached(s) THEN WAIT_FOR_DEVICE ELSE INITIALIZE

ProbeSparingRunning(s) ==       \* mutant: a connect of a running device is ignored
  IF line = "JK" THEN IF s \in {WAIT_RESET, RUNNING} THEN s ELSE ATTACHED
  ELSE IF line = "SE1" THEN ILLEGAL
  ELSE IF Detached(s) THEN WAIT_FOR_DEVICE ELSE INITIALIZE

ProbeKeeping(s) ==              \* mutant: an empty bus counts only when detached
  IF line = "JK" THEN IF s = WAIT_RESET THEN s ELSE ATTACHED
  ELSE IF line = "SE1" THEN ILLEGAL
  ELSE IF Detached(s) THEN WAIT_FOR_DEVICE ELSE s

\* The state a probe of the bus leads to from state s.
Probe(s) ==
  IF line = "JK" THEN IF s = WAIT_RESET THEN s ELSE ATTACHED
  ELSE IF line = "SE1" THEN ILLEGAL
  ELSE IF Detached(s) THEN WAIT_FOR_DEVICE ELSE INITIALIZE
------------------------------------------------------------------------------
(* MAX3421E_init and USB_init: at the start, and again when a running device is lost. *)

\* The chip reset clears its registers.
InitReset ==
  /\ pc = "reset" /\ pc' = "initProbe"
  /\ condet' = FALSE /\ busevent' = FALSE /\ busrst' = FALSE
  /\ UNCHANGED <<usb_task_state, tmp_addr, hid_addr, usb_delay, hirq>>
  /\ UNCHANGED <<tableVars, mainVars, busVars>>

InitProbe ==
  /\ pc = "initProbe" /\ pc' = "initAck"
  /\ usb_task_state' = Probe(usb_task_state)
  /\ UNCHANGED <<tmp_addr, hid_addr, usb_delay, hirq>>
  /\ UNCHANGED <<tableVars, mainVars, chipVars, busVars>>

InitAck ==
  /\ pc = "initAck" /\ pc' = "irq"
  /\ condet' = FALSE
  /\ ClearTable
  /\ errorflag' = FALSE /\ led9' = FALSE
  /\ UNCHANGED <<usb_task_state, tmp_addr, hid_addr, usb_delay, hirq>>
  /\ UNCHANGED <<runningdebugflag, device, keycode, busevent, busrst, busVars>>
------------------------------------------------------------------------------
(* MAX3421E_Task and MaxIntHandler.  Only CONDETIE is enabled, so that the  *)
(* interrupt pin shows CONDETIRQ alone.                                     *)

NoInterrupt ==
  /\ pc = "irq" /\ ~condet /\ pc' = "usb"
  /\ UNCHANGED <<usb_task_state, tmp_addr, hid_addr, usb_delay, hirq>>
  /\ UNCHANGED <<tableVars, mainVars, chipVars, busVars>>

ReadHirq ==
  /\ pc = "irq" /\ condet /\ pc' = "probe"
  /\ hirq' = busevent
  /\ UNCHANGED <<usb_task_state, tmp_addr, hid_addr, usb_delay>>
  /\ UNCHANGED <<tableVars, mainVars, chipVars, busVars>>

HandlerProbe ==
  /\ pc = "probe" /\ pc' = "ack"
  /\ usb_task_state' = IF hirq THEN (Probe(usb_task_state) + 1) % 256
                       ELSE Probe(usb_task_state)
  /\ UNCHANGED <<tmp_addr, hid_addr, usb_delay, hirq>>
  /\ UNCHANGED <<tableVars, mainVars, chipVars, busVars>>

\* The bits that were set in the copy are written back, which clears them.
HandlerAck ==
  /\ pc = "ack" /\ pc' = "usb"
  /\ condet' = FALSE
  /\ busevent' = (busevent /\ ~hirq)
  /\ UNCHANGED <<usb_task_state, tmp_addr, hid_addr, usb_delay, hirq>>
  /\ UNCHANGED <<busrst, tableVars, mainVars, busVars>>
------------------------------------------------------------------------------
(* USB_Task. *)

\* A device answers transfers to address a.
Answers(a) == line = "JK" /\ devaddr = a

Goto(s) == usb_task_state' = s

InUsbTask(s) == pc = "usb" /\ pc' = "main" /\ usb_task_state = s

TaskInitialize ==
  /\ InUsbTask(INITIALIZE) /\ Goto(WAIT_FOR_DEVICE)
  /\ ClearTable
  /\ UNCHANGED <<tmp_addr, hid_addr, usb_delay, hirq, mainVars, chipVars, busVars>>

\* States in which USB_Task changes nothing: the other detached ones, running,
\* and the error state, which falls into the default case.
Idle == \/ Detached(usb_task_state) /\ usb_task_state # INITIALIZE
        \/ usb_task_state \in {RUNNING, ERROR}

TaskIdle ==
  /\ pc = "usb" /\ pc' = "main" /\ Idle
  /\ UNCHANGED <<usb_task_state, tmp_addr, hid_addr, usb_delay, hirq>>
  /\ UNCHANGED <<tableVars, mainVars, chipVars, busVars>>

TaskAttached ==
  /\ InUsbTask(ATTACHED) /\ Goto(SETTLE)
  /\ usb_delay' = "ahead"
  /\ UNCHANGED <<tmp_addr, hid_addr, hirq, tableVars, mainVars, chipVars, busVars>>

TaskSettle ==
  /\ InUsbTask(SETTLE)
  /\ Goto(IF usb_delay = "past" THEN RESET_DEVICE ELSE SETTLE)
  /\ UNCHANGED <<tmp_addr, hid_addr, usb_delay, hirq>>
  /\ UNCHANGED <<tableVars, mainVars, chipVars, busVars>>

ResetKeepingEvent ==            \* mutant: the old bus event is not cleared
  /\ InUsbTask(RESET_DEVICE) /\ Goto(WAIT_RESET)
  /\ busrst' = TRUE
  /\ UNCHANGED <<tmp_addr, hid_addr, usb_delay, hirq>>
  /\ UNCHANGED <<condet, busevent, tableVars, mainVars, busVars>>

TaskResetDevice ==
  /\ InUsbTask(RESET_DEVICE) /\ Goto(WAIT_RESET)
  /\ busevent' = FALSE /\ busrst' = TRUE
  /\ UNCHANGED <<tmp_addr, hid_addr, usb_delay, hirq>>
  /\ UNCHANGED <<condet, tableVars, mainVars, busVars>>

TaskWaitReset ==
  /\ InUsbTask(WAIT_RESET)
  /\ Goto(IF busrst THEN WAIT_RESET ELSE WAIT_SOF)
  /\ UNCHANGED <<tmp_addr, hid_addr, usb_delay, hirq>>
  /\ UNCHANGED <<tableVars, mainVars, chipVars, busVars>>

\* The test is "HIRQ | bmFRAMEIRQ", which is never zero.
TaskWaitSof ==
  /\ InUsbTask(WAIT_SOF) /\ Goto(GET_DESCRIPTOR)
  /\ UNCHANGED <<tmp_addr, hid_addr, usb_delay, hirq>>
  /\ UNCHANGED <<tableVars, mainVars, chipVars, busVars>>

\* Only the first of the descriptor transfers decides.
TaskGetDescriptor ==
  /\ InUsbTask(GET_DESCRIPTOR)
  /\ \/ Answers(0) /\ Goto(ADDRESSING)
     \/ Goto(ERROR)
  /\ UNCHANGED <<tmp_addr, hid_addr, usb_delay, hirq>>
  /\ UNCHANGED <<tableVars, mainVars, chipVars, busVars>>

Free == {s \in Slot : epinfo[s] = "NULL"}
LastFree == {i \in Free : \A t \in Free : t <= i}     \* mutant
FirstFree == {i \in Free : \A t \in Free : i <= t}

\* The first free slot is taken whether or not the device takes the address; when
\* the transfer fails the device may have taken it all the same.
TaskAddress ==
  /\ InUsbTask(ADDRESSING)
  /\ \E i \in FirstFree :
       /\ epinfo' = [epinfo EXCEPT ![i] = "dev0ep"]
       /\ \/ Answers(0) /\ devaddr' = i /\ tmp_addr' = i /\ Goto(CONFIGURING)
          \/ Answers(0) /\ devaddr' = i /\ Goto(ERROR) /\ UNCHANGED tmp_addr
          \/ Goto(ERROR) /\ UNCHANGED <<devaddr, tmp_addr>>
  /\ UNCHANGED <<hid_addr, usb_delay, hirq, devclass, mainVars, chipVars>>
  /\ UNCHANGED <<line, kind, events>>

TaskNoAddress ==
  /\ InUsbTask(ADDRESSING) /\ Free = {} /\ Goto(ERROR)
  /\ UNCHANGED <<tmp_addr, hid_addr, usb_delay, hirq>>
  /\ UNCHANGED <<tableVars, mainVars, chipVars, busVars>>

\* A driver recognises the device and enters it in its slot; the two transfers that
\* follow may still fail.
Claim(drivers) ==
  /\ Answers(tmp_addr) /\ kind \in drivers
  /\ devclass' = [devclass EXCEPT ![tmp_addr] = kind]
  /\ epinfo' = [epinfo EXCEPT ![tmp_addr] = "hid_ep"]
  /\ hid_addr' = tmp_addr
  /\ Goto(RUNNING) \/ Goto(ERROR)
  /\ UNCHANGED <<tmp_addr, usb_delay, hirq, mainVars, chipVars, busVars>>

HIDMProbe == Claim({"mouse"})
HIDKProbe == Claim({"keyboard"})
TaskClaim == InUsbTask(CONFIGURING) /\ (HIDMProbe \/ HIDKProbe)

StayUnclaimed ==                \* mutant: no error when no driver claims the device
  /\ InUsbTask(CONFIGURING) /\ Goto(CONFIGURING)
  /\ UNCHANGED <<tmp_addr, hid_addr, usb_delay, hirq>>
  /\ UNCHANGED <<tableVars, mainVars, chipVars, busVars>>

TaskNoDriver ==
  /\ InUsbTask(CONFIGURING) /\ Goto(ERROR)
  /\ UNCHANGED <<tmp_addr, hid_addr, usb_delay, hirq>>
  /\ UNCHANGED <<tableVars, mainVars, chipVars, busVars>>

UsbTask ==
  \/ TaskInitialize \/ TaskIdle
  \/ TaskAttached \/ TaskSettle \/ TaskResetDevice \/ TaskWaitReset
  \/ TaskWaitSof \/ TaskGetDescriptor
  \/ TaskAddress \/ TaskNoAddress \/ TaskClaim \/ TaskNoDriver
------------------------------------------------------------------------------
(* The rest of main's loop. *)

Used == {s \in Slot : epinfo[s] # "NULL"}
FirstUsed == {s \in Used : \A t \in Used : s <= t}    \* mutant
LastUsed == {s \in Used : \A t \in Used : t <= s}

InMain == pc = "main" /\ pc' = "irq"

\* GetDriverandReport: the class of the last slot in use.
MainReport ==
  /\ InMain /\ usb_task_state = RUNNING /\ ~runningdebugflag
  /\ runningdebugflag' = TRUE /\ led9' = TRUE
  /\ \/ Used = {} /\ device' = "unknown"
     \/ \E s \in LastUsed : device' = devclass[s]
  /\ UNCHANGED <<usb_task_state, tmp_addr, hid_addr, usb_delay, hirq>>
  /\ UNCHANGED <<errorflag, keycode, tableVars, chipVars, busVars>>

\* A keyboard's report sets the keycode; a NAK, an error or another device does not.
MainPoll ==
  /\ InMain /\ usb_task_state = RUNNING /\ runningdebugflag
  /\ \/ device = "keyboard" /\ Answers(hid_addr) /\ keycode' \in Keys
     \/ UNCHANGED keycode
  /\ UNCHANGED <<usb_task_state, tmp_addr, hid_addr, usb_delay, hirq>>
  /\ UNCHANGED <<runningdebugflag, errorflag, device, led9>>
  /\ UNCHANGED <<tableVars, chipVars, busVars>>

MainError ==
  /\ InMain /\ usb_task_state = ERROR
  /\ errorflag' = TRUE /\ led9' = (led9 /\ errorflag)
  /\ UNCHANGED <<usb_task_state, tmp_addr, hid_addr, usb_delay, hirq>>
  /\ UNCHANGED <<runningdebugflag, device, keycode, tableVars, chipVars, busVars>>

\* A device that was running is gone: reset the chip and the table.
MainLost ==
  /\ pc = "main" /\ pc' = "reset"
  /\ usb_task_state \notin {RUNNING, ERROR} /\ runningdebugflag
  /\ runningdebugflag' = FALSE
  /\ UNCHANGED <<usb_task_state, tmp_addr, hid_addr, usb_delay, hirq>>
  /\ UNCHANGED <<errorflag, device, led9, keycode, tableVars, chipVars, busVars>>

MainWait ==
  /\ InMain /\ usb_task_state \notin {RUNNING, ERROR} /\ ~runningdebugflag
  /\ errorflag' = FALSE /\ led9' = FALSE
  /\ UNCHANGED <<usb_task_state, tmp_addr, hid_addr, usb_delay, hirq>>
  /\ UNCHANGED <<runningdebugflag, device, keycode, tableVars, chipVars, busVars>>

Program ==
  \/ InitReset \/ InitProbe \/ InitAck
  \/ NoInterrupt \/ ReadHirq \/ HandlerProbe \/ HandlerAck
  \/ UsbTask
  \/ MainReport \/ MainPoll \/ MainError \/ MainLost \/ MainWait
------------------------------------------------------------------------------
(* The hardware. *)

\* A device is plugged in or pulled out, or the line is disturbed.
LineChange ==
  /\ events < MaxEvents /\ events' = events + 1
  /\ line' \in {"SE0", "JK", "SE1"} \ {line}
  /\ condet' = TRUE
  /\ IF line' = "SE0" \/ line = "SE0"
     THEN devaddr' = 0 /\ kind' \in Kinds
     ELSE UNCHANGED <<devaddr, kind>>
  /\ UNCHANGED <<progVars, tableVars, mainVars, busevent, busrst>>

\* "bus reset causes connection detect interrupt"
ResetDisturbs ==
  /\ events < MaxEvents /\ events' = events + 1
  /\ busrst /\ condet' = TRUE
  /\ UNCHANGED <<progVars, tableVars, mainVars, busevent, busrst>>
  /\ UNCHANGED <<line, kind, devaddr>>

ResetDone ==
  /\ busrst /\ busrst' = FALSE /\ busevent' = TRUE
  /\ devaddr' = 0
  /\ UNCHANGED <<progVars, tableVars, mainVars, condet, line, kind, events>>

DelayPasses ==
  /\ usb_delay = "ahead" /\ usb_delay' = "past"
  /\ UNCHANGED <<pc, usb_task_state, tmp_addr, hid_addr, hirq>>
  /\ UNCHANGED <<tableVars, mainVars, chipVars, busVars>>

Hardware == LineChange \/ ResetDisturbs \/ ResetDone \/ DelayPasses

Next == Program \/ Hardware

\* The loop never blocks, a bus reset takes 50 ms, and time passes.
Fairness == WF_vars(Program) /\ WF_vars(ResetDone) /\ WF_vars(DelayPasses)

Spec == Init /\ [][Next]_vars /\ Fairness
------------------------------------------------------------------------------
(* Properties. *)

\* The byte usb_task_state only holds states USB_Task has a case for, and 2, 4 and
\* 5, to which the interrupt handler may count up a detached state: the increment
\* of MAX3421E.c:222 never turns one phase of the enumeration into another.
TypeOK ==
  /\ pc \in {"reset", "initProbe", "initAck", "irq", "probe", "ack", "usb", "main"}
  /\ usb_task_state \in 1 .. 5 \union ATTACHED .. GET_DESCRIPTOR
                        \union {ADDRESSING, CONFIGURING, RUNNING, ERROR}
  /\ epinfo \in [Slot -> {"NULL", "dev0ep", "hid_ep"}]
  /\ devclass \in [Slot -> {"none", "keyboard", "mouse"}]
  /\ tmp_addr \in 0 .. USB_NUMDEVICES - 1 /\ hid_addr \in 0 .. USB_NUMDEVICES - 1
  /\ usb_delay \in {"ahead", "past"} /\ hirq \in BOOLEAN
  /\ runningdebugflag \in BOOLEAN /\ errorflag \in BOOLEAN /\ led9 \in BOOLEAN
  /\ device \in {"none", "keyboard", "mouse", "unknown"} /\ keycode \in Keys
  /\ condet \in BOOLEAN /\ busevent \in BOOLEAN /\ busrst \in BOOLEAN
  /\ line \in {"SE0", "JK", "SE1"} /\ kind \in Kinds
  /\ devaddr \in 0 .. USB_NUMDEVICES - 1 /\ events \in 0 .. MaxEvents

\* The endpoint record of a slot is there whenever the program follows the pointer:
\* the probes at tmp_addr, GetDriverandReport at address 1, the polls at hid_addr.
NoNullDeref ==
  /\ pc = "usb" /\ usb_task_state = CONFIGURING =>
       tmp_addr \in Slot /\ epinfo[tmp_addr] # "NULL"
  /\ pc = "main" /\ usb_task_state = RUNNING =>
       epinfo[1] # "NULL" /\ hid_addr \in Slot /\ epinfo[hid_addr] = "hid_ep"

\* Once main has looked up the class of the device, it polls as that class the
\* device a driver claimed last, however many slots earlier attempts have left used.
ReportedDeviceIsPolled ==
  pc = "main" /\ usb_task_state = RUNNING /\ runningdebugflag =>
    hid_addr \in Slot /\ device = devclass[hid_addr]

\* No transfer starts before the bus reset that USB_Task issued is over, neither
\* by the poll of BUSRST nor by the handler's count, whatever events are left
\* from an earlier reset.
ResetIsOver ==
  usb_task_state \in {WAIT_SOF, GET_DESCRIPTOR, ADDRESSING, CONFIGURING, RUNNING} =>
    ~busrst

\* While the program is running a device and no interrupt is pending, that device
\* is on the bus, has the address the polls go to and is of the class entered for it.
RunningMeansAnswering ==
  usb_task_state = RUNNING /\ ~condet =>
    Answers(hid_addr) /\ kind = devclass[hid_addr]

\* A running device that is pulled out is noticed.
UnplugNoticed ==
  (usb_task_state = RUNNING /\ line # "JK") ~> (usb_task_state # RUNNING)

\* MAX3421E.c 125: the probe is made "to determine device presense", and a device that
\* is on the bus and stays there gets the state machine out of its detached states.
\* The code does not keep it: one plugged in between a probe and the write that
\* acknowledges the interrupt is acknowledged without ever being probed, and is never
\* looked for again.  No run has it; TLC refutes it with MaxEvents = 1.
PlugInNoticed ==
  (line = "JK") ~> (line # "JK" \/ ~Detached(usb_task_state))

\* An attachment comes to an end: the device runs, is refused, or is gone.
AttachEnds ==
  (usb_task_state \in ATTACHED .. CONFIGURING) ~>
    (usb_task_state \in {RUNNING, ERROR} \/ Detached(usb_task_state))
===============================================================================
