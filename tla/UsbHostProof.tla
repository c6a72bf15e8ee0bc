---------------------------- MODULE UsbHostProof -----------------------------
(***************************************************************************)
(* The invariants of the USB host software, for every length of the device *)
(* table and every number of disturbances of the bus.                      *)
(***************************************************************************)
EXTENDS UsbHost, TLAPS

\* The handler and the chip's initialisation have probed the bus, so that no
\* transfer is under way when an interrupt is acknowledged or the table cleared.
Probed == pc \in {"reset", "initProbe", "initAck", "ack"} => usb_task_state < ADDRESSING

\* runningdebugflag is up only while a device runs, or until main's next look
\* at the state after the device was lost.
FlagMeansRan ==
  runningdebugflag =>
    \/ usb_task_state = RUNNING
    \/ pc \in {"ack", "usb"} /\ usb_task_state \in {1, 2, 4, 5, ATTACHED, SETTLE}
    \/ pc = "main" /\ usb_task_state \in {2, 3, 4, 5, SETTLE, RESET_DEVICE}

\* The slots in use are the first ones, and the last of them is that of the device
\* being configured or running.
SlotsInOrder ==
  /\ \A s, t \in Slot : s < t /\ epinfo[t] # "NULL" => epinfo[s] # "NULL"
  /\ usb_task_state \in {CONFIGURING, RUNNING} =>
       /\ tmp_addr \in Slot /\ epinfo[tmp_addr] # "NULL"
       /\ \A t \in Slot : tmp_addr < t => epinfo[t] = "NULL"
  /\ usb_task_state = RUNNING => hid_addr = tmp_addr /\ epinfo[hid_addr] = "hid_ep"
  /\ usb_task_state = RUNNING /\ runningdebugflag => device = devclass[hid_addr]

\* A bus event recorded while a bus reset is awaited is the end of that reset.
EventEndsReset ==
  usb_task_state = WAIT_RESET /\ busrst => ~busevent /\ (pc = "probe" => ~hirq)

\* The one-bit variables of TypeOK, and the rest of it.
FlagsOK ==
  /\ hirq \in BOOLEAN /\ condet \in BOOLEAN /\ busevent \in BOOLEAN
  /\ busrst \in BOOLEAN /\ runningdebugflag \in BOOLEAN
  /\ errorflag \in BOOLEAN /\ led9 \in BOOLEAN
WordsOK ==
  /\ pc \in {"reset", "initProbe", "initAck", "irq", "probe", "ack", "usb", "main"}
  /\ usb_task_state \in 1 .. 5 \union ATTACHED .. GET_DESCRIPTOR
                        \union {ADDRESSING, CONFIGURING, RUNNING, ERROR}
  /\ epinfo \in [Slot -> {"NULL", "dev0ep", "hid_ep"}]
  /\ devclass \in [Slot -> {"none", "keyboard", "mouse"}]
  /\ tmp_addr \in 0 .. USB_NUMDEVICES - 1 /\ hid_addr \in 0 .. USB_NUMDEVICES - 1
  /\ usb_delay \in {"ahead", "past"}
  /\ device \in {"none", "keyboard", "mouse", "unknown"} /\ keycode \in Keys
  /\ line \in {"SE0", "JK", "SE1"} /\ kind \in Kinds
  /\ devaddr \in 0 .. USB_NUMDEVICES - 1 /\ events \in 0 .. MaxEvents

UsbInv == /\ TypeOK /\ Probed /\ FlagMeansRan /\ SlotsInOrder
          /\ EventEndsReset /\ ResetIsOver /\ RunningMeansAnswering
------------------------------------------------------------------------------
USE UsbAssumption DEF INITIALIZE, WAIT_FOR_DEVICE, ILLEGAL, ATTACHED, SETTLE, RESET_DEVICE,
  WAIT_RESET, WAIT_SOF, GET_DESCRIPTOR, ADDRESSING, CONFIGURING, RUNNING, ERROR, Slot,
  progVars, tableVars, mainVars, chipVars, busVars

\* The probes of mouse and keyboard differ in the kind of device alone.
LEMMA EitherClaims ==
  TaskClaim <=> InUsbTask(CONFIGURING) /\ Claim({"keyboard", "mouse"})
  BY Zenon DEF TaskClaim, HIDMProbe, HIDKProbe, Claim

\* A step of the program or of the hardware keeps the types of the words.
LEMMA WordsKept ==
  WordsOK /\ [Next]_vars => WordsOK'
<1> SUFFICES ASSUME WordsOK, [Next]_vars PROVE WordsOK'
  OBVIOUS
<1>1. CASE InitReset
  BY <1>1 DEF WordsOK, InitReset
<1>2. CASE InitProbe
  BY <1>2 DEF WordsOK, InitProbe, Probe, Detached
<1>3. CASE InitAck
  BY <1>3 DEF WordsOK, InitAck, ClearTable
<1>4. CASE NoInterrupt
  BY <1>4 DEF WordsOK, NoInterrupt
<1>5. CASE ReadHirq
  BY <1>5 DEF WordsOK, ReadHirq
<1>6. CASE HandlerProbe
  BY <1>6 DEF WordsOK, HandlerProbe, Probe, Detached
<1>7. CASE HandlerAck
  BY <1>7 DEF WordsOK, HandlerAck
<1>8. CASE TaskInitialize
  BY <1>8 DEF WordsOK, TaskInitialize, InUsbTask, Goto, ClearTable
<1>9. CASE TaskIdle
  BY <1>9 DEF WordsOK, TaskIdle, Idle, Detached
<1>10. CASE TaskAttached
  BY <1>10 DEF WordsOK, TaskAttached, InUsbTask, Goto
<1>11. CASE TaskSettle
  BY <1>11 DEF WordsOK, TaskSettle, InUsbTask, Goto
<1>12. CASE TaskResetDevice
  BY <1>12 DEF WordsOK, TaskResetDevice, InUsbTask, Goto
<1>13. CASE TaskWaitReset
  BY <1>13 DEF WordsOK, TaskWaitReset, InUsbTask, Goto
<1>14. CASE TaskWaitSof
  BY <1>14 DEF WordsOK, TaskWaitSof, InUsbTask, Goto
<1>15. CASE TaskGetDescriptor
  BY <1>15 DEF WordsOK, TaskGetDescriptor, InUsbTask, Goto, Answers
<1>16. CASE TaskAddress
  BY <1>16 DEF WordsOK, TaskAddress, InUsbTask, Goto, Answers, FirstFree, Free
<1>17. CASE TaskNoAddress
  BY <1>17 DEF WordsOK, TaskNoAddress, InUsbTask, Goto, Free
<1>18. CASE TaskClaim
  <2>1. devclass' \in [Slot -> {"none", "keyboard", "mouse"}]
    BY <1>18, EitherClaims DEF WordsOK, Claim
  <2>2. epinfo' \in [Slot -> {"NULL", "dev0ep", "hid_ep"}]
    BY <1>18, EitherClaims DEF WordsOK, Claim
  <2>3. pc' = "main" /\ usb_task_state' \in {RUNNING, ERROR}
    BY <1>18, EitherClaims DEF Claim, InUsbTask, Goto
  <2>4. UNCHANGED <<tmp_addr, usb_delay, device, keycode, busVars>> /\ hid_addr' = tmp_addr
    BY <1>18, EitherClaims DEF Claim
  <2>5. QED
    BY <2>1, <2>2, <2>3, <2>4 DEF WordsOK
<1>19. CASE TaskNoDriver
  BY <1>19 DEF WordsOK, TaskNoDriver, InUsbTask, Goto
<1>20. CASE MainReport
  BY <1>20 DEF WordsOK, MainReport, InMain, Used, LastUsed
<1>21. CASE MainPoll
  BY <1>21 DEF WordsOK, MainPoll, InMain, Answers
<1>22. CASE MainError
  BY <1>22 DEF WordsOK, MainError, InMain
<1>23. CASE MainLost
  BY <1>23 DEF WordsOK, MainLost
<1>24. CASE MainWait
  BY <1>24 DEF WordsOK, MainWait, InMain
<1>25. CASE LineChange
  BY <1>25 DEF WordsOK, LineChange
<1>26. CASE ResetDisturbs
  BY <1>26 DEF WordsOK, ResetDisturbs
<1>27. CASE ResetDone
  BY <1>27 DEF WordsOK, ResetDone
<1>28. CASE DelayPasses
  BY <1>28 DEF WordsOK, DelayPasses
<1>29. CASE UNCHANGED vars
  BY <1>29 DEF WordsOK, vars
<1> QED
  BY <1>1, <1>2, <1>3, <1>4, <1>5, <1>6, <1>7, <1>8, <1>9, <1>10, <1>11, <1>12, <1>13, <1>14, <1>15, <1>16, <1>17, <1>18, <1>19, <1>20, <1>21, <1>22, <1>23, <1>24, <1>25, <1>26, <1>27, <1>28, <1>29
  DEF Next, Program, UsbTask, Hardware

\* It keeps the one-bit variables one bit.
LEMMA FlagsKept ==
  FlagsOK /\ [Next]_vars => FlagsOK'
<1> SUFFICES ASSUME FlagsOK, [Next]_vars PROVE FlagsOK'
  OBVIOUS
<1>1. CASE InitReset
  BY <1>1, Zenon DEF FlagsOK, InitReset
<1>2. CASE InitProbe
  BY <1>2, Zenon DEF FlagsOK, InitProbe
<1>3. CASE InitAck
  BY <1>3, Zenon DEF FlagsOK, InitAck
<1>4. CASE NoInterrupt
  BY <1>4, Zenon DEF FlagsOK, NoInterrupt
<1>5. CASE ReadHirq
  BY <1>5, Zenon DEF FlagsOK, ReadHirq
<1>6. CASE HandlerProbe
  BY <1>6, Zenon DEF FlagsOK, HandlerProbe
<1>7. CASE HandlerAck
  BY <1>7, Zenon DEF FlagsOK, HandlerAck
<1>8. CASE TaskInitialize
  BY <1>8, Zenon DEF FlagsOK, TaskInitialize
<1>9. CASE TaskIdle
  BY <1>9, Zenon DEF FlagsOK, TaskIdle
<1>10. CASE TaskAttached
  BY <1>10, Zenon DEF FlagsOK, TaskAttached
<1>11. CASE TaskSettle
  BY <1>11, Zenon DEF FlagsOK, TaskSettle
<1>12. CASE TaskResetDevice
  BY <1>12, Zenon DEF FlagsOK, TaskResetDevice
<1>13. CASE TaskWaitReset
  BY <1>13, Zenon DEF FlagsOK, TaskWaitReset
<1>14. CASE TaskWaitSof
  BY <1>14, Zenon DEF FlagsOK, TaskWaitSof
<1>15. CASE TaskGetDescriptor
  BY <1>15, Zenon DEF FlagsOK, TaskGetDescriptor
<1>16. CASE TaskAddress
  BY <1>16, Zenon DEF FlagsOK, TaskAddress
<1>17. CASE TaskNoAddress
  BY <1>17, Zenon DEF FlagsOK, TaskNoAddress
<1>18. CASE TaskClaim
  BY <1>18, EitherClaims, Zenon DEF FlagsOK, Claim
<1>19. CASE TaskNoDriver
  BY <1>19, Zenon DEF FlagsOK, TaskNoDriver
<1>20. CASE MainReport
  BY <1>20, Zenon DEF FlagsOK, MainReport
<1>21. CASE MainPoll
  BY <1>21, Zenon DEF FlagsOK, MainPoll
<1>22. CASE MainError
  BY <1>22, Zenon DEF FlagsOK, MainError
<1>23. CASE MainLost
  BY <1>23, Zenon DEF FlagsOK, MainLost
<1>24. CASE MainWait
  BY <1>24, Zenon DEF FlagsOK, MainWait
<1>25. CASE LineChange
  BY <1>25, Zenon DEF FlagsOK, LineChange
<1>26. CASE ResetDisturbs
  BY <1>26, Zenon DEF FlagsOK, ResetDisturbs
<1>27. CASE ResetDone
  BY <1>27, Zenon DEF FlagsOK, ResetDone
<1>28. CASE DelayPasses
  BY <1>28, Zenon DEF FlagsOK, DelayPasses
<1>29. CASE UNCHANGED vars
  BY <1>29, Zenon DEF FlagsOK, vars
<1> QED
  BY <1>1, <1>2, <1>3, <1>4, <1>5, <1>6, <1>7, <1>8, <1>9, <1>10, <1>11, <1>12, <1>13, <1>14, <1>15, <1>16, <1>17, <1>18, <1>19, <1>20, <1>21, <1>22, <1>23, <1>24, <1>25, <1>26, <1>27, <1>28, <1>29
  DEF Next, Program, UsbTask, Hardware

\* The types, in two parts.
LEMMA TypeParts == TypeOK <=> WordsOK /\ FlagsOK
BY Zenon DEF TypeOK, WordsOK, FlagsOK

\* And after a step.
LEMMA TypePartsNext == TypeOK' <=> WordsOK' /\ FlagsOK'
BY Zenon DEF TypeOK, WordsOK, FlagsOK

\* The program is never in a transfer where it acknowledges or clears.
LEMMA ProbedKept ==
  WordsOK /\ FlagMeansRan /\ Probed /\ [Next]_vars => Probed'
<1> SUFFICES ASSUME WordsOK, FlagMeansRan, Probed, [Next]_vars PROVE Probed'
  OBVIOUS
<1>1. CASE InitReset
  BY <1>1 DEF WordsOK, FlagMeansRan, Probed, InitReset
<1>2. CASE InitProbe
  BY <1>2 DEF WordsOK, FlagMeansRan, Probed, InitProbe, Probe, Detached
<1>3. CASE InitAck
  BY <1>3 DEF WordsOK, FlagMeansRan, Probed, InitAck, ClearTable
<1>4. CASE NoInterrupt
  BY <1>4 DEF WordsOK, FlagMeansRan, Probed, NoInterrupt
<1>5. CASE ReadHirq
  BY <1>5 DEF WordsOK, FlagMeansRan, Probed, ReadHirq
<1>6. CASE HandlerProbe
  BY <1>6 DEF WordsOK, FlagMeansRan, Probed, HandlerProbe, Probe, Detached
<1>7. CASE HandlerAck
  BY <1>7 DEF WordsOK, FlagMeansRan, Probed, HandlerAck
<1>8. CASE TaskInitialize
  BY <1>8 DEF WordsOK, FlagMeansRan, Probed, TaskInitialize, InUsbTask, Goto, ClearTable
<1>9. CASE TaskIdle
  BY <1>9 DEF WordsOK, FlagMeansRan, Probed, TaskIdle, Idle, Detached
<1>10. CASE TaskAttached
  BY <1>10 DEF WordsOK, FlagMeansRan, Probed, TaskAttached, InUsbTask, Goto
<1>11. CASE TaskSettle
  BY <1>11 DEF WordsOK, FlagMeansRan, Probed, TaskSettle, InUsbTask, Goto
<1>12. CASE TaskResetDevice
  BY <1>12 DEF WordsOK, FlagMeansRan, Probed, TaskResetDevice, InUsbTask, Goto
<1>13. CASE TaskWaitReset
  BY <1>13 DEF WordsOK, FlagMeansRan, Probed, TaskWaitReset, InUsbTask, Goto
<1>14. CASE TaskWaitSof
  BY <1>14 DEF WordsOK, FlagMeansRan, Probed, TaskWaitSof, InUsbTask, Goto
<1>15. CASE TaskGetDescriptor
  BY <1>15 DEF WordsOK, FlagMeansRan, Probed, TaskGetDescriptor, InUsbTask, Goto, Answers
<1>16. CASE TaskAddress
  BY <1>16 DEF WordsOK, FlagMeansRan, Probed, TaskAddress, InUsbTask, Goto, Answers, FirstFree, Free
<1>17. CASE TaskNoAddress
  BY <1>17 DEF WordsOK, FlagMeansRan, Probed, TaskNoAddress, InUsbTask, Goto, Free
<1>18. CASE TaskClaim
  <2>1. InUsbTask(CONFIGURING) /\ Claim({"keyboard", "mouse"})
    BY <1>18, EitherClaims
  <2>2. QED
    BY <2>1 DEF WordsOK, FlagMeansRan, Probed, Claim, InUsbTask, Goto, Answers
<1>19. CASE TaskNoDriver
  BY <1>19 DEF WordsOK, FlagMeansRan, Probed, TaskNoDriver, InUsbTask, Goto
<1>20. CASE MainReport
  BY <1>20 DEF WordsOK, FlagMeansRan, Probed, MainReport, InMain, Used, LastUsed
<1>21. CASE MainPoll
  BY <1>21 DEF WordsOK, FlagMeansRan, Probed, MainPoll, InMain, Answers
<1>22. CASE MainError
  BY <1>22 DEF WordsOK, FlagMeansRan, Probed, MainError, InMain
<1>23. CASE MainLost
  BY <1>23 DEF WordsOK, FlagMeansRan, Probed, MainLost
<1>24. CASE MainWait
  BY <1>24 DEF WordsOK, FlagMeansRan, Probed, MainWait, InMain
<1>25. CASE LineChange
  BY <1>25 DEF WordsOK, FlagMeansRan, Probed, LineChange
<1>26. CASE ResetDisturbs
  BY <1>26 DEF WordsOK, FlagMeansRan, Probed, ResetDisturbs
<1>27. CASE ResetDone
  BY <1>27 DEF WordsOK, FlagMeansRan, Probed, ResetDone
<1>28. CASE DelayPasses
  BY <1>28 DEF WordsOK, FlagMeansRan, Probed, DelayPasses
<1>29. CASE UNCHANGED vars
  BY <1>29 DEF WordsOK, FlagMeansRan, Probed, vars
<1> QED
  BY <1>1, <1>2, <1>3, <1>4, <1>5, <1>6, <1>7, <1>8, <1>9, <1>10, <1>11, <1>12, <1>13, <1>14, <1>15, <1>16, <1>17, <1>18, <1>19, <1>20, <1>21, <1>22, <1>23, <1>24, <1>25, <1>26, <1>27, <1>28, <1>29
  DEF Next, Program, UsbTask, Hardware

\* A device that ran and is lost is met by main before anything else can run.
LEMMA FlagMeansRanKept ==
  WordsOK /\ Probed /\ FlagMeansRan /\ [Next]_vars => FlagMeansRan'
<1> SUFFICES ASSUME WordsOK, Probed, FlagMeansRan, [Next]_vars PROVE FlagMeansRan'
  OBVIOUS
<1>1. CASE InitReset
  BY <1>1 DEF WordsOK, FlagMeansRan, Probed, InitReset
<1>2. CASE InitProbe
  BY <1>2 DEF WordsOK, FlagMeansRan, Probed, InitProbe, Probe, Detached
<1>3. CASE InitAck
  BY <1>3 DEF WordsOK, FlagMeansRan, Probed, InitAck, ClearTable
<1>4. CASE NoInterrupt
  BY <1>4 DEF WordsOK, FlagMeansRan, Probed, NoInterrupt
<1>5. CASE ReadHirq
  BY <1>5 DEF WordsOK, FlagMeansRan, Probed, ReadHirq
<1>6. CASE HandlerProbe
  BY <1>6 DEF WordsOK, FlagMeansRan, Probed, HandlerProbe, Probe, Detached
<1>7. CASE HandlerAck
  BY <1>7 DEF WordsOK, FlagMeansRan, Probed, HandlerAck
<1>8. CASE TaskInitialize
  BY <1>8 DEF WordsOK, FlagMeansRan, Probed, TaskInitialize, InUsbTask, Goto, ClearTable
<1>9. CASE TaskIdle
  BY <1>9 DEF WordsOK, FlagMeansRan, Probed, TaskIdle, Idle, Detached
<1>10. CASE TaskAttached
  BY <1>10 DEF WordsOK, FlagMeansRan, Probed, TaskAttached, InUsbTask, Goto
<1>11. CASE TaskSettle
  BY <1>11 DEF WordsOK, FlagMeansRan, Probed, TaskSettle, InUsbTask, Goto
<1>12. CASE TaskResetDevice
  BY <1>12 DEF WordsOK, FlagMeansRan, Probed, TaskResetDevice, InUsbTask, Goto
<1>13. CASE TaskWaitReset
  BY <1>13 DEF WordsOK, FlagMeansRan, Probed, TaskWaitReset, InUsbTask, Goto
<1>14. CASE TaskWaitSof
  BY <1>14 DEF WordsOK, FlagMeansRan, Probed, TaskWaitSof, InUsbTask, Goto
<1>15. CASE TaskGetDescriptor
  BY <1>15 DEF WordsOK, FlagMeansRan, Probed, TaskGetDescriptor, InUsbTask, Goto, Answers
<1>16. CASE TaskAddress
  BY <1>16 DEF WordsOK, FlagMeansRan, Probed, TaskAddress, InUsbTask, Goto, Answers, FirstFree, Free
<1>17. CASE TaskNoAddress
  BY <1>17 DEF WordsOK, FlagMeansRan, Probed, TaskNoAddress, InUsbTask, Goto, Free
<1>18. CASE TaskClaim
  <2>1. InUsbTask(CONFIGURING) /\ Claim({"keyboard", "mouse"})
    BY <1>18, EitherClaims
  <2>2. QED
    BY <2>1 DEF WordsOK, FlagMeansRan, Probed, Claim, InUsbTask, Goto, Answers
<1>19. CASE TaskNoDriver
  BY <1>19 DEF WordsOK, FlagMeansRan, Probed, TaskNoDriver, InUsbTask, Goto
<1>20. CASE MainReport
  BY <1>20 DEF WordsOK, FlagMeansRan, Probed, MainReport, InMain, Used, LastUsed
<1>21. CASE MainPoll
  BY <1>21 DEF WordsOK, FlagMeansRan, Probed, MainPoll, InMain, Answers
<1>22. CASE MainError
  BY <1>22 DEF WordsOK, FlagMeansRan, Probed, MainError, InMain
<1>23. CASE MainLost
  BY <1>23 DEF WordsOK, FlagMeansRan, Probed, MainLost
<1>24. CASE MainWait
  BY <1>24 DEF WordsOK, FlagMeansRan, Probed, MainWait, InMain
<1>25. CASE LineChange
  BY <1>25 DEF WordsOK, FlagMeansRan, Probed, LineChange
<1>26. CASE ResetDisturbs
  BY <1>26 DEF WordsOK, FlagMeansRan, Probed, ResetDisturbs
<1>27. CASE ResetDone
  BY <1>27 DEF WordsOK, FlagMeansRan, Probed, ResetDone
<1>28. CASE DelayPasses
  BY <1>28 DEF WordsOK, FlagMeansRan, Probed, DelayPasses
<1>29. CASE UNCHANGED vars
  BY <1>29 DEF WordsOK, FlagMeansRan, Probed, vars
<1> QED
  BY <1>1, <1>2, <1>3, <1>4, <1>5, <1>6, <1>7, <1>8, <1>9, <1>10, <1>11, <1>12, <1>13, <1>14, <1>15, <1>16, <1>17, <1>18, <1>19, <1>20, <1>21, <1>22, <1>23, <1>24, <1>25, <1>26, <1>27, <1>28, <1>29
  DEF Next, Program, UsbTask, Hardware

\* Slots are taken in order and cleared only together, with no device in use.
LEMMA SlotsKept ==
  WordsOK /\ Probed /\ FlagMeansRan /\ SlotsInOrder /\ [Next]_vars => SlotsInOrder'
<1> SUFFICES ASSUME WordsOK, Probed, FlagMeansRan, SlotsInOrder, [Next]_vars PROVE SlotsInOrder'
  OBVIOUS
<1>1. CASE InitReset
  BY <1>1 DEF WordsOK, FlagMeansRan, Probed, SlotsInOrder, InitReset
<1>2. CASE InitProbe
  BY <1>2 DEF WordsOK, FlagMeansRan, Probed, SlotsInOrder, InitProbe, Probe, Detached
<1>3. CASE InitAck
  BY <1>3 DEF WordsOK, FlagMeansRan, Probed, SlotsInOrder, InitAck, ClearTable
<1>4. CASE NoInterrupt
  BY <1>4 DEF WordsOK, FlagMeansRan, Probed, SlotsInOrder, NoInterrupt
<1>5. CASE ReadHirq
  BY <1>5 DEF WordsOK, FlagMeansRan, Probed, SlotsInOrder, ReadHirq
<1>6. CASE HandlerProbe
  BY <1>6 DEF WordsOK, FlagMeansRan, Probed, SlotsInOrder, HandlerProbe, Probe, Detached
<1>7. CASE HandlerAck
  BY <1>7 DEF WordsOK, FlagMeansRan, Probed, SlotsInOrder, HandlerAck
<1>8. CASE TaskInitialize
  BY <1>8 DEF WordsOK, FlagMeansRan, Probed, SlotsInOrder, TaskInitialize, InUsbTask, Goto, ClearTable
<1>9. CASE TaskIdle
  BY <1>9 DEF WordsOK, FlagMeansRan, Probed, SlotsInOrder, TaskIdle, Idle, Detached
<1>10. CASE TaskAttached
  BY <1>10 DEF WordsOK, FlagMeansRan, Probed, SlotsInOrder, TaskAttached, InUsbTask, Goto
<1>11. CASE TaskSettle
  BY <1>11 DEF WordsOK, FlagMeansRan, Probed, SlotsInOrder, TaskSettle, InUsbTask, Goto
<1>12. CASE TaskResetDevice
  BY <1>12 DEF WordsOK, FlagMeansRan, Probed, SlotsInOrder, TaskResetDevice, InUsbTask, Goto
<1>13. CASE TaskWaitReset
  BY <1>13 DEF WordsOK, FlagMeansRan, Probed, SlotsInOrder, TaskWaitReset, InUsbTask, Goto
<1>14. CASE TaskWaitSof
  BY <1>14 DEF WordsOK, FlagMeansRan, Probed, SlotsInOrder, TaskWaitSof, InUsbTask, Goto
<1>15. CASE TaskGetDescriptor
  BY <1>15 DEF WordsOK, FlagMeansRan, Probed, SlotsInOrder, TaskGetDescriptor, InUsbTask, Goto, Answers
<1>16. CASE TaskAddress
  BY <1>16 DEF WordsOK, FlagMeansRan, Probed, SlotsInOrder, TaskAddress, InUsbTask, Goto, Answers, FirstFree, Free
<1>17. CASE TaskNoAddress
  BY <1>17 DEF WordsOK, FlagMeansRan, Probed, SlotsInOrder, TaskNoAddress, InUsbTask, Goto, Free
<1>18. CASE TaskClaim
  <2>1. InUsbTask(CONFIGURING) /\ Claim({"keyboard", "mouse"})
    BY <1>18, EitherClaims
  <2>2. QED
    BY <2>1 DEF WordsOK, FlagMeansRan, Probed, SlotsInOrder, Claim, InUsbTask, Goto, Answers
<1>19. CASE TaskNoDriver
  BY <1>19 DEF WordsOK, FlagMeansRan, Probed, SlotsInOrder, TaskNoDriver, InUsbTask, Goto
<1>20. CASE MainReport
  BY <1>20 DEF WordsOK, FlagMeansRan, Probed, SlotsInOrder, MainReport, InMain, Used, LastUsed
<1>21. CASE MainPoll
  BY <1>21 DEF WordsOK, FlagMeansRan, Probed, SlotsInOrder, MainPoll, InMain, Answers
<1>22. CASE MainError
  BY <1>22 DEF WordsOK, FlagMeansRan, Probed, SlotsInOrder, MainError, InMain
<1>23. CASE MainLost
  BY <1>23 DEF WordsOK, FlagMeansRan, Probed, SlotsInOrder, MainLost
<1>24. CASE MainWait
  BY <1>24 DEF WordsOK, FlagMeansRan, Probed, SlotsInOrder, MainWait, InMain
<1>25. CASE LineChange
  BY <1>25 DEF WordsOK, FlagMeansRan, Probed, SlotsInOrder, LineChange
<1>26. CASE ResetDisturbs
  BY <1>26 DEF WordsOK, FlagMeansRan, Probed, SlotsInOrder, ResetDisturbs
<1>27. CASE ResetDone
  BY <1>27 DEF WordsOK, FlagMeansRan, Probed, SlotsInOrder, ResetDone
<1>28. CASE DelayPasses
  BY <1>28 DEF WordsOK, FlagMeansRan, Probed, SlotsInOrder, DelayPasses
<1>29. CASE UNCHANGED vars
  BY <1>29 DEF WordsOK, FlagMeansRan, Probed, SlotsInOrder, vars
<1> QED
  BY <1>1, <1>2, <1>3, <1>4, <1>5, <1>6, <1>7, <1>8, <1>9, <1>10, <1>11, <1>12, <1>13, <1>14, <1>15, <1>16, <1>17, <1>18, <1>19, <1>20, <1>21, <1>22, <1>23, <1>24, <1>25, <1>26, <1>27, <1>28, <1>29
  DEF Next, Program, UsbTask, Hardware

\* A bus reset starts with no bus event recorded, and its end records one.
LEMMA EventKept ==
  WordsOK /\ EventEndsReset /\ [Next]_vars => EventEndsReset'
<1> SUFFICES ASSUME WordsOK, EventEndsReset, [Next]_vars PROVE EventEndsReset'
  OBVIOUS
<1>1. CASE InitReset
  BY <1>1 DEF WordsOK, EventEndsReset, InitReset
<1>2. CASE InitProbe
  BY <1>2 DEF WordsOK, EventEndsReset, InitProbe, Probe, Detached
<1>3. CASE InitAck
  BY <1>3 DEF WordsOK, EventEndsReset, InitAck, ClearTable
<1>4. CASE NoInterrupt
  BY <1>4 DEF WordsOK, EventEndsReset, NoInterrupt
<1>5. CASE ReadHirq
  BY <1>5 DEF WordsOK, EventEndsReset, ReadHirq
<1>6. CASE HandlerProbe
  BY <1>6 DEF WordsOK, EventEndsReset, HandlerProbe, Probe, Detached
<1>7. CASE HandlerAck
  BY <1>7 DEF WordsOK, EventEndsReset, HandlerAck
<1>8. CASE TaskInitialize
  BY <1>8 DEF WordsOK, EventEndsReset, TaskInitialize, InUsbTask, Goto, ClearTable
<1>9. CASE TaskIdle
  BY <1>9 DEF WordsOK, EventEndsReset, TaskIdle, Idle, Detached
<1>10. CASE TaskAttached
  BY <1>10 DEF WordsOK, EventEndsReset, TaskAttached, InUsbTask, Goto
<1>11. CASE TaskSettle
  BY <1>11 DEF WordsOK, EventEndsReset, TaskSettle, InUsbTask, Goto
<1>12. CASE TaskResetDevice
  BY <1>12 DEF WordsOK, EventEndsReset, TaskResetDevice, InUsbTask, Goto
<1>13. CASE TaskWaitReset
  BY <1>13 DEF WordsOK, EventEndsReset, TaskWaitReset, InUsbTask, Goto
<1>14. CASE TaskWaitSof
  BY <1>14 DEF WordsOK, EventEndsReset, TaskWaitSof, InUsbTask, Goto
<1>15. CASE TaskGetDescriptor
  BY <1>15 DEF WordsOK, EventEndsReset, TaskGetDescriptor, InUsbTask, Goto, Answers
<1>16. CASE TaskAddress
  BY <1>16 DEF WordsOK, EventEndsReset, TaskAddress, InUsbTask, Goto, Answers, FirstFree, Free
<1>17. CASE TaskNoAddress
  BY <1>17 DEF WordsOK, EventEndsReset, TaskNoAddress, InUsbTask, Goto, Free
<1>18. CASE TaskClaim
  <2>1. InUsbTask(CONFIGURING) /\ Claim({"keyboard", "mouse"})
    BY <1>18, EitherClaims
  <2>2. QED
    BY <2>1 DEF WordsOK, EventEndsReset, Claim, InUsbTask, Goto, Answers
<1>19. CASE TaskNoDriver
  BY <1>19 DEF WordsOK, EventEndsReset, TaskNoDriver, InUsbTask, Goto
<1>20. CASE MainReport
  BY <1>20 DEF WordsOK, EventEndsReset, MainReport, InMain, Used, LastUsed
<1>21. CASE MainPoll
  BY <1>21 DEF WordsOK, EventEndsReset, MainPoll, InMain, Answers
<1>22. CASE MainError
  BY <1>22 DEF WordsOK, EventEndsReset, MainError, InMain
<1>23. CASE MainLost
  BY <1>23 DEF WordsOK, EventEndsReset, MainLost
<1>24. CASE MainWait
  BY <1>24 DEF WordsOK, EventEndsReset, MainWait, InMain
<1>25. CASE LineChange
  BY <1>25 DEF WordsOK, EventEndsReset, LineChange
<1>26. CASE ResetDisturbs
  BY <1>26 DEF WordsOK, EventEndsReset, ResetDisturbs
<1>27. CASE ResetDone
  BY <1>27 DEF WordsOK, EventEndsReset, ResetDone
<1>28. CASE DelayPasses
  BY <1>28 DEF WordsOK, EventEndsReset, DelayPasses
<1>29. CASE UNCHANGED vars
  BY <1>29 DEF WordsOK, EventEndsReset, vars
<1> QED
  BY <1>1, <1>2, <1>3, <1>4, <1>5, <1>6, <1>7, <1>8, <1>9, <1>10, <1>11, <1>12, <1>13, <1>14, <1>15, <1>16, <1>17, <1>18, <1>19, <1>20, <1>21, <1>22, <1>23, <1>24, <1>25, <1>26, <1>27, <1>28, <1>29
  DEF Next, Program, UsbTask, Hardware

\* Only the end of the bus reset leads on, by the poll or by the handler's count.
LEMMA ResetIsOverKept ==
  WordsOK /\ EventEndsReset /\ ResetIsOver /\ [Next]_vars => ResetIsOver'
<1> SUFFICES ASSUME WordsOK, EventEndsReset, ResetIsOver, [Next]_vars PROVE ResetIsOver'
  OBVIOUS
<1>1. CASE InitReset
  BY <1>1 DEF WordsOK, EventEndsReset, ResetIsOver, InitReset
<1>2. CASE InitProbe
  BY <1>2 DEF WordsOK, EventEndsReset, ResetIsOver, InitProbe, Probe, Detached
<1>3. CASE InitAck
  BY <1>3 DEF WordsOK, EventEndsReset, ResetIsOver, InitAck, ClearTable
<1>4. CASE NoInterrupt
  BY <1>4 DEF WordsOK, EventEndsReset, ResetIsOver, NoInterrupt
<1>5. CASE ReadHirq
  BY <1>5 DEF WordsOK, EventEndsReset, ResetIsOver, ReadHirq
<1>6. CASE HandlerProbe
  BY <1>6 DEF WordsOK, EventEndsReset, ResetIsOver, HandlerProbe, Probe, Detached
<1>7. CASE HandlerAck
  BY <1>7 DEF WordsOK, EventEndsReset, ResetIsOver, HandlerAck
<1>8. CASE TaskInitialize
  BY <1>8 DEF WordsOK, EventEndsReset, ResetIsOver, TaskInitialize, InUsbTask, Goto, ClearTable
<1>9. CASE TaskIdle
  BY <1>9 DEF WordsOK, EventEndsReset, ResetIsOver, TaskIdle, Idle, Detached
<1>10. CASE TaskAttached
  BY <1>10 DEF WordsOK, EventEndsReset, ResetIsOver, TaskAttached, InUsbTask, Goto
<1>11. CASE TaskSettle
  BY <1>11 DEF WordsOK, EventEndsReset, ResetIsOver, TaskSettle, InUsbTask, Goto
<1>12. CASE TaskResetDevice
  BY <1>12 DEF WordsOK, EventEndsReset, ResetIsOver, TaskResetDevice, InUsbTask, Goto
<1>13. CASE TaskWaitReset
  BY <1>13 DEF WordsOK, EventEndsReset, ResetIsOver, TaskWaitReset, InUsbTask, Goto
<1>14. CASE TaskWaitSof
  BY <1>14 DEF WordsOK, EventEndsReset, ResetIsOver, TaskWaitSof, InUsbTask, Goto
<1>15. CASE TaskGetDescriptor
  BY <1>15 DEF WordsOK, EventEndsReset, ResetIsOver, TaskGetDescriptor, InUsbTask, Goto, Answers
<1>16. CASE TaskAddress
  BY <1>16 DEF WordsOK, EventEndsReset, ResetIsOver, TaskAddress, InUsbTask, Goto, Answers, FirstFree, Free
<1>17. CASE TaskNoAddress
  BY <1>17 DEF WordsOK, EventEndsReset, ResetIsOver, TaskNoAddress, InUsbTask, Goto, Free
<1>18. CASE TaskClaim
  <2>1. InUsbTask(CONFIGURING) /\ Claim({"keyboard", "mouse"})
    BY <1>18, EitherClaims
  <2>2. QED
    BY <2>1 DEF WordsOK, EventEndsReset, ResetIsOver, Claim, InUsbTask, Goto, Answers
<1>19. CASE TaskNoDriver
  BY <1>19 DEF WordsOK, EventEndsReset, ResetIsOver, TaskNoDriver, InUsbTask, Goto
<1>20. CASE MainReport
  BY <1>20 DEF WordsOK, EventEndsReset, ResetIsOver, MainReport, InMain, Used, LastUsed
<1>21. CASE MainPoll
  BY <1>21 DEF WordsOK, EventEndsReset, ResetIsOver, MainPoll, InMain, Answers
<1>22. CASE MainError
  BY <1>22 DEF WordsOK, EventEndsReset, ResetIsOver, MainError, InMain
<1>23. CASE MainLost
  BY <1>23 DEF WordsOK, EventEndsReset, ResetIsOver, MainLost
<1>24. CASE MainWait
  BY <1>24 DEF WordsOK, EventEndsReset, ResetIsOver, MainWait, InMain
<1>25. CASE LineChange
  BY <1>25 DEF WordsOK, EventEndsReset, ResetIsOver, LineChange
<1>26. CASE ResetDisturbs
  BY <1>26 DEF WordsOK, EventEndsReset, ResetIsOver, ResetDisturbs
<1>27. CASE ResetDone
  BY <1>27 DEF WordsOK, EventEndsReset, ResetIsOver, ResetDone
<1>28. CASE DelayPasses
  BY <1>28 DEF WordsOK, EventEndsReset, ResetIsOver, DelayPasses
<1>29. CASE UNCHANGED vars
  BY <1>29 DEF WordsOK, EventEndsReset, ResetIsOver, vars
<1> QED
  BY <1>1, <1>2, <1>3, <1>4, <1>5, <1>6, <1>7, <1>8, <1>9, <1>10, <1>11, <1>12, <1>13, <1>14, <1>15, <1>16, <1>17, <1>18, <1>19, <1>20, <1>21, <1>22, <1>23, <1>24, <1>25, <1>26, <1>27, <1>28, <1>29
  DEF Next, Program, UsbTask, Hardware

\* What becomes of the running device raises an interrupt, which only a probe takes back.
LEMMA AnsweringKept ==
  WordsOK /\ Probed /\ ResetIsOver /\ SlotsInOrder /\ RunningMeansAnswering /\ [Next]_vars => RunningMeansAnswering'
<1> SUFFICES ASSUME WordsOK, Probed, ResetIsOver, SlotsInOrder, RunningMeansAnswering, [Next]_vars PROVE RunningMeansAnswering'
  OBVIOUS
<1>1. CASE InitReset
  BY <1>1 DEF WordsOK, Probed, ResetIsOver, SlotsInOrder, Answers, RunningMeansAnswering, InitReset
<1>2. CASE InitProbe
  BY <1>2 DEF WordsOK, Probed, ResetIsOver, SlotsInOrder, Answers, RunningMeansAnswering, InitProbe, Probe, Detached
<1>3. CASE InitAck
  BY <1>3 DEF WordsOK, Probed, ResetIsOver, SlotsInOrder, Answers, RunningMeansAnswering, InitAck, ClearTable
<1>4. CASE NoInterrupt
  BY <1>4 DEF WordsOK, Probed, ResetIsOver, SlotsInOrder, Answers, RunningMeansAnswering, NoInterrupt
<1>5. CASE ReadHirq
  BY <1>5 DEF WordsOK, Probed, ResetIsOver, SlotsInOrder, Answers, RunningMeansAnswering, ReadHirq
<1>6. CASE HandlerProbe
  BY <1>6 DEF WordsOK, Probed, ResetIsOver, SlotsInOrder, Answers, RunningMeansAnswering, HandlerProbe, Probe, Detached
<1>7. CASE HandlerAck
  BY <1>7 DEF WordsOK, Probed, ResetIsOver, SlotsInOrder, Answers, RunningMeansAnswering, HandlerAck
<1>8. CASE TaskInitialize
  BY <1>8 DEF WordsOK, Probed, ResetIsOver, SlotsInOrder, Answers, RunningMeansAnswering, TaskInitialize, InUsbTask, Goto, ClearTable
<1>9. CASE TaskIdle
  BY <1>9 DEF WordsOK, Probed, ResetIsOver, SlotsInOrder, Answers, RunningMeansAnswering, TaskIdle, Idle, Detached
<1>10. CASE TaskAttached
  BY <1>10 DEF WordsOK, Probed, ResetIsOver, SlotsInOrder, Answers, RunningMeansAnswering, TaskAttached, InUsbTask, Goto
<1>11. CASE TaskSettle
  BY <1>11 DEF WordsOK, Probed, ResetIsOver, SlotsInOrder, Answers, RunningMeansAnswering, TaskSettle, InUsbTask, Goto
<1>12. CASE TaskResetDevice
  BY <1>12 DEF WordsOK, Probed, ResetIsOver, SlotsInOrder, Answers, RunningMeansAnswering, TaskResetDevice, InUsbTask, Goto
<1>13. CASE TaskWaitReset
  BY <1>13 DEF WordsOK, Probed, ResetIsOver, SlotsInOrder, Answers, RunningMeansAnswering, TaskWaitReset, InUsbTask, Goto
<1>14. CASE TaskWaitSof
  BY <1>14 DEF WordsOK, Probed, ResetIsOver, SlotsInOrder, Answers, RunningMeansAnswering, TaskWaitSof, InUsbTask, Goto
<1>15. CASE TaskGetDescriptor
  BY <1>15 DEF WordsOK, Probed, ResetIsOver, SlotsInOrder, Answers, RunningMeansAnswering, TaskGetDescriptor, InUsbTask, Goto, Answers
<1>16. CASE TaskAddress
  BY <1>16 DEF WordsOK, Probed, ResetIsOver, SlotsInOrder, Answers, RunningMeansAnswering, TaskAddress, InUsbTask, Goto, Answers, FirstFree, Free
<1>17. CASE TaskNoAddress
  BY <1>17 DEF WordsOK, Probed, ResetIsOver, SlotsInOrder, Answers, RunningMeansAnswering, TaskNoAddress, InUsbTask, Goto, Free
<1>18. CASE TaskClaim
  <2>1. InUsbTask(CONFIGURING) /\ Claim({"keyboard", "mouse"})
    BY <1>18, EitherClaims
  <2>2. QED
    BY <2>1 DEF WordsOK, Probed, ResetIsOver, SlotsInOrder, Answers, RunningMeansAnswering, Claim, InUsbTask, Goto, Answers
<1>19. CASE TaskNoDriver
  BY <1>19 DEF WordsOK, Probed, ResetIsOver, SlotsInOrder, Answers, RunningMeansAnswering, TaskNoDriver, InUsbTask, Goto
<1>20. CASE MainReport
  BY <1>20 DEF WordsOK, Probed, ResetIsOver, SlotsInOrder, Answers, RunningMeansAnswering, MainReport, InMain, Used, LastUsed
<1>21. CASE MainPoll
  BY <1>21 DEF WordsOK, Probed, ResetIsOver, SlotsInOrder, Answers, RunningMeansAnswering, MainPoll, InMain, Answers
<1>22. CASE MainError
  BY <1>22 DEF WordsOK, Probed, ResetIsOver, SlotsInOrder, Answers, RunningMeansAnswering, MainError, InMain
<1>23. CASE MainLost
  BY <1>23 DEF WordsOK, Probed, ResetIsOver, SlotsInOrder, Answers, RunningMeansAnswering, MainLost
<1>24. CASE MainWait
  BY <1>24 DEF WordsOK, Probed, ResetIsOver, SlotsInOrder, Answers, RunningMeansAnswering, MainWait, InMain
<1>25. CASE LineChange
  BY <1>25 DEF WordsOK, Probed, ResetIsOver, SlotsInOrder, Answers, RunningMeansAnswering, LineChange
<1>26. CASE ResetDisturbs
  BY <1>26 DEF WordsOK, Probed, ResetIsOver, SlotsInOrder, Answers, RunningMeansAnswering, ResetDisturbs
<1>27. CASE ResetDone
  BY <1>27 DEF WordsOK, Probed, ResetIsOver, SlotsInOrder, Answers, RunningMeansAnswering, ResetDone
<1>28. CASE DelayPasses
  BY <1>28 DEF WordsOK, Probed, ResetIsOver, SlotsInOrder, Answers, RunningMeansAnswering, DelayPasses
<1>29. CASE UNCHANGED vars
  BY <1>29 DEF WordsOK, Probed, ResetIsOver, SlotsInOrder, Answers, RunningMeansAnswering, vars
<1> QED
  BY <1>1, <1>2, <1>3, <1>4, <1>5, <1>6, <1>7, <1>8, <1>9, <1>10, <1>11, <1>12, <1>13, <1>14, <1>15, <1>16, <1>17, <1>18, <1>19, <1>20, <1>21, <1>22, <1>23, <1>24, <1>25, <1>26, <1>27, <1>28, <1>29
  DEF Next, Program, UsbTask, Hardware

------------------------------------------------------------------------------
\* Every step keeps the invariant.
LEMMA UsbInvStep == UsbInv /\ [Next]_vars => UsbInv'
BY TypeParts, TypePartsNext, WordsKept, FlagsKept, ProbedKept, FlagMeansRanKept, SlotsKept,
   EventKept, ResetIsOverKept, AnsweringKept DEF UsbInv

\* The state the program starts in satisfies it.
LEMMA UsbInvInit == Init => UsbInv
<1> SUFFICES ASSUME Init PROVE UsbInv
  OBVIOUS
<1>1. WordsOK
  BY DEF Init, WordsOK
<1>2. FlagsOK
  BY Zenon DEF Init, FlagsOK
<1>3. Probed /\ FlagMeansRan /\ SlotsInOrder /\ EventEndsReset /\ ResetIsOver
  BY DEF Init, Probed, FlagMeansRan, SlotsInOrder, EventEndsReset, ResetIsOver
<1>4. RunningMeansAnswering
  BY DEF Init, RunningMeansAnswering
<1> QED
  BY <1>1, <1>2, <1>3, <1>4, TypeParts DEF UsbInv

\* The inductive invariant of the USB host software.
THEOREM UsbInvariant == Spec => []UsbInv
BY UsbInvInit, UsbInvStep, PTL DEF Spec

\* The state byte only holds states USB_Task knows or idles in: the count of
\* MAX3421E.c:222 never runs it out of the table of states.
THEOREM UsbTypeCorrect == Spec => []TypeOK
<1>1. UsbInv => TypeOK
  BY DEF UsbInv
<1> QED
  BY <1>1, UsbInvariant, PTL

\* No null endpoint record is followed (HID.c:65 and 155, main.c:42, HID.c:212
\* and 220), whatever comes and goes on the bus.
THEOREM PointersAreSet == Spec => []NoNullDeref
<1>1. UsbInv => NoNullDeref
  <2> SUFFICES ASSUME UsbInv PROVE NoNullDeref
    OBVIOUS
  <2>1. 1 \in Slot
    OBVIOUS
  <2>2. CASE usb_task_state = RUNNING
    <3>1. \A s, t \in Slot : s < t /\ epinfo[t] # "NULL" => epinfo[s] # "NULL"
      BY DEF UsbInv, SlotsInOrder
    <3>2. hid_addr \in Slot /\ epinfo[hid_addr] = "hid_ep"
      BY <2>2 DEF UsbInv, SlotsInOrder
    <3>3. epinfo[1] # "NULL"
      BY <2>1, <3>1, <3>2
    <3> QED
      BY <2>2, <3>2, <3>3 DEF NoNullDeref
  <2>3. CASE usb_task_state # RUNNING
    BY <2>3 DEF UsbInv, SlotsInOrder, NoNullDeref
  <2> QED
    BY <2>2, <2>3
<1> QED
  BY <1>1, UsbInvariant, PTL

\* main polls the device that runs, as what it is (main.c:38, 156 and 176).
THEOREM PolledAsReported == Spec => []ReportedDeviceIsPolled
<1>1. UsbInv => ReportedDeviceIsPolled
  BY DEF UsbInv, SlotsInOrder, ReportedDeviceIsPolled
<1> QED
  BY <1>1, UsbInvariant, PTL

\* No transfer before the end of the bus reset (transfer.c:286-301).
THEOREM TransfersAfterReset == Spec => []ResetIsOver
<1>1. UsbInv => ResetIsOver
  BY DEF UsbInv
<1> QED
  BY <1>1, UsbInvariant, PTL

\* A running device answers, or an interrupt is pending.
THEOREM RunningAnswers == Spec => []RunningMeansAnswering
<1>1. UsbInv => RunningMeansAnswering
  BY DEF UsbInv
<1> QED
  BY <1>1, UsbInvariant, PTL
==============================================================================
