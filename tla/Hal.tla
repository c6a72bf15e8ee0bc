---------------------------------- MODULE Hal ----------------------------------
(***************************************************************************)
(* Start-up, interrupts, alarms and the millisecond clock of the board     *)
(* support package: alt_main and alt_sys_init up to main; the dispatcher   *)
(* alt_irq_handler with the routines of the timer and, in outline, of the  *)
(* JTAG UART; alt_alarm_start and alt_alarm_stop against alt_tick, which   *)
(* walks the list of alarms at interrupt level; and the deadlines that     *)
(* transfer.c sets on the tick count.                                      *)
(*                                                                         *)
(* The program's critical sections are split into steps: that interrupts   *)
(* are off in them is the value of a variable, the PIE bit.                *)
(***************************************************************************)
EXTENDS Integers, LinkedList

CONSTANTS Alarms, Watch,        \* alarms; the JTAG UART's among them
          Head, Null,           \* &alt_alarm_list, the null pointer
          TickMod,              \* the tick count wraps here (2^32)
          TicksPerSec,          \* ALT_TICKS_PER_SEC (1000), period of the UART's alarm
          Milli,                \* 1000, by which the count is multiplied
          Periods,              \* ticks that programs and callbacks ask for
          USB_XFER_TIMEOUT,     \* milliseconds a transfer may take (5000)
          SettleDelay,          \* milliseconds after an attachment (200)
          StopsFollowing        \* whether a callback may stop the alarm after its own

ASSUME HalAssumption ==
  /\ Watch \in Alarms /\ Head \notin Alarms /\ Null \notin Alarms \union {Head}
  /\ TickMod \in Nat \ {0, 1, 2} /\ Milli \in Nat \ {0}
  /\ TicksPerSec \in 1 .. TickMod - 2
  /\ Periods \subseteq 1 .. TickMod - 2
  /\ USB_XFER_TIMEOUT \in Nat /\ SettleDelay \in Nat
  /\ StopsFollowing \in BOOLEAN

Boot == {"irq_init", "timer_init", "timer_register", "uart_init", "uart_alarm"}

VARIABLES
  pc, alarm, nticks_arg,        \* the program; the alarm it starts or stops, and its ticks
  deadline,                     \* of the wait it is in, or 0
  pie, context, ienable,        \* status.PIE, its saved value; IENABLE
  handlers, lines,              \* alt_irq: IRQs with a handler; IRQs asserted
  tick_rate, nticks,            \* _alt_tick_rate, _alt_nticks
  list, time, rollover,         \* alt_alarm_list and the alarms on it
  isr, cursor, next,            \* where the interrupt is; alt_tick's local variables
  running, due                  \* alarms started and not stopped, ticks until each is due

mainVars  == <<pc, alarm, nticks_arg>>
irqVars   == <<pie, context, ienable, handlers, lines>>
alarmVars == <<list, time, rollover, running, due>>
tickVars  == <<isr, cursor, next>>
vars == <<mainVars, deadline, irqVars, tick_rate, nticks, alarmVars, tickVars>>

Init ==
  /\ pc = "irq_init" /\ alarm = Watch /\ nticks_arg = 0 /\ deadline = 0
  /\ pie = FALSE /\ context = FALSE /\ ienable = {} /\ handlers = {} /\ lines = {}
  /\ tick_rate = 0 /\ nticks = 0
  /\ list = Empty(Head, Alarms \union {Head}, Null)
  /\ time = [a \in Alarms |-> 0] /\ rollover = [a \in Alarms |-> FALSE]
  /\ running = {} /\ due = [a \in Alarms |-> 0]
  /\ isr = "off" /\ cursor = Head /\ next = Head

DisableAllNot == context' = pie /\ UNCHANGED pie        \* mutant: PIE stays set
DisableAll == context' = pie /\ pie' = FALSE
EnableAll == pie' = context /\ UNCHANGED context
-----------------------------------------------------------------------------
(* Start-up: alt_irq_init, then alt_sys_init with timer and JTAG UART.  The    *)
(* later drivers have nothing to initialise.                                 *)

IrqInit ==
  /\ pc = "irq_init" /\ isr = "off"
  /\ ienable' = {} /\ pie' = TRUE
  /\ pc' = "timer_init"
  /\ UNCHANGED <<alarm, nticks_arg, deadline, context, handlers, lines, tick_rate, nticks>>
  /\ UNCHANGED <<alarmVars, tickVars>>

RateUnset == UNCHANGED tick_rate        \* mutant: the rate stays 0
RateSet == tick_rate' = TicksPerSec
\* alt_avalon_timer_sc_init: the rate is set and the timer runs.
TimerInit ==
  /\ pc = "timer_init" /\ isr = "off"
  /\ RateSet
  /\ pc' = "timer_register"
  /\ UNCHANGED <<alarm, nticks_arg, deadline, irqVars, nticks, alarmVars, tickVars>>

\* alt_ic_isr_register, with interrupts off from the handler to the enabling.
Register(irq) ==
  ienable' = ienable \union {irq} /\ handlers' = handlers \union {irq}

TimerRegister ==
  /\ pc = "timer_register" /\ isr = "off"
  /\ Register("timer")
  /\ pc' = "uart_init"
  /\ UNCHANGED <<alarm, nticks_arg, deadline, pie, context, lines, tick_rate, nticks>>
  /\ UNCHANGED <<alarmVars, tickVars>>

\* altera_avalon_jtag_uart_init: registered, then its alarm is started.
UartInit ==
  /\ pc = "uart_init" /\ isr = "off"
  /\ Register("jtag")
  /\ pc' = "uart_alarm"
  /\ UNCHANGED <<alarm, nticks_arg, deadline, pie, context, lines, tick_rate, nticks>>
  /\ UNCHANGED <<alarmVars, tickVars>>

\* alt_alarm_start fails if there is no system clock.
UartAlarm ==
  /\ pc = "uart_alarm" /\ isr = "off"
  /\ IF tick_rate = 0 THEN pc' = "main" /\ UNCHANGED <<alarm, nticks_arg, pie, context>>
     ELSE pc' = "time" /\ alarm' = Watch /\ nticks_arg' = tick_rate /\ DisableAll
  /\ UNCHANGED <<deadline, ienable, handlers, lines, tick_rate, nticks, alarmVars, tickVars>>
-----------------------------------------------------------------------------
(* The program.  An alarm is not started while it runs, nor stopped before its *)
(* first start.                                                              *)

AlarmStart(a, n) ==
  /\ pc = "main" /\ isr = "off" /\ tick_rate # 0 /\ a \notin running
  /\ DisableAll
  /\ alarm' = a /\ nticks_arg' = n
  /\ pc' = "time"
  /\ UNCHANGED <<deadline, ienable, handlers, lines, tick_rate, nticks, alarmVars, tickVars>>

\* The time an alarm is set to, n ticks after the next one, and whether that wraps.
RolledNever(t) == FALSE         \* mutant: no rollover flag
Rolled(t) == t < nticks
Later(t, n) == (t + n) % TickMod

StartTime ==
  /\ pc = "time" /\ isr = "off"
  /\ LET t == Later(nticks, nticks_arg + 1) IN
     /\ time' = [time EXCEPT ![alarm] = t]
     /\ rollover' = [rollover EXCEPT ![alarm] = Rolled(t)]
  /\ due' = [due EXCEPT ![alarm] = nticks_arg + 1]
  /\ pc' = "insert"
  /\ UNCHANGED <<alarm, nticks_arg, deadline, irqVars, tick_rate, nticks, list, running, tickVars>>

StartInsert ==
  /\ pc = "insert" /\ isr = "off"
  /\ list' = Insert(list, Head, alarm) /\ running' = running \union {alarm}
  /\ pc' = "unmask"
  /\ UNCHANGED <<alarm, nticks_arg, deadline, irqVars, tick_rate, nticks, time, rollover, due>>
  /\ UNCHANGED tickVars

AlarmStop(a) ==
  /\ pc = "main" /\ isr = "off" /\ a # Watch /\ list.next[a] # Null
  /\ DisableAll
  /\ alarm' = a /\ nticks_arg' = 0
  /\ pc' = "remove"
  /\ UNCHANGED <<deadline, ienable, handlers, lines, tick_rate, nticks, alarmVars, tickVars>>

\* The alarms without a.  Unless the tick still comes to its entry, its time is not read
\* again before it is set, so it goes with it.
Stopped(a) ==
  /\ list' = Remove(list, a) /\ running' = running \ {a} /\ due' = [due EXCEPT ![a] = 0]
  /\ IF StopsFollowing THEN UNCHANGED <<time, rollover>>
     ELSE time' = [time EXCEPT ![a] = 0] /\ rollover' = [rollover EXCEPT ![a] = FALSE]

StopRemove ==
  /\ pc = "remove" /\ isr = "off"
  /\ Stopped(alarm)
  /\ pc' = "unmask"
  /\ UNCHANGED <<alarm, nticks_arg, deadline, irqVars, tick_rate, nticks, tickVars>>

Unmask ==
  /\ pc = "unmask" /\ isr = "off"
  /\ EnableAll
  /\ pc' = "main"
  /\ UNCHANGED <<alarm, nticks_arg, deadline, ienable, handlers, lines, tick_rate, nticks>>
  /\ UNCHANGED <<alarmVars, tickVars>>

\* The clock in milliseconds as transfer.c computes it.  The product wraps.
Now == ((nticks * Milli) % TickMod) \div tick_rate

PastDeadline == Now > deadline
AtDeadline == Now >= deadline

WaitFor(limit, where) ==
  /\ pc = "main" /\ isr = "off" /\ tick_rate # 0
  /\ deadline' = Now + limit
  /\ pc' = where
  /\ UNCHANGED <<alarm, nticks_arg, irqVars, tick_rate, nticks, alarmVars, tickVars>>

\* XferDispatchPkt waits for the chip, and USB_Task for a device to settle.
Wait == WaitFor(USB_XFER_TIMEOUT, "wait")
Settle == WaitFor(SettleDelay, "settle")

WaitEnds ==
  /\ isr = "off"
  /\ (pc = "wait" /\ AtDeadline) \/ (pc = "settle" /\ PastDeadline)
  /\ pc' = "main" /\ deadline' = 0
  /\ UNCHANGED <<alarm, nticks_arg, irqVars, tick_rate, nticks, alarmVars, tickVars>>

Startup == IrqInit \/ TimerInit \/ TimerRegister \/ UartInit \/ UartAlarm
Section == StartTime \/ StartInsert \/ StopRemove \/ Unmask
Request == \/ \E a \in Alarms, n \in Periods : AlarmStart(a, n)
           \/ \E a \in Alarms : AlarmStop(a)
           \/ Wait \/ Settle
-----------------------------------------------------------------------------
(* Interrupts.  A line stays asserted until its routine clears it.  The timer's *)
(* period is longer than critical sections and the work at interrupt level;  *)
(* the UART's routine is done before the next character comes.               *)

TimerExpires ==
  /\ tick_rate # 0 /\ "timer" \notin lines /\ isr = "off"
  /\ lines' = lines \union {"timer"}
  /\ UNCHANGED <<mainVars, deadline, pie, context, ienable, handlers, tick_rate, nticks>>
  /\ UNCHANGED <<alarmVars, tickVars>>

UartRaises ==
  /\ "jtag" \in handlers /\ "jtag" \notin lines /\ isr # "dispatch"
  /\ lines' = lines \union {"jtag"}
  /\ UNCHANGED <<mainVars, deadline, pie, context, ienable, handlers, tick_rate, nticks>>
  /\ UNCHANGED <<alarmVars, tickVars>>

Pending == lines \intersect ienable

Interrupt ==
  /\ isr = "off" /\ pie /\ Pending # {}
  /\ pie' = FALSE
  /\ isr' = "dispatch"
  /\ UNCHANGED <<mainVars, deadline, context, ienable, handlers, lines, tick_rate, nticks>>
  /\ UNCHANGED <<alarmVars, cursor, next>>

\* The UART's line is the lower one and goes first.
DispatchUart ==
  /\ isr = "dispatch" /\ "jtag" \in Pending
  /\ lines' = lines \ {"jtag"}
  /\ UNCHANGED <<mainVars, deadline, pie, context, ienable, handlers, tick_rate, nticks>>
  /\ UNCHANGED <<alarmVars, tickVars>>

\* alt_avalon_timer_sc_irq, and the beginning of alt_tick.
DispatchTimer ==
  /\ isr = "dispatch" /\ Pending = {"timer"}
  /\ lines' = lines \ {"timer"}
  /\ nticks' = Later(nticks, 1)
  /\ due' = [a \in Alarms |-> IF due[a] > 0 THEN due[a] - 1 ELSE 0]
  /\ cursor' = list.next[Head]
  /\ isr' = "visit"
  /\ UNCHANGED <<mainVars, deadline, pie, context, ienable, handlers, tick_rate>>
  /\ UNCHANGED <<list, time, rollover, running, next>>

DispatchEnd ==
  /\ isr = "dispatch" /\ Pending = {}
  /\ isr' = "off" /\ pie' = TRUE
  /\ UNCHANGED <<mainVars, deadline, context, ienable, handlers, lines, tick_rate, nticks>>
  /\ UNCHANGED <<alarmVars, cursor, next>>

Over(a) == rollover[a] /\ nticks # 0

\* One turn of alt_tick's loop, up to the callback.
Visit ==
  /\ isr = "visit" /\ cursor # Head
  /\ rollover' = [rollover EXCEPT ![cursor] = Over(cursor)]
  /\ IF time[cursor] <= nticks /\ ~Over(cursor)
     THEN isr' = "callback" /\ next' = list.next[cursor] /\ UNCHANGED cursor
     ELSE cursor' = list.next[cursor] /\ UNCHANGED <<isr, next>>
  /\ UNCHANGED <<mainVars, deadline, irqVars, tick_rate, nticks, list, time, running, due>>

VisitEnd ==
  /\ isr = "visit" /\ cursor = Head
  /\ isr' = "dispatch"
  /\ UNCHANGED <<mainVars, deadline, irqVars, tick_rate, nticks, alarmVars, cursor, next>>

Resume == cursor' = next /\ next' = Head /\ isr' = "visit"

\* The callback returns 0 and its alarm is stopped, or the ticks until its next turn.
CallbackLast ==
  /\ isr = "callback" /\ cursor # Watch
  /\ Stopped(cursor) /\ Resume
  /\ UNCHANGED <<mainVars, deadline, irqVars, tick_rate, nticks>>

Callback(n) ==
  /\ isr = "callback" /\ (cursor = Watch => n = tick_rate)
  /\ IF cursor \in running \/ StopsFollowing
     THEN LET t == Later(time[cursor], n) IN
          /\ time' = [time EXCEPT ![cursor] = t]
          /\ rollover' = [rollover EXCEPT ![cursor] = IF Rolled(t) THEN TRUE ELSE @]
     ELSE UNCHANGED <<time, rollover>>
  /\ due' = [due EXCEPT ![cursor] = IF cursor \in running THEN n ELSE @]
  /\ UNCHANGED <<mainVars, deadline, irqVars, tick_rate, nticks, list, running>>
  /\ Resume

\* Before it returns a callback may stop alarms.
CallbackStops(a) ==
  /\ isr = "callback" /\ cursor # Watch /\ a \in running \ {Watch}
  /\ a = next => StopsFollowing
  /\ Stopped(a)
  /\ UNCHANGED <<mainVars, deadline, irqVars, tick_rate, nticks, tickVars>>

Isr == \/ DispatchUart \/ DispatchTimer \/ DispatchEnd \/ Visit \/ VisitEnd \/ CallbackLast
       \/ \E n \in Periods \union {tick_rate} : Callback(n)

Next == \/ Startup \/ Section \/ WaitEnds \/ Request
        \/ TimerExpires \/ UartRaises \/ Interrupt \/ Isr
        \/ \E a \in Alarms : CallbackStops(a)

Spec == Init /\ [][Next]_vars

\* What the program does without being asked: the steps it is in the middle of.
Program == Startup \/ Section \/ WaitEnds

\* The timer runs; interrupts are taken when they are on, and go on; the program gets turns
\* between them, and a loop that polls the clock sees every one of its values.
FairSpec ==
  /\ Spec
  /\ SF_vars(TimerExpires) /\ SF_vars(Interrupt) /\ WF_vars(Isr) /\ SF_vars(Program)
-----------------------------------------------------------------------------
TypeOK ==
  /\ pc \in Boot \union {"main", "time", "insert", "remove", "unmask", "wait", "settle"}
  /\ alarm \in Alarms /\ nticks_arg \in 0 .. TickMod - 2
  /\ deadline \in Nat
  /\ pie \in BOOLEAN /\ context \in BOOLEAN
  /\ ienable \subseteq {"jtag", "timer"} /\ handlers \subseteq {"jtag", "timer"}
  /\ lines \subseteq {"jtag", "timer"}
  /\ tick_rate \in {0, TicksPerSec} /\ nticks \in 0 .. TickMod - 1
  /\ list.next \in [Alarms \union {Head} -> Alarms \union {Head, Null}]
  /\ list.prev \in [Alarms \union {Head} -> Alarms \union {Head, Null}]
  /\ time \in [Alarms -> 0 .. TickMod - 1] /\ rollover \in [Alarms -> BOOLEAN]
  /\ running \subseteq Alarms /\ due \in [Alarms -> 0 .. TickMod - 1]
  /\ isr \in {"off", "dispatch", "visit", "callback"}
  /\ cursor \in Alarms \union {Head} /\ next \in Alarms \union {Head}

\* The list holds the head and the running alarms, whatever program and callbacks do to it
\* and whenever the tick comes.
ListHoldsRunning == Linked(list, running \union {Head})

\* Alarms fire on the tick they are due at, neither earlier nor later, across the wrap of
\* the count: a callback is only made when due, and none is due when no tick is in progress.
FiresWhenDue ==
  /\ isr = "callback" /\ cursor \in running => due[cursor] = 0
  /\ isr \in {"off", "dispatch"} => \A a \in running : due[a] > 0

\* No interrupt finds a critical section of the program or another interrupt under way, and
\* the handler of what it dispatches is registered, also during start-up.
InterruptsAreSafe ==
  /\ isr # "off" => ~pie /\ pc \notin {"time", "insert", "remove", "unmask"}
  /\ Pending \subseteq handlers

\* When main runs, the alarm that watches for the UART's host has been started.
WatchRuns == pc \in {"main", "remove", "wait", "settle"} => Watch \in running

\* An alarm that runs gets its callback or is stopped.
AlarmsFire == \A a \in Alarms : a \in running ~> a \notin running \/ (isr = "callback" /\ cursor = a)

\* The clock's last value before it wraps.
LastNow == (TickMod - 1) \div TicksPerSec

\* A wait whose deadline the clock can reach, or pass, ends.
ReachableDeadlinesEnd ==
  (pc = "wait" /\ deadline <= LastNow) \/ (pc = "settle" /\ deadline < LastNow) ~> pc = "main"

\* transfer.c:141 says that the dispatcher returns 0xff on timeout, and transfer.c:277 that
\* the settle delay is 200 ms: every wait ends.
DeadlinesEnd == pc \in {"wait", "settle"} ~> pc = "main"
===============================================================================
