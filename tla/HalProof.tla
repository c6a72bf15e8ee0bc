------------------------------- MODULE HalProof -------------------------------
(***************************************************************************)
(* Proofs about start-up, interrupts, the list of alarms and the tick each *)
(* alarm fires at, for every number of alarms and every width of the count.*)
(***************************************************************************)
EXTENDS Hal, TLAPS

Nodes == Alarms \union {Head}
Critical == {"time", "insert", "remove", "unmask"}

ListTyped == /\ list = [next |-> list.next, prev |-> list.prev]
             /\ list.next \in [Nodes -> Nodes \union {Null}]
             /\ list.prev \in [Nodes -> Nodes \union {Null}]

\* An alarm that does not run has never been inserted, or points to itself.
Apart == \A a \in Alarms \ running : \/ list.next[a] = Null /\ list.prev[a] = Null
                                     \/ list.next[a] = a /\ list.prev[a] = a

\* Interrupts stay off in the program's critical sections.
Masked == pc \in Critical => ~pie /\ isr = "off"

\* Lines are enabled together with the registration of their handlers.
Enabled == ienable = handlers /\ (pc = "irq_init" => handlers = {})

RateKnown == pc \notin {"irq_init", "timer_init"} => tick_rate = TicksPerSec

\* What the critical sections are about to do.
Sections ==
  /\ pc \in Boot => running = {}
  /\ pc \in {"time", "insert"} => alarm \notin running /\ (alarm = Watch \/ Watch \in running)
  /\ pc = "unmask" => Watch \in running
  /\ pc = "remove" => alarm # Watch /\ list.next[alarm] # Null

\* The tick's walk stands on entries that have been in the list.
Walks ==
  /\ isr = "visit" => list.next[cursor] # Null
  /\ isr = "callback" => cursor # Head /\ list.next[cursor] # Null /\ list.next[next] # Null

HalInv ==
  /\ TypeOK /\ ListTyped /\ ListHoldsRunning /\ InterruptsAreSafe /\ WatchRuns
  /\ Apart /\ Masked /\ Enabled /\ RateKnown /\ Sections /\ Walks
-------------------------------------------------------------------------------
(* The list. *)

\* A new first entry keeps the list linked.
LEMMA InsertLinks ==
  ASSUME ListTyped, NEW S \in SUBSET Alarms, Linked(list, S \union {Head}),
         NEW a \in Alarms \ S, list' = Insert(list, Head, a)
  PROVE  /\ ListTyped' /\ Linked(list', S \union {a} \union {Head})
         /\ \A x \in Alarms \ (S \union {a}) : /\ list'.next[x] = list.next[x]
                                               /\ list'.prev[x] = list.prev[x]
         /\ \A x \in Nodes : list.next[x] # Null => list'.next[x] # Null
<1> USE HalAssumption
<1> DEFINE first == list.next[Head]
<1>1. /\ first \in S \union {Head} /\ first \in Nodes /\ first # a /\ a # Head
      /\ list.prev[first] = Head /\ Head \in Nodes /\ a \in Nodes
  BY DEF Linked, Nodes
<1>2. /\ list'.next = [list.next EXCEPT ![a] = first, ![Head] = a]
      /\ list'.prev = [list.prev EXCEPT ![a] = Head, ![first] = a]
      /\ list' = [next |-> list'.next, prev |-> list'.prev]
  BY DEF Insert
<1> HIDE DEF first
<1>3. ListTyped'
  BY <1>1, <1>2 DEF ListTyped
<1>4. /\ list'.next[a] = first /\ list'.next[Head] = a
      /\ \A x \in Nodes \ {a, Head} : list'.next[x] = list.next[x]
  BY <1>1, <1>2 DEF ListTyped
<1>5. /\ list'.prev[a] = Head /\ list'.prev[first] = a
      /\ \A x \in Nodes \ {a, first} : list'.prev[x] = list.prev[x]
  BY <1>1, <1>2 DEF ListTyped
<1>6. \A x \in S \union {Head} :
        /\ list.next[x] \in S \union {Head} /\ list.prev[x] \in S \union {Head}
        /\ list.prev[list.next[x]] = x /\ list.next[list.prev[x]] = x
  BY DEF Linked
<1>7. Linked(list', S \union {a} \union {Head})
  <2> SUFFICES ASSUME NEW x \in S \union {a} \union {Head}
               PROVE  /\ list'.next[x] \in S \union {a} \union {Head}
                      /\ list'.prev[x] \in S \union {a} \union {Head}
                      /\ list'.prev[list'.next[x]] = x /\ list'.next[list'.prev[x]] = x
    BY DEF Linked
  <2>1. CASE x = a
    BY <1>1, <1>4, <1>5, <2>1
  <2>2. CASE x \in S \union {Head} /\ x # a
    <3>1. x \in Nodes
      BY DEF Nodes
    <3>2. list'.next[x] \in S \union {a} \union {Head} /\ list'.prev[list'.next[x]] = x
      <4>1. CASE x = Head
        BY <1>4, <1>5, <4>1
      <4>2. CASE x # Head
        <5>1. list.next[x] # first /\ list.next[x] # a /\ list.next[x] \in Nodes
          BY <1>1, <1>6, <2>2, <4>2 DEF Nodes
        <5> QED
          BY <1>4, <1>5, <1>6, <2>2, <3>1, <4>2, <5>1
      <4> QED
        BY <4>1, <4>2
    <3>3. list'.prev[x] \in S \union {a} \union {Head} /\ list'.next[list'.prev[x]] = x
      <4>1. CASE x = first
        BY <1>4, <1>5, <4>1
      <4>2. CASE x # first
        <5>1. list.prev[x] # Head /\ list.prev[x] # a /\ list.prev[x] \in Nodes
          BY <1>1, <1>6, <2>2, <4>2 DEF Nodes, first
        <5> QED
          BY <1>4, <1>5, <1>6, <2>2, <3>1, <4>2, <5>1
      <4> QED
        BY <4>1, <4>2
    <3> QED
      BY <3>2, <3>3
  <2> QED
    BY <2>1, <2>2
<1>8. \A x \in Alarms \ (S \union {a}) : list'.next[x] = list.next[x] /\ list'.prev[x] = list.prev[x]
  BY <1>1, <1>4, <1>5 DEF Nodes
<1>9. \A x \in Nodes : list.next[x] # Null => list'.next[x] # Null
  BY <1>1, <1>4 DEF Nodes
<1> QED
  BY <1>3, <1>7, <1>8, <1>9

\* So does the removal of an entry, which then points to itself; one that already does stays.
LEMMA RemoveLinks ==
  ASSUME ListTyped, NEW S \in SUBSET Alarms, Linked(list, S \union {Head}),
         NEW a \in Alarms, a \in S \/ (list.next[a] = a /\ list.prev[a] = a),
         list' = Remove(list, a)
  PROVE  /\ ListTyped' /\ Linked(list', (S \ {a}) \union {Head})
         /\ list'.next[a] = a /\ list'.prev[a] = a
         /\ \A x \in Alarms \ (S \union {a}) : /\ list'.next[x] = list.next[x]
                                               /\ list'.prev[x] = list.prev[x]
         /\ \A x \in Nodes : list.next[x] # Null => list'.next[x] # Null
<1> USE HalAssumption
<1> DEFINE p == list.prev[a]
           n == list.next[a]
<1>1. a # Head /\ a \in Nodes /\ p \in Nodes /\ n \in Nodes /\ Head \in Nodes
  BY DEF Linked, Nodes
<1>2. /\ list'.next = [list.next EXCEPT ![p] = n, ![a] = a]
      /\ list'.prev = [list.prev EXCEPT ![n] = p, ![a] = a]
      /\ list' = [next |-> list'.next, prev |-> list'.prev]
  BY DEF Remove
<1>3. \A x \in S \union {Head} :
        /\ list.next[x] \in S \union {Head} /\ list.prev[x] \in S \union {Head}
        /\ list.prev[list.next[x]] = x /\ list.next[list.prev[x]] = x
  BY DEF Linked
<1>4. \/ a \in S /\ p \in S \union {Head} /\ n \in S \union {Head} /\ list.next[p] = a /\ list.prev[n] = a
      \/ p = a /\ n = a
  BY <1>3
<1> HIDE DEF p, n
<1>5. ListTyped'
  BY <1>1, <1>2 DEF ListTyped
<1>6. /\ list'.next[a] = a /\ (p # a => list'.next[p] = n)
      /\ \A x \in Nodes \ {a, p} : list'.next[x] = list.next[x]
  BY <1>1, <1>2 DEF ListTyped
<1>7. /\ list'.prev[a] = a /\ (n # a => list'.prev[n] = p)
      /\ \A x \in Nodes \ {a, n} : list'.prev[x] = list.prev[x]
  BY <1>1, <1>2 DEF ListTyped
<1>8. Linked(list', (S \ {a}) \union {Head})
  <2> SUFFICES ASSUME NEW x \in (S \ {a}) \union {Head}
               PROVE  /\ list'.next[x] \in (S \ {a}) \union {Head}
                      /\ list'.prev[x] \in (S \ {a}) \union {Head}
                      /\ list'.prev[list'.next[x]] = x /\ list'.next[list'.prev[x]] = x
    BY DEF Linked
  <2>1. x \in S \union {Head} /\ x # a /\ x \in Nodes
    BY <1>1 DEF Nodes
  <2>2. list'.next[x] \in (S \ {a}) \union {Head} /\ list'.prev[list'.next[x]] = x
    <3>1. CASE x = p
      <4>1. n \in S \union {Head} /\ n # a
        BY <1>3, <1>4, <2>1, <3>1 DEF n, p
      <4> QED
        BY <1>6, <1>7, <2>1, <3>1, <4>1
    <3>2. CASE x # p
      <4>1. list.next[x] # a /\ list.next[x] # n /\ list.next[x] \in Nodes
        BY <1>3, <1>4, <2>1, <3>2 DEF Nodes, n, p
      <4> QED
        BY <1>3, <1>6, <1>7, <2>1, <3>2, <4>1
    <3> QED
      BY <3>1, <3>2
  <2>3. list'.prev[x] \in (S \ {a}) \union {Head} /\ list'.next[list'.prev[x]] = x
    <3>1. CASE x = n
      <4>1. p \in S \union {Head} /\ p # a
        BY <1>3, <1>4, <2>1, <3>1 DEF n, p
      <4> QED
        BY <1>6, <1>7, <2>1, <3>1, <4>1
    <3>2. CASE x # n
      <4>1. list.prev[x] # a /\ list.prev[x] # p /\ list.prev[x] \in Nodes
        BY <1>3, <1>4, <2>1, <3>2 DEF Nodes, n, p
      <4> QED
        BY <1>3, <1>6, <1>7, <2>1, <3>2, <4>1
    <3> QED
      BY <3>1, <3>2
  <2> QED
    BY <2>2, <2>3
<1>9. \A x \in Alarms \ (S \union {a}) : list'.next[x] = list.next[x] /\ list'.prev[x] = list.prev[x]
  BY <1>1, <1>4, <1>6, <1>7 DEF Nodes
<1>10. \A x \in Nodes : list.next[x] # Null => list'.next[x] # Null
  BY <1>1, <1>6 DEF Nodes
<1> QED
  BY <1>5, <1>6, <1>7, <1>8, <1>9, <1>10
-------------------------------------------------------------------------------
(* The count and the clock. *)

LEMMA LaterTyped ==
  ASSUME NEW t \in Nat, NEW n \in Nat
  PROVE  Later(t, n) \in 0 .. TickMod - 1
BY HalAssumption DEF Later

LEMMA NowTyped ==
  ASSUME nticks \in Nat, tick_rate \in Nat \ {0}
  PROVE  Now \in Nat
<1> USE HalAssumption
<1>1. nticks * Milli \in Nat
  OBVIOUS
<1>2. \A x \in Nat : x % TickMod \in Nat
  OBVIOUS
<1>3. \A x \in Nat : x \div tick_rate \in Nat
  OBVIOUS
<1> QED
  BY <1>1, <1>2, <1>3 DEF Now
-------------------------------------------------------------------------------
(* The invariant. *)

LEMMA InvInit == Init => HalInv
<1> SUFFICES ASSUME Init PROVE HalInv
  OBVIOUS
<1> USE HalAssumption DEF Init
<1>1. /\ list = [next |-> [x \in Nodes |-> IF x = Head THEN Head ELSE Null],
                 prev |-> [x \in Nodes |-> IF x = Head THEN Head ELSE Null]]
  BY DEF Empty, Nodes
<1>2. ListTyped
  BY <1>1 DEF ListTyped, Nodes
<1>3. TypeOK
  <2>1. /\ time \in [Alarms -> 0 .. TickMod - 1] /\ due \in [Alarms -> 0 .. TickMod - 1]
        /\ rollover \in [Alarms -> BOOLEAN]
    OBVIOUS
  <2>2. /\ list.next \in [Alarms \union {Head} -> Alarms \union {Head, Null}]
        /\ list.prev \in [Alarms \union {Head} -> Alarms \union {Head, Null}]
    BY <1>1 DEF Nodes
  <2>3. nticks_arg \in 0 .. TickMod - 2 /\ nticks \in 0 .. TickMod - 1 /\ deadline \in Nat
    OBVIOUS
  <2> QED
    BY <2>1, <2>2, <2>3 DEF TypeOK, Boot
<1>4. ListHoldsRunning /\ Apart
  BY <1>1 DEF ListHoldsRunning, Linked, Apart, Nodes
<1>5. InterruptsAreSafe /\ WatchRuns /\ Masked /\ Enabled
  BY DEF InterruptsAreSafe, WatchRuns, Masked, Critical, Enabled, Pending
<1>6. RateKnown /\ Sections /\ Walks
  BY DEF RateKnown, Sections, Walks, Boot
<1> QED
  BY <1>2, <1>3, <1>4, <1>5, <1>6 DEF HalInv

\* Steps that leave the list alone owe the rest.
LEMMA ListUntouched ==
  ASSUME HalInv, UNCHANGED <<list, running>>
  PROVE  (ListTyped /\ ListHoldsRunning /\ Apart)'
BY DEF HalInv, ListTyped, ListHoldsRunning, Apart

\* A stop, by the program or at interrupt level: what it does to the list and the alarms.
LEMMA StoppedKeeps ==
  ASSUME HalInv, NEW a \in Alarms, a # Watch, list.next[a] # Null, Stopped(a)
  PROVE  /\ (ListTyped /\ ListHoldsRunning /\ Apart)'
         /\ running' \subseteq running /\ (Watch \in running => Watch \in running')
         /\ time' \in [Alarms -> 0 .. TickMod - 1] /\ rollover' \in [Alarms -> BOOLEAN]
         /\ due' \in [Alarms -> 0 .. TickMod - 1]
         /\ \A x \in Nodes : list.next[x] # Null => list'.next[x] # Null
<1> USE HalAssumption
<1>1. a \in running \/ (list.next[a] = a /\ list.prev[a] = a)
  BY DEF HalInv, Apart
<1>2. list' = Remove(list, a) /\ running' = running \ {a} /\ running \in SUBSET Alarms
  BY DEF Stopped, HalInv, TypeOK
<1>3. ListTyped /\ Linked(list, running \union {Head})
  BY DEF HalInv, ListHoldsRunning
<1>4. /\ ListTyped' /\ Linked(list', (running \ {a}) \union {Head})
      /\ list'.next[a] = a /\ list'.prev[a] = a
      /\ \A x \in Alarms \ (running \union {a}) : /\ list'.next[x] = list.next[x]
                                                  /\ list'.prev[x] = list.prev[x]
      /\ \A x \in Nodes : list.next[x] # Null => list'.next[x] # Null
  BY <1>1, <1>2, <1>3, RemoveLinks
<1>5. ListHoldsRunning'
  BY <1>2, <1>4, Zenon DEF ListHoldsRunning
<1>6. Apart'
  BY <1>2, <1>4 DEF HalInv, Apart
<1>7. /\ time' \in [Alarms -> 0 .. TickMod - 1] /\ rollover' \in [Alarms -> BOOLEAN]
  <2>1. CASE StopsFollowing
    BY <2>1 DEF Stopped, HalInv, TypeOK
  <2>2. CASE ~StopsFollowing
    <3>1. time' = [time EXCEPT ![a] = 0] /\ rollover' = [rollover EXCEPT ![a] = FALSE]
      BY <2>2 DEF Stopped
    <3>2. time' \in [Alarms -> 0 .. TickMod - 1]
      BY <3>1 DEF HalInv, TypeOK
    <3>3. rollover' \in [Alarms -> BOOLEAN]
      BY <3>1 DEF HalInv, TypeOK
    <3> QED
      BY <3>2, <3>3
  <2> QED
    BY <2>1, <2>2
<1>8. due' \in [Alarms -> 0 .. TickMod - 1]
  BY DEF Stopped, HalInv, TypeOK
<1> QED
  BY <1>2, <1>4, <1>5, <1>6, <1>7, <1>8

\* Start-up, and the program between its critical sections.
LEMMA ProgramKeeps ==
  ASSUME HalInv, Startup \/ Request \/ WaitEnds \/ Unmask
  PROVE  HalInv'
<1> USE HalAssumption
<1>1. UNCHANGED <<alarmVars, tickVars, lines, nticks>> /\ isr = "off"
  BY DEF Startup, IrqInit, TimerInit, TimerRegister, UartInit, UartAlarm,
         Request, AlarmStart, AlarmStop, Wait, Settle, WaitFor, WaitEnds, Unmask, irqVars
<1>2. (ListTyped /\ ListHoldsRunning /\ Apart /\ Walks)'
  BY <1>1, ListUntouched DEF alarmVars, tickVars, Walks
<1>3. CASE Startup
  <2> USE DEF Startup, IrqInit, TimerInit, TimerRegister, UartInit, UartAlarm, Register,
              DisableAll, RateSet, irqVars
  <2>1. (Enabled /\ RateKnown)'
    BY <1>3 DEF HalInv, Enabled, RateKnown
  <2>2. (Masked /\ Sections /\ WatchRuns)'
    BY <1>1, <1>3 DEF HalInv, RateKnown, Sections, Masked, WatchRuns, Critical, Boot, alarmVars, tickVars
  <2>3. InterruptsAreSafe'
    BY <1>1, <2>1 DEF InterruptsAreSafe, Enabled, Pending, tickVars
  <2>4. TypeOK'
    <3>1. /\ pc' \in Boot \union {"main", "time", "insert", "remove", "unmask", "wait", "settle"}
          /\ alarm' \in Alarms /\ nticks_arg' \in 0 .. TickMod - 2 /\ deadline' \in Nat
          /\ tick_rate' \in {0, TicksPerSec}
      BY <1>3 DEF HalInv, TypeOK, RateKnown, Boot
    <3>2. /\ ienable' \subseteq {"jtag", "timer"} /\ handlers' \subseteq {"jtag", "timer"}
          /\ pie' \in BOOLEAN /\ context' \in BOOLEAN
      BY <1>3 DEF HalInv, TypeOK
    <3> QED
      BY <1>1, <3>1, <3>2 DEF HalInv, TypeOK, alarmVars, tickVars
  <2> QED
    BY <1>2, <2>1, <2>2, <2>3, <2>4 DEF HalInv
<1>4. CASE Request \/ WaitEnds \/ Unmask
  <2>1. pc \in {"main", "wait", "settle", "unmask"} /\ UNCHANGED <<ienable, handlers, tick_rate>>
    BY <1>4 DEF Request, AlarmStart, AlarmStop, Wait, Settle, WaitFor, WaitEnds, Unmask, irqVars
  <2>2. /\ pc' \in {"main", "time", "remove", "wait", "settle"}
        /\ pc' \in {"time", "remove"} => ~pie'
        /\ pc' = "time" => alarm' \notin running
        /\ pc' = "remove" => alarm' # Watch /\ list.next[alarm'] # Null
    BY <1>4 DEF Request, AlarmStart, AlarmStop, Wait, Settle, WaitFor, WaitEnds, Unmask, DisableAll
  <2>3. (Enabled /\ RateKnown)'
    BY <2>1, <2>2 DEF HalInv, Enabled, RateKnown
  <2>4. Watch \in running
    BY <2>1 DEF HalInv, WatchRuns, Sections
  <2>5. (Masked /\ Sections /\ WatchRuns)'
    BY <1>1, <2>2, <2>4 DEF Masked, Sections, WatchRuns, Critical, Boot, alarmVars, tickVars
  <2>6. InterruptsAreSafe'
    BY <1>1, <2>3 DEF InterruptsAreSafe, Enabled, Pending, tickVars
  <2>7. TypeOK'
    <3>1. alarm' \in Alarms /\ nticks_arg' \in 0 .. TickMod - 2
      <4>1. \A n \in Periods : n \in 0 .. TickMod - 2
        OBVIOUS
      <4> QED
        BY <1>4, <4>1 DEF HalInv, TypeOK, Request, AlarmStart, AlarmStop, Wait, Settle, WaitFor,
                          WaitEnds, Unmask
    <3>2. deadline' \in Nat
      <4>1. CASE Wait \/ Settle
        <5>1. tick_rate \in Nat \ {0} /\ nticks \in Nat
          BY <4>1 DEF HalInv, TypeOK, Wait, Settle, WaitFor
        <5>2. Now \in Nat
          BY <5>1, NowTyped
        <5>3. \/ deadline' = Now + USB_XFER_TIMEOUT
              \/ deadline' = Now + SettleDelay
          BY <4>1 DEF Wait, Settle, WaitFor
        <5> QED
          BY <5>2, <5>3
      <4>2. CASE ~(Wait \/ Settle)
        BY <1>4, <4>2 DEF HalInv, TypeOK, Request, AlarmStart, AlarmStop, WaitEnds, Unmask
      <4> QED
        BY <4>1, <4>2
    <3>3. pie' \in BOOLEAN /\ context' \in BOOLEAN
      BY <1>4 DEF HalInv, TypeOK, Request, AlarmStart, AlarmStop, Wait, Settle, WaitFor,
                  WaitEnds, Unmask, DisableAll, EnableAll, irqVars
    <3> QED
      BY <1>1, <2>1, <2>2, <3>1, <3>2, <3>3 DEF HalInv, TypeOK, alarmVars, tickVars
  <2> QED
    BY <1>2, <2>3, <2>5, <2>6, <2>7 DEF HalInv
<1> QED
  BY <1>3, <1>4

\* The critical sections.
LEMMA SectionKeeps ==
  ASSUME HalInv, StartTime \/ StartInsert \/ StopRemove
  PROVE  HalInv'
<1> USE HalAssumption
<1>1. /\ isr = "off" /\ pc \in {"time", "insert", "remove"}
      /\ UNCHANGED <<alarm, nticks_arg, deadline, irqVars, tick_rate, nticks, tickVars>>
  BY DEF StartTime, StartInsert, StopRemove
<1>2. ~pie
  BY <1>1 DEF HalInv, Masked, Critical
<1>3. (Enabled /\ RateKnown)'
  BY <1>1 DEF HalInv, Enabled, RateKnown, irqVars, StartTime, StartInsert, StopRemove
<1>4. InterruptsAreSafe'
  BY <1>1, <1>3 DEF InterruptsAreSafe, Enabled, Pending, tickVars
<1>5. Walks' /\ Masked'
  BY <1>1, <1>2 DEF Walks, Masked, tickVars, irqVars
<1>6. CASE StartTime
  <2>1. UNCHANGED <<list, running>> /\ pc = "time" /\ pc' = "insert"
    BY <1>6 DEF StartTime
  <2>2. (ListTyped /\ ListHoldsRunning /\ Apart)'
    BY <2>1, ListUntouched
  <2>3. (Sections /\ WatchRuns)'
    BY <1>1, <2>1 DEF HalInv, Sections, WatchRuns, Boot
  <2>4. TypeOK'
    <3>1. nticks \in Nat /\ nticks_arg + 1 \in Nat /\ nticks_arg + 1 \in 0 .. TickMod - 1
      BY DEF HalInv, TypeOK
    <3>2. Later(nticks, nticks_arg + 1) \in 0 .. TickMod - 1
      BY <3>1, LaterTyped
    <3>3. Rolled(Later(nticks, nticks_arg + 1)) \in BOOLEAN
      BY DEF Rolled
    <3>4. /\ time' \in [Alarms -> 0 .. TickMod - 1] /\ rollover' \in [Alarms -> BOOLEAN]
          /\ due' \in [Alarms -> 0 .. TickMod - 1]
      BY <1>6, <3>1, <3>2, <3>3 DEF HalInv, TypeOK, StartTime
    <3> QED
      BY <1>1, <2>1, <3>4 DEF HalInv, TypeOK, irqVars, tickVars
  <2> QED
    BY <1>3, <1>4, <1>5, <2>2, <2>3, <2>4 DEF HalInv
<1>7. CASE StartInsert
  <2>1. /\ list' = Insert(list, Head, alarm) /\ running' = running \union {alarm}
        /\ pc = "insert" /\ pc' = "unmask" /\ UNCHANGED <<time, rollover, due>>
    BY <1>7 DEF StartInsert
  <2>2. running \in SUBSET Alarms /\ alarm \in Alarms \ running
    BY <2>1 DEF HalInv, TypeOK, Sections
  <2>3. PICK a \in Alarms \ running : a = alarm
    BY <2>2
  <2>4. /\ ListTyped' /\ Linked(list', running \union {a} \union {Head})
        /\ \A x \in Alarms \ (running \union {a}) : /\ list'.next[x] = list.next[x]
                                                    /\ list'.prev[x] = list.prev[x]
    <3>1. ListTyped /\ Linked(list, running \union {Head})
      BY DEF HalInv, ListHoldsRunning
    <3> QED
      BY <2>1, <2>2, <2>3, <3>1, InsertLinks
  <2>5. ListHoldsRunning'
    BY <2>1, <2>3, <2>4, Zenon DEF ListHoldsRunning
  <2>6. Apart'
    BY <2>1, <2>3, <2>4 DEF HalInv, Apart
  <2>7. (Sections /\ WatchRuns)'
    BY <2>1 DEF HalInv, Sections, WatchRuns, Boot
  <2>8. TypeOK'
    BY <1>1, <2>1, <2>2, <2>4 DEF HalInv, TypeOK, ListTyped, Nodes, irqVars, tickVars
  <2> QED
    BY <1>3, <1>4, <1>5, <2>4, <2>5, <2>6, <2>7, <2>8 DEF HalInv
<1>8. CASE StopRemove
  <2>1. Stopped(alarm) /\ pc = "remove" /\ pc' = "unmask"
    BY <1>8 DEF StopRemove
  <2>2. alarm \in Alarms /\ alarm # Watch /\ list.next[alarm] # Null /\ Watch \in running
    BY <2>1 DEF HalInv, TypeOK, Sections, WatchRuns
  <2>3. PICK a \in Alarms : a = alarm
    BY <2>2
  <2>4. /\ (ListTyped /\ ListHoldsRunning /\ Apart)'
        /\ running' \subseteq running /\ (Watch \in running => Watch \in running')
        /\ time' \in [Alarms -> 0 .. TickMod - 1] /\ rollover' \in [Alarms -> BOOLEAN]
        /\ due' \in [Alarms -> 0 .. TickMod - 1]
    BY <2>1, <2>2, <2>3, StoppedKeeps
  <2>5. (Sections /\ WatchRuns)'
    BY <2>1, <2>2, <2>4 DEF Sections, WatchRuns, Boot
  <2>6. TypeOK'
    BY <1>1, <2>1, <2>4 DEF HalInv, TypeOK, ListTyped, Nodes, irqVars, tickVars
  <2> QED
    BY <1>3, <1>4, <1>5, <2>4, <2>5, <2>6 DEF HalInv
<1> QED
  BY <1>6, <1>7, <1>8

\* At interrupt level the program stands still, outside its critical sections.
LEMMA StandsStill ==
  ASSUME HalInv, isr # "off"
  PROVE  ~pie /\ pc \notin Critical
BY DEF HalInv, InterruptsAreSafe, Critical

\* Interrupts that are raised, taken, dispatched and left, and the walk up to a callback.
LEMMA InterruptKeeps ==
  ASSUME HalInv, \/ TimerExpires \/ UartRaises \/ Interrupt \/ DispatchUart \/ DispatchTimer
                 \/ DispatchEnd \/ Visit \/ VisitEnd
  PROVE  HalInv'
<1> USE HalAssumption
<1> DEFINE Raising == TimerExpires \/ UartRaises
           Dispatching == DispatchUart \/ DispatchTimer \/ DispatchEnd \/ Visit \/ VisitEnd
<1>1. /\ UNCHANGED <<mainVars, deadline, context, ienable, handlers, tick_rate, list, running>>
  BY DEF TimerExpires, UartRaises, Interrupt, DispatchUart, DispatchTimer, DispatchEnd, Visit,
         VisitEnd, alarmVars, irqVars
<1>2. (ListTyped /\ ListHoldsRunning /\ Apart)'
  BY <1>1, ListUntouched
<1>3. (Enabled /\ RateKnown /\ Sections /\ WatchRuns)'
  BY <1>1 DEF HalInv, Enabled, RateKnown, Sections, WatchRuns, mainVars
<1>4. (Masked /\ InterruptsAreSafe)'
  <2>1. Pending' \subseteq handlers'
    BY <1>3 DEF Enabled, Pending
  <2>2. CASE Raising
    BY <1>1, <2>1, <2>2 DEF HalInv, Masked, InterruptsAreSafe, TimerExpires, UartRaises, mainVars,
                            tickVars
  <2>3. CASE Interrupt
    BY <1>1, <2>1, <2>3 DEF HalInv, Masked, InterruptsAreSafe, Interrupt, mainVars, Critical
  <2>4. CASE Dispatching
    <3>1. isr # "off"
      BY <2>4 DEF DispatchUart, DispatchTimer, DispatchEnd, Visit, VisitEnd
    <3>2. ~pie /\ pc \notin Critical /\ pc' \notin Critical
      BY <1>1, <3>1, StandsStill DEF mainVars
    <3>3. isr' # "off" => UNCHANGED pie
      BY <2>4 DEF DispatchUart, DispatchTimer, DispatchEnd, Visit, VisitEnd, irqVars
    <3> QED
      BY <2>1, <3>2, <3>3 DEF Masked, InterruptsAreSafe, Critical
  <2> QED
    BY <2>2, <2>3, <2>4
<1>5. Walks'
  <2>1. CASE ~(DispatchTimer \/ Visit)
    BY <1>1, <2>1 DEF HalInv, Walks, TimerExpires, UartRaises, Interrupt, DispatchUart, DispatchEnd,
                      VisitEnd, tickVars
  <2>2. CASE DispatchTimer
    <3>1. list.next[Head] \in running \union {Head} /\ running \subseteq Alarms
      BY DEF HalInv, ListHoldsRunning, Linked, TypeOK
    <3>2. \A x \in running \union {Head} : list.next[x] \in running \union {Head}
      BY DEF HalInv, ListHoldsRunning, Linked
    <3>3. Null \notin running \union {Head}
      BY <3>1
    <3> QED
      BY <1>1, <2>2, <3>1, <3>2, <3>3 DEF DispatchTimer, Walks
  <2>3. CASE Visit
    <3>1. cursor \in Alarms /\ list.next[cursor] # Null
      BY <2>3 DEF HalInv, TypeOK, Walks, Visit
    <3>2. list.next[list.next[cursor]] # Null
      <4>1. CASE cursor \in running
        <5>1. list.next[cursor] \in running \union {Head} /\ running \subseteq Alarms
          BY <4>1 DEF HalInv, ListHoldsRunning, Linked, TypeOK
        <5>2. list.next[list.next[cursor]] \in running \union {Head}
          BY <5>1 DEF HalInv, ListHoldsRunning, Linked
        <5> QED
          BY <5>1, <5>2
      <4>2. CASE cursor \notin running
        BY <3>1, <4>2 DEF HalInv, Apart
      <4> QED
        BY <4>1, <4>2
    <3> QED
      BY <1>1, <2>3, <3>1, <3>2 DEF Visit, Walks
  <2> QED
    BY <2>1, <2>2, <2>3
<1>6. TypeOK'
  <2>1. /\ lines' \subseteq {"jtag", "timer"} /\ pie' \in BOOLEAN
        /\ isr' \in {"off", "dispatch", "visit", "callback"}
    BY DEF HalInv, TypeOK, TimerExpires, UartRaises, Interrupt, DispatchUart, DispatchTimer,
           DispatchEnd, Visit, VisitEnd, irqVars, tickVars
  <2>2. cursor' \in Alarms \union {Head} /\ next' \in Alarms \union {Head}
    <3>1. CASE ~(DispatchTimer \/ Visit)
      BY <3>1 DEF HalInv, TypeOK, TimerExpires, UartRaises, Interrupt, DispatchUart, DispatchEnd,
                  VisitEnd, tickVars
    <3>2. CASE DispatchTimer
      <4>1. list.next[Head] \in Alarms \union {Head}
        BY DEF HalInv, ListHoldsRunning, Linked, TypeOK
      <4> QED
        BY <3>2, <4>1 DEF HalInv, TypeOK, DispatchTimer
    <3>3. CASE Visit
      <4>1. list.next[cursor] \in Alarms \union {Head}
        BY <3>3 DEF HalInv, TypeOK, Walks, Visit
      <4> QED
        BY <3>3, <4>1 DEF HalInv, TypeOK, Visit
    <3> QED
      BY <3>1, <3>2, <3>3
  <2>3. nticks' \in 0 .. TickMod - 1
    <3>1. nticks \in Nat /\ 1 \in Nat
      BY DEF HalInv, TypeOK
    <3>2. Later(nticks, 1) \in 0 .. TickMod - 1
      BY <3>1, LaterTyped
    <3> QED
      BY <3>2 DEF HalInv, TypeOK, TimerExpires, UartRaises, Interrupt, DispatchUart, DispatchTimer,
                  DispatchEnd, Visit, VisitEnd
  <2>4. /\ time' \in [Alarms -> 0 .. TickMod - 1] /\ rollover' \in [Alarms -> BOOLEAN]
        /\ due' \in [Alarms -> 0 .. TickMod - 1]
    <3>1. CASE ~(DispatchTimer \/ Visit)
      BY <3>1 DEF HalInv, TypeOK, TimerExpires, UartRaises, Interrupt, DispatchUart, DispatchEnd,
                  VisitEnd, alarmVars
    <3>2. CASE DispatchTimer
      BY <3>2 DEF HalInv, TypeOK, DispatchTimer
    <3>3. CASE Visit
      <4>1. Over(cursor) \in BOOLEAN
        BY <3>3 DEF HalInv, TypeOK, Visit, Over
      <4> QED
        BY <3>3, <4>1 DEF HalInv, TypeOK, Visit
    <3> QED
      BY <3>1, <3>2, <3>3
  <2> QED
    BY <1>1, <2>1, <2>2, <2>3, <2>4 DEF HalInv, TypeOK, mainVars
<1> QED
  BY <1>2, <1>3, <1>4, <1>5, <1>6 DEF HalInv

\* Callbacks, and what they do to other alarms.
LEMMA CallbackKeeps ==
  ASSUME HalInv, \/ CallbackLast \/ \E n \in Periods \union {tick_rate} : Callback(n)
                 \/ \E a \in Alarms : CallbackStops(a)
  PROVE  HalInv'
<1> USE HalAssumption
<1>1. /\ isr = "callback" /\ isr' \in {"visit", "callback"}
      /\ UNCHANGED <<mainVars, deadline, irqVars, tick_rate, nticks>>
      /\ \/ cursor' = next /\ next' = Head /\ isr' = "visit"
         \/ UNCHANGED tickVars
  BY DEF CallbackLast, Callback, CallbackStops, Resume, tickVars
<1>2. cursor \in Alarms /\ list.next[cursor] # Null /\ list.next[next] # Null /\ next \in Nodes
  BY <1>1 DEF HalInv, TypeOK, Walks, Nodes
<1>3. ~pie /\ pc \notin Critical
  BY <1>1, StandsStill
<1>4. /\ (ListTyped /\ ListHoldsRunning /\ Apart)'
      /\ running' \subseteq running /\ (Watch \in running => Watch \in running')
      /\ time' \in [Alarms -> 0 .. TickMod - 1] /\ rollover' \in [Alarms -> BOOLEAN]
      /\ due' \in [Alarms -> 0 .. TickMod - 1]
      /\ \A x \in Nodes : list.next[x] # Null => list'.next[x] # Null
  <2>1. CASE CallbackLast
    <3>1. PICK a \in Alarms : a = cursor
      BY <1>2
    <3> QED
      BY <1>2, <2>1, <3>1, StoppedKeeps DEF CallbackLast
  <2>2. CASE \E a \in Alarms : CallbackStops(a)
    <3>1. PICK a \in Alarms : CallbackStops(a)
      BY <2>2
    <3>2. a \in running /\ a # Watch /\ Stopped(a)
      BY <3>1 DEF CallbackStops
    <3>3. list.next[a] # Null
      <4>1. list.next[a] \in running \union {Head} /\ running \subseteq Alarms
        BY <3>2 DEF HalInv, ListHoldsRunning, Linked, TypeOK
      <4> QED
        BY <4>1
    <3> QED
      BY <3>2, <3>3, StoppedKeeps
  <2>3. CASE \E n \in Periods \union {tick_rate} : Callback(n)
    <3>1. PICK n \in Periods \union {tick_rate} : Callback(n)
      BY <2>3
    <3>2. UNCHANGED <<list, running>>
      BY <3>1 DEF Callback
    <3>3. n \in Nat /\ n \in 0 .. TickMod - 1
      <4>1. tick_rate \in 0 .. TickMod - 1 /\ Periods \subseteq 0 .. TickMod - 1
        BY DEF HalInv, TypeOK
      <4> QED
        BY <4>1
    <3>4. Later(time[cursor], n) \in 0 .. TickMod - 1
      <4>1. time[cursor] \in Nat
        BY <1>2 DEF HalInv, TypeOK
      <4> QED
        BY <3>3, <4>1, LaterTyped
    <3>5. Rolled(Later(time[cursor], n)) \in BOOLEAN
      BY DEF Rolled
    <3>6. time' \in [Alarms -> 0 .. TickMod - 1]
      <4>1. \/ UNCHANGED time
            \/ time' = [time EXCEPT ![cursor] = Later(time[cursor], n)]
        BY <3>1 DEF Callback
      <4> QED
        BY <3>4, <4>1 DEF HalInv, TypeOK
    <3>7. due' \in [Alarms -> 0 .. TickMod - 1]
      <4>1. due' = [due EXCEPT ![cursor] = IF cursor \in running THEN n ELSE @]
        BY <3>1 DEF Callback
      <4> QED
        BY <3>3, <4>1 DEF HalInv, TypeOK
    <3>8. rollover' \in [Alarms -> BOOLEAN]
      <4>1. CASE cursor \in running \/ StopsFollowing
        BY <3>1, <3>5, <4>1 DEF HalInv, TypeOK, Callback
      <4>2. CASE ~(cursor \in running \/ StopsFollowing)
        BY <3>1, <4>2 DEF HalInv, TypeOK, Callback
      <4> QED
        BY <4>1, <4>2
    <3> QED
      BY <3>2, <3>6, <3>7, <3>8, ListUntouched
  <2> QED
    BY <2>1, <2>2, <2>3
<1>5. (Enabled /\ RateKnown)'
  BY <1>1 DEF HalInv, Enabled, RateKnown, mainVars, irqVars
<1>6. (Sections /\ WatchRuns)'
  <2>1. pc' \in Boot => running' = {}
    BY <1>1, <1>4 DEF HalInv, Sections, mainVars
  <2>2. WatchRuns'
    BY <1>1, <1>4 DEF HalInv, WatchRuns, mainVars
  <2> QED
    BY <1>1, <1>3, <2>1, <2>2 DEF Sections, Critical, mainVars
<1>7. (Masked /\ InterruptsAreSafe)'
  BY <1>1, <1>3, <1>5 DEF Masked, InterruptsAreSafe, Critical, Enabled, Pending, mainVars, irqVars
<1>8. Walks'
  <2>1. list'.next[next] # Null /\ list'.next[cursor] # Null /\ cursor # Head
    BY <1>2, <1>4 DEF Nodes
  <2> QED
    BY <1>1, <2>1 DEF Walks, tickVars
<1>9. TypeOK'
  BY <1>1, <1>2, <1>4 DEF HalInv, TypeOK, ListTyped, Nodes, mainVars, irqVars, tickVars
<1> QED
  BY <1>4, <1>5, <1>6, <1>7, <1>8, <1>9 DEF HalInv

LEMMA InvStep == HalInv /\ [Next]_vars => HalInv'
<1> SUFFICES ASSUME HalInv, [Next]_vars PROVE HalInv'
  OBVIOUS
<1>1. CASE Startup \/ Request \/ WaitEnds
  BY <1>1, ProgramKeeps
<1>2. CASE Section
  BY <1>2, ProgramKeeps, SectionKeeps DEF Section
<1>3. CASE TimerExpires \/ UartRaises \/ Interrupt
  BY <1>3, InterruptKeeps
<1>4. CASE Isr
  BY <1>4, InterruptKeeps, CallbackKeeps DEF Isr
<1>5. CASE \E a \in Alarms : CallbackStops(a)
  BY <1>5, CallbackKeeps
<1>6. CASE UNCHANGED vars
  <2> USE <1>6 DEF vars, mainVars, irqVars, alarmVars, tickVars
  <2>1. TypeOK'
    BY DEF HalInv, TypeOK
  <2>2. (ListTyped /\ ListHoldsRunning /\ Apart)'
    BY ListUntouched
  <2>3. (InterruptsAreSafe /\ WatchRuns /\ Masked /\ Enabled /\ RateKnown /\ Sections /\ Walks)'
    BY DEF HalInv, InterruptsAreSafe, Pending, WatchRuns, Masked, Enabled, RateKnown, Sections, Walks
  <2> QED
    BY <2>1, <2>2, <2>3 DEF HalInv
<1> QED
  BY <1>1, <1>2, <1>3, <1>4, <1>5, <1>6 DEF Next

LEMMA AlwaysInv == Spec => []HalInv
BY InvInit, InvStep, PTL DEF Spec

\* The clock, the alarms and the list's pointers keep their types; the tick's walk never
\* comes to a null pointer, even if callbacks stop the alarm that follows their own.
THEOREM HalTypes == Spec => []TypeOK
<1>1. HalInv => TypeOK
  BY DEF HalInv
<1> QED
  BY <1>1, AlwaysInv, PTL

\* The list links the head and the running alarms, and no others, at all times.
THEOREM AlarmsAreListed == Spec => []ListHoldsRunning
<1>1. HalInv => ListHoldsRunning
  BY DEF HalInv
<1> QED
  BY <1>1, AlwaysInv, PTL

\* Critical sections and interrupts exclude each other, and every interrupt has a handler.
THEOREM SectionsExclude == Spec => []InterruptsAreSafe
<1>1. HalInv => InterruptsAreSafe
  BY DEF HalInv
<1> QED
  BY <1>1, AlwaysInv, PTL

\* The host of the UART is watched from the start of main on.
THEOREM HostIsWatched == Spec => []WatchRuns
<1>1. HalInv => WatchRuns
  BY DEF HalInv
<1> QED
  BY <1>1, AlwaysInv, PTL
-------------------------------------------------------------------------------
(* When alarms fire. *)

\* Followed backwards from any set of running alarms the list leaves the set: it is one ring.
OneRing == \A S \in SUBSET running : S # {} => \E a \in S : list.prev[a] \notin S

\* An alarm's time, with what it has wrapped, is the count when it is due.
Timed(a) == nticks + due[a] = IF Over(a) THEN time[a] + TickMod ELSE time[a]

\* It is due on a later tick, and no rollover that has taken place is still to be noted.
Settled(a) == due[a] > 0 /\ (rollover[a] => nticks # 0)

\* S holds what a walk from n on comes to.
Ahead(n, S) == n \in S \union {Head} /\ \A a \in S : list.next[a] \in S \union {Head}

\* All running alarms but the exempt are settled, or a walk from n on comes to them.
RestSettled(n, exempt) ==
  \A S \in SUBSET running : Ahead(n, S) => \A a \in running \ (S \union exempt) : Settled(a)

DueParts ==
  /\ OneRing
  /\ \A a \in running : Timed(a)
  /\ pc = "insert" => Timed(alarm) /\ Settled(alarm)
  /\ isr \in {"off", "dispatch"} => \A a \in running : Settled(a)
  /\ isr = "visit" => RestSettled(cursor, {})
  /\ isr = "callback" => RestSettled(next, {cursor})
  /\ isr = "callback" /\ cursor \in running => due[cursor] = 0 /\ ~rollover[cursor]

\* Times wrap once at most.
LEMMA LaterIs ==
  ASSUME NEW t \in 0 .. TickMod - 1, NEW n \in 0 .. TickMod - 1
  PROVE  Later(t, n) = IF t + n < TickMod THEN t + n ELSE t + n - TickMod
BY HalAssumption, SMTT(30) DEF Later

\* What a removal does to the pointers of the entries that stay.
LEMMA RemoveIs ==
  ASSUME ListTyped, NEW S \in SUBSET Alarms, Linked(list, S \union {Head}),
         NEW a \in Alarms, a \in S \/ (list.next[a] = a /\ list.prev[a] = a),
         list' = Remove(list, a)
  PROVE  \A x \in S \ {a} :
           /\ list'.next[x] = IF x = list.prev[a] THEN list.next[a] ELSE list.next[x]
           /\ list'.prev[x] = IF x = list.next[a] THEN list.prev[a] ELSE list.prev[x]
<1> DEFINE p == list.prev[a]
           n == list.next[a]
<1>1. a \in Nodes /\ p \in Nodes /\ n \in Nodes
  BY DEF Linked, Nodes
<1>2. /\ list'.next = [list.next EXCEPT ![p] = n, ![a] = a]
      /\ list'.prev = [list.prev EXCEPT ![n] = p, ![a] = a]
  BY DEF Remove
<1>3. list.next \in [Nodes -> Nodes \union {Null}] /\ list.prev \in [Nodes -> Nodes \union {Null}]
  BY DEF ListTyped
<1> HIDE DEF p, n
<1>4. \A x \in S \ {a} : x \in Nodes
  BY DEF Nodes
<1>5. \A x \in S \ {a} : list'.next[x] = IF x = p THEN n ELSE list.next[x]
  BY <1>1, <1>2, <1>3, <1>4
<1>6. \A x \in S \ {a} : list'.prev[x] = IF x = n THEN p ELSE list.prev[x]
  BY <1>1, <1>2, <1>3, <1>4
<1> QED
  BY <1>5, <1>6 DEF p, n

\* A ring with a new first entry is one ring.
LEMMA InsertKeepsRing ==
  ASSUME HalInv, OneRing, NEW a \in Alarms \ running, list' = Insert(list, Head, a),
         running' = running \union {a}
  PROVE  OneRing'
<1> USE HalAssumption
<1>1. /\ running \subseteq Alarms /\ list.prev \in [Nodes -> Nodes \union {Null}]
      /\ list.next[Head] \in running \union {Head} /\ a # Head
      /\ \A x \in running : list.prev[x] \in running \union {Head}
  BY DEF HalInv, TypeOK, ListTyped, ListHoldsRunning, Linked
<1>2. list'.prev = [list.prev EXCEPT ![a] = Head, ![list.next[Head]] = a]
  BY DEF Insert
<1>3. list'.prev[a] = Head
  BY <1>1, <1>2 DEF Nodes
<1>4. \A x \in running : list'.prev[x] = a \/ list'.prev[x] = list.prev[x]
  BY <1>1, <1>2 DEF Nodes
<1>5. SUFFICES ASSUME NEW S \in SUBSET running', S # {}
               PROVE  \E x \in S : list'.prev[x] \notin S
  BY Zenon DEF OneRing
<1>6. CASE a \in S
  BY <1>1, <1>3, <1>6
<1>7. CASE a \notin S
  <2>1. S \in SUBSET running
    BY <1>7
  <2>2. PICK x \in S : list.prev[x] \notin S
    BY <1>5, <2>1 DEF OneRing
  <2> QED
    BY <1>4, <1>7, <2>1, <2>2
<1> QED
  BY <1>6, <1>7

\* What a stop does to the alarms that stay.
LEMMA StoppedIs ==
  ASSUME HalInv, NEW a \in Alarms, list.next[a] # Null, Stopped(a)
  PROVE  /\ running' = running \ {a}
         /\ \A x \in running \ {a} :
              /\ list'.next[x] = IF x = list.prev[a] THEN list.next[a] ELSE list.next[x]
              /\ list'.prev[x] = IF x = list.next[a] THEN list.prev[a] ELSE list.prev[x]
              /\ time'[x] = time[x] /\ rollover'[x] = rollover[x] /\ due'[x] = due[x]
         /\ a \in running => list.prev[list.next[a]] = a /\ list.next[list.prev[a]] = a
         /\ a \notin running => list.next[a] = a /\ list.prev[a] = a
<1>1. a \in running \/ (list.next[a] = a /\ list.prev[a] = a)
  BY DEF HalInv, Apart
<1>2. list' = Remove(list, a) /\ running' = running \ {a} /\ running \in SUBSET Alarms
  BY DEF Stopped, HalInv, TypeOK
<1>3. ListTyped /\ Linked(list, running \union {Head})
  BY DEF HalInv, ListHoldsRunning
<1>4. \A x \in running \ {a} :
        /\ list'.next[x] = IF x = list.prev[a] THEN list.next[a] ELSE list.next[x]
        /\ list'.prev[x] = IF x = list.next[a] THEN list.prev[a] ELSE list.prev[x]
  BY <1>1, <1>2, <1>3, RemoveIs
<1>5. \A x \in running \ {a} : time'[x] = time[x] /\ rollover'[x] = rollover[x] /\ due'[x] = due[x]
  <2>1. running \subseteq Alarms /\ DOMAIN time = Alarms /\ DOMAIN rollover = Alarms /\ DOMAIN due = Alarms
    BY DEF HalInv, TypeOK
  <2> QED
    BY <2>1 DEF Stopped
<1>6. a \in running => list.prev[list.next[a]] = a /\ list.next[list.prev[a]] = a
  BY <1>3 DEF Linked
<1> QED
  BY <1>1, <1>2, <1>4, <1>5, <1>6

\* The ring without one alarm is one ring.
LEMMA StopKeepsRing ==
  ASSUME HalInv, OneRing, NEW a \in Alarms, list.next[a] # Null, Stopped(a)
  PROVE  OneRing'
<1>1. running' = running \ {a}
  BY StoppedIs
<1>2. \A x \in running \ {a} : list'.prev[x] = IF x = list.next[a] THEN list.prev[a] ELSE list.prev[x]
  BY StoppedIs
<1>3. /\ a \in running => list.prev[list.next[a]] = a
      /\ a \notin running => list.next[a] = a
  BY StoppedIs
<1> SUFFICES ASSUME NEW S \in SUBSET running', S # {}, \A x \in S : list'.prev[x] \in S
             PROVE  FALSE
  BY Zenon DEF OneRing
<1>4. S \in SUBSET (running \ {a}) /\ S # {} /\ \A x \in S : list'.prev[x] \in S
  BY <1>1
<1>5. CASE list.next[a] \in S
  <2>1. a \in running /\ list.prev[a] \in S /\ list.prev[list.next[a]] = a
    BY <1>2, <1>3, <1>4, <1>5
  <2>2. S \union {a} \in SUBSET running /\ S \union {a} # {}
    BY <1>4, <2>1
  <2>3. \A x \in S \union {a} : list.prev[x] \in S \union {a}
    BY <1>2, <1>4, <2>1
  <2> QED
    BY <2>2, <2>3, Zenon DEF OneRing
<1>6. CASE list.next[a] \notin S
  <2>1. S \in SUBSET running /\ \A x \in S : list.prev[x] \in S
    BY <1>2, <1>4, <1>6
  <2> QED
    BY <1>4, <2>1, Zenon DEF OneRing
<1> QED
  BY <1>5, <1>6

\* A stop leaves nothing behind the walk that was not settled.
LEMMA StopKeepsRest ==
  ASSUME HalInv, NEW a \in Alarms, list.next[a] # Null, Stopped(a), UNCHANGED nticks,
         NEW n, NEW E, RestSettled(n, E)
  PROVE  RestSettled(n, E)'
<1>1. running' = running \ {a}
  BY StoppedIs
<1>2. \A x \in running \ {a} :
        /\ list'.next[x] = IF x = list.prev[a] THEN list.next[a] ELSE list.next[x]
        /\ rollover'[x] = rollover[x] /\ due'[x] = due[x]
  BY StoppedIs
<1>3. /\ a \in running => list.next[list.prev[a]] = a
      /\ a \notin running => list.prev[a] = a
  BY StoppedIs
<1> SUFFICES ASSUME NEW S \in SUBSET running', Ahead(n, S)'
             PROVE  (\A x \in running \ (S \union E) : Settled(x))'
  BY Zenon DEF RestSettled
<1>4. /\ S \in SUBSET (running \ {a}) /\ n \in S \union {Head}
      /\ \A x \in S : list'.next[x] \in S \union {Head}
  BY <1>1 DEF Ahead
<1>7. SUFFICES \A x \in (running \ {a}) \ (S \union E) : Settled(x)
  BY <1>1, <1>2 DEF Settled
<1>5. CASE list.prev[a] \in S
  <2>1. a \in running /\ list.next[a] \in S \union {Head} /\ list.next[list.prev[a]] = a
    BY <1>2, <1>3, <1>4, <1>5
  <2>2. S \union {a} \in SUBSET running
    BY <1>4, <2>1
  <2>3. Ahead(n, S \union {a})
    BY <1>2, <1>4, <2>1 DEF Ahead
  <2>4. \A x \in running \ ((S \union {a}) \union E) : Settled(x)
    BY <2>2, <2>3, Zenon DEF RestSettled
  <2> QED
    BY <2>4
<1>6. CASE list.prev[a] \notin S
  <2>1. S \in SUBSET running /\ Ahead(n, S)
    BY <1>2, <1>4, <1>6 DEF Ahead
  <2>2. \A x \in running \ (S \union E) : Settled(x)
    BY <2>1, Zenon DEF RestSettled
  <2> QED
    BY <2>2
<1> QED
  BY <1>5, <1>6

\* Steps that leave the alarms, the count and the walk alone.
LEMMA DueUntouched ==
  ASSUME DueParts, UNCHANGED <<alarmVars, nticks, tickVars>>,
         pc' = "insert" => pc = "insert" /\ UNCHANGED alarm
  PROVE  DueParts'
<1> USE DEF alarmVars, tickVars
<1>1. OneRing' /\ (\A a \in running : Timed(a))'
  BY DEF DueParts, OneRing, Timed, Over
<1>2. (pc = "insert" => Timed(alarm) /\ Settled(alarm))'
  BY DEF DueParts, Timed, Settled, Over
<1>3. (isr \in {"off", "dispatch"} => \A a \in running : Settled(a))'
  BY DEF DueParts, Settled
<1>4. (isr = "visit" => RestSettled(cursor, {}))' /\ (isr = "callback" => RestSettled(next, {cursor}))'
  BY DEF DueParts, RestSettled, Ahead, Settled
<1>5. (isr = "callback" /\ cursor \in running => due[cursor] = 0 /\ ~rollover[cursor])'
  BY DEF DueParts
<1> QED
  BY <1>1, <1>2, <1>3, <1>4, <1>5 DEF DueParts

\* Steps that leave the alarms and the count alone, outside the walk.
LEMMA DueOutside ==
  ASSUME DueParts, UNCHANGED <<alarmVars, nticks, mainVars>>, isr' \in {"off", "dispatch"},
         \A a \in running : Settled(a)
  PROVE  DueParts'
<1> USE DEF alarmVars, mainVars
<1>1. OneRing' /\ (\A a \in running : Timed(a))'
  BY DEF DueParts, OneRing, Timed, Over
<1>2. (pc = "insert" => Timed(alarm) /\ Settled(alarm))'
  BY DEF DueParts, Timed, Settled, Over
<1>3. (\A a \in running : Settled(a))'
  BY DEF Settled
<1> QED
  BY <1>1, <1>2, <1>3 DEF DueParts

\* The program's sections.
LEMMA DueSection ==
  ASSUME HalInv, DueParts, StartTime \/ StartInsert \/ StopRemove
  PROVE  DueParts'
<1> USE HalAssumption
<1>1. isr = "off" /\ isr' = "off" /\ UNCHANGED <<nticks, alarm>> /\ \A a \in running : Settled(a)
  BY DEF StartTime, StartInsert, StopRemove, tickVars, DueParts
<1>2. CASE StartTime
  <2> DEFINE t == Later(nticks, nticks_arg + 1)
  <2>1. alarm \in Alarms \ running /\ UNCHANGED <<list, running>> /\ pc = "time"
    BY <1>2 DEF HalInv, TypeOK, Sections, StartTime
  <2>2. /\ time' = [time EXCEPT ![alarm] = t] /\ rollover' = [rollover EXCEPT ![alarm] = Rolled(t)]
        /\ due' = [due EXCEPT ![alarm] = nticks_arg + 1]
    BY <1>2 DEF StartTime
  <2>3. /\ DOMAIN time = Alarms /\ DOMAIN rollover = Alarms /\ DOMAIN due = Alarms
        /\ running \subseteq Alarms
    BY DEF HalInv, TypeOK
  <2>4. \A a \in running : /\ time'[a] = time[a] /\ rollover'[a] = rollover[a]
                           /\ due'[a] = due[a]
    BY <2>1, <2>2, <2>3
  <2>5. (\A a \in running : Timed(a) /\ Settled(a))' /\ OneRing'
    BY <1>1, <2>1, <2>4 DEF DueParts, Timed, Settled, Over, OneRing
  <2>6. time'[alarm] = t /\ (rollover'[alarm] <=> t < nticks) /\ due'[alarm] = nticks_arg + 1
    BY <2>1, <2>2, <2>3 DEF Rolled
  <2>7. nticks \in 0 .. TickMod - 1 /\ nticks_arg + 1 \in 1 .. TickMod - 1 /\ nticks_arg + 1 \in 0 .. TickMod - 1
    BY DEF HalInv, TypeOK
  <2>8. t = IF nticks + (nticks_arg + 1) < TickMod THEN nticks + (nticks_arg + 1)
                                            ELSE nticks + (nticks_arg + 1) - TickMod
    BY <2>7, LaterIs
  <2> HIDE DEF t
  <2>9. (Timed(alarm) /\ Settled(alarm))'
    <3>1. rollover'[alarm] <=> nticks + (nticks_arg + 1) >= TickMod
      BY <2>6, <2>7, <2>8
    <3>2. rollover'[alarm] => nticks # 0
      BY <2>7, <3>1
    <3>3. nticks + due'[alarm] = IF rollover'[alarm] THEN time'[alarm] + TickMod ELSE time'[alarm]
      BY <2>6, <2>7, <2>8, <3>1
    <3> QED
      BY <1>1, <2>6, <2>7, <3>2, <3>3 DEF Timed, Settled, Over
  <2> QED
    BY <1>1, <2>5, <2>9 DEF DueParts
<1>3. CASE StartInsert
  <2>1. /\ list' = Insert(list, Head, alarm) /\ running' = running \union {alarm} /\ pc = "insert"
        /\ pc' = "unmask" /\ UNCHANGED <<time, rollover, due>> /\ alarm \in Alarms \ running
    BY <1>3 DEF StartInsert, HalInv, TypeOK, Sections
  <2>2. PICK a \in Alarms \ running : a = alarm
    BY <2>1
  <2>3. OneRing'
    BY <2>1, <2>2, InsertKeepsRing DEF DueParts
  <2>4. \A x \in running' : Timed(x) /\ Settled(x)
    BY <1>1, <2>1 DEF DueParts
  <2>5. (\A x \in running : Timed(x) /\ Settled(x))'
    BY <1>1, <2>1, <2>4 DEF Timed, Settled, Over
  <2> QED
    BY <1>1, <2>1, <2>3, <2>5 DEF DueParts
<1>4. CASE StopRemove
  <2>1. Stopped(alarm) /\ alarm \in Alarms /\ list.next[alarm] # Null /\ pc' = "unmask"
    BY <1>4 DEF StopRemove, HalInv, TypeOK, Sections
  <2>2. PICK a \in Alarms : a = alarm
    BY <2>1
  <2>3. /\ running' = running \ {a}
        /\ \A x \in running \ {a} : time'[x] = time[x] /\ rollover'[x] = rollover[x] /\ due'[x] = due[x]
    BY <2>1, <2>2, StoppedIs
  <2>4. OneRing'
    BY <2>1, <2>2, StopKeepsRing DEF DueParts
  <2>5. (\A x \in running : Timed(x) /\ Settled(x))'
    BY <1>1, <2>3 DEF DueParts, Timed, Settled, Over
  <2> QED
    BY <1>1, <2>1, <2>4, <2>5 DEF DueParts
<1> QED
  BY <1>2, <1>3, <1>4

\* A walk from the head comes to every running alarm.
LEMMA WalkIsWhole ==
  ASSUME HalInv, OneRing, NEW S \in SUBSET running, Ahead(list.next[Head], S)
  PROVE  running \subseteq S
<1> USE HalAssumption
<1>1. SUFFICES ASSUME running \ S # {} PROVE FALSE
  OBVIOUS
<1>2. running \ S \in SUBSET running
  OBVIOUS
<1>3. PICK a \in running \ S : list.prev[a] \notin running \ S
  BY <1>1, <1>2, Zenon DEF OneRing
<1>4. list.prev[a] \in running \union {Head} /\ list.next[list.prev[a]] = a /\ a # Head
  BY DEF HalInv, TypeOK, ListHoldsRunning, Linked
<1>5. a \in S \union {Head}
  BY <1>3, <1>4 DEF Ahead
<1> QED
  BY <1>4, <1>5

\* The count goes on, over its wrap too.
LEMMA TickTimes ==
  ASSUME HalInv, DispatchTimer, NEW a \in running, Timed(a), Settled(a)
  PROVE  Timed(a)'
<1> USE HalAssumption
<1>1. /\ a \in Alarms /\ nticks \in 0 .. TickMod - 1 /\ time[a] \in 0 .. TickMod - 1
      /\ due[a] \in 1 .. TickMod - 1 /\ rollover[a] \in BOOLEAN
  BY DEF HalInv, TypeOK, Settled
<1>2. due'[a] = due[a] - 1 /\ UNCHANGED <<time, rollover>> /\ nticks' = Later(nticks, 1)
  BY <1>1 DEF DispatchTimer
<1>3. 1 \in 0 .. TickMod - 1
  OBVIOUS
<1>4. nticks' = IF nticks + 1 < TickMod THEN nticks + 1 ELSE 0
  <2>1. Later(nticks, 1) = IF nticks + 1 < TickMod THEN nticks + 1 ELSE nticks + 1 - TickMod
    BY <1>1, <1>3, LaterIs
  <2> QED
    BY <1>1, <1>2, <2>1
<1>5. CASE rollover[a]
  BY <1>1, <1>2, <1>4, <1>5 DEF Timed, Settled, Over
<1>6. CASE ~rollover[a]
  BY <1>1, <1>2, <1>4, <1>6 DEF Timed, Settled, Over
<1> QED
  BY <1>1, <1>5, <1>6

\* A tick begins.
LEMMA DueTick ==
  ASSUME HalInv, DueParts, DispatchTimer
  PROVE  DueParts'
<1>1. /\ isr = "dispatch" /\ isr' = "visit" /\ cursor' = list.next[Head]
      /\ UNCHANGED <<list, running, pc, alarm>>
  BY DEF DispatchTimer, mainVars
<1>2. \A a \in running : Timed(a) /\ Settled(a)
  BY <1>1 DEF DueParts
<1>3. (\A a \in running : Timed(a))'
  BY <1>1, <1>2, TickTimes
<1>4. OneRing'
  BY <1>1 DEF DueParts, OneRing
<1>5. \A S \in SUBSET running : Ahead(list.next[Head], S) => running \subseteq S
  BY WalkIsWhole DEF DueParts
<1>6. RestSettled(cursor, {})'
  BY <1>1, <1>5 DEF RestSettled, Ahead
<1>7. pc' # "insert"
  BY <1>1, StandsStill DEF Critical
<1> QED
  BY <1>1, <1>3, <1>4, <1>6, <1>7 DEF DueParts

\* The walk goes on behind an alarm.
LEMMA WalkGoesOn ==
  ASSUME HalInv, RestSettled(cursor, {}), isr = "visit", cursor # Head,
         NEW S \in SUBSET running, Ahead(list.next[cursor], S)
  PROVE  cursor \in running /\ \A a \in running \ (S \union {cursor}) : Settled(a)
<1> USE HalAssumption
<1>1. cursor \in running
  <2>1. SUFFICES ASSUME cursor \notin running PROVE FALSE
    OBVIOUS
  <2>2. cursor \in Alarms /\ list.next[cursor] # Null
    BY DEF HalInv, TypeOK, Walks
  <2>3. list.next[cursor] = cursor
    BY <2>1, <2>2 DEF HalInv, Apart
  <2> QED
    BY <2>1, <2>3 DEF Ahead
<1>2. S \union {cursor} \in SUBSET running /\ Ahead(cursor, S \union {cursor})
  BY <1>1 DEF Ahead
<1>3. \A a \in running \ ((S \union {cursor}) \union {}) : Settled(a)
  BY <1>2, Zenon DEF RestSettled
<1> QED
  BY <1>1, <1>3

\* A turn of the walk.
LEMMA DueVisit ==
  ASSUME HalInv, DueParts, Visit
  PROVE  DueParts'
<1> USE HalAssumption
<1>1. /\ isr = "visit" /\ cursor \in Alarms /\ cursor # Head
      /\ rollover' = [rollover EXCEPT ![cursor] = Over(cursor)]
      /\ UNCHANGED <<mainVars, nticks, list, time, running, due>>
  BY DEF Visit, HalInv, TypeOK
<1>2. /\ rollover \in [Alarms -> BOOLEAN] /\ running \subseteq Alarms /\ nticks \in 0 .. TickMod - 1
      /\ time \in [Alarms -> 0 .. TickMod - 1] /\ due \in [Alarms -> 0 .. TickMod - 1]
  BY DEF HalInv, TypeOK
<1>3. rollover'[cursor] = Over(cursor) /\ \A a \in Alarms \ {cursor} : rollover'[a] = rollover[a]
  BY <1>1, <1>2
<1>4. (\A a \in running : Timed(a))'
  <2> SUFFICES ASSUME NEW a \in running PROVE Timed(a)'
    BY <1>1
  <2>1. Timed(a) /\ a \in Alarms
    BY <1>2 DEF DueParts
  <2>2. Over(a)' <=> Over(a)
    BY <1>1, <1>3, <2>1 DEF Over
  <2> QED
    BY <1>1, <2>1, <2>2 DEF Timed
<1>5. OneRing' /\ pc' # "insert"
  BY <1>1, StandsStill DEF DueParts, OneRing, Critical, mainVars
<1>6. \A a \in running \ {cursor} : Settled(a) => Settled(a)'
  BY <1>1, <1>2, <1>3 DEF Settled
<1>7. RestSettled(cursor, {})
  BY <1>1 DEF DueParts
<1>8. \A S \in SUBSET running : Ahead(list.next[cursor], S) =>
        \A a \in running \ (S \union {cursor}) : Settled(a)
  BY <1>1, <1>7, WalkGoesOn
<1>9. CASE time[cursor] <= nticks /\ ~Over(cursor)
  <2>1. isr' = "callback" /\ next' = list.next[cursor] /\ cursor' = cursor
    BY <1>9 DEF Visit
  <2>2. RestSettled(next, {cursor})'
    BY <1>1, <1>6, <1>8, <2>1 DEF RestSettled, Ahead
  <2>3. cursor \in running => due[cursor] = 0
    BY <1>2, <1>9 DEF DueParts, Timed
  <2> QED
    BY <1>1, <1>3, <1>4, <1>5, <1>9, <2>1, <2>2, <2>3 DEF DueParts
<1>10. CASE ~(time[cursor] <= nticks /\ ~Over(cursor))
  <2>1. isr' = "visit" /\ cursor' = list.next[cursor]
    BY <1>1, <1>10 DEF Visit
  <2>2. cursor \in running => due[cursor] > 0 /\ (rollover'[cursor] => nticks # 0)
    <3>1. Over(cursor) => nticks # 0
      BY DEF Over
    <3>2. cursor \in running => due[cursor] > 0
      BY <1>1, <1>2, <1>10 DEF DueParts, Timed
    <3> QED
      BY <1>3, <3>1, <3>2
  <2>3. \A S \in SUBSET running : Ahead(list.next[cursor], S) => \A a \in running \ S : Settled(a)'
    <3>1. \A a \in running : a = cursor => Settled(a)'
      BY <1>1, <2>2 DEF Settled
    <3> QED
      BY <1>6, <1>8, <3>1
  <2>4. RestSettled(cursor, {})'
    BY <1>1, <2>1, <2>3 DEF RestSettled, Ahead
  <2> QED
    BY <1>1, <1>4, <1>5, <2>1, <2>4 DEF DueParts
<1> QED
  BY <1>9, <1>10

\* A callback that asks for another turn.
LEMMA DueCallback ==
  ASSUME HalInv, DueParts, NEW n \in Periods \union {tick_rate}, Callback(n)
  PROVE  DueParts'
<1> USE HalAssumption
<1>1. /\ isr = "callback" /\ isr' = "visit" /\ cursor' = next
      /\ UNCHANGED <<mainVars, nticks, list, running>>
  BY DEF Callback, Resume
<1>2. OneRing' /\ pc' # "insert"
  BY <1>1, StandsStill DEF DueParts, OneRing, Critical, mainVars
<1>3. RestSettled(next, {cursor})
  BY <1>1 DEF DueParts
<1>4. CASE cursor \notin running
  <2>1. \A a \in running :
          time'[a] = time[a] /\ rollover'[a] = rollover[a] /\ due'[a] = due[a]
    <3>1. running \subseteq Alarms
      BY DEF HalInv, TypeOK
    <3>2. /\ \/ UNCHANGED <<time, rollover>>
             \/ \E t, r : /\ time' = [time EXCEPT ![cursor] = t]
                          /\ rollover' = [rollover EXCEPT ![cursor] = r]
          /\ due' = [due EXCEPT ![cursor] = @]
      BY <1>4 DEF Callback
    <3> QED
      BY <1>4, <3>1, <3>2 DEF HalInv, TypeOK
  <2>2. (\A a \in running : Timed(a))'
    BY <1>1, <2>1 DEF DueParts, Timed, Over
  <2>3. RestSettled(cursor, {})'
    BY <1>1, <1>3, <1>4, <2>1 DEF RestSettled, Ahead, Settled
  <2> QED
    BY <1>1, <1>2, <2>2, <2>3 DEF DueParts
<1>5. CASE cursor \in running
  <2> DEFINE t == Later(time[cursor], n)
  <2>1. /\ rollover \in [Alarms -> BOOLEAN] /\ running \subseteq Alarms /\ nticks \in 0 .. TickMod - 1
        /\ time \in [Alarms -> 0 .. TickMod - 1] /\ due \in [Alarms -> 0 .. TickMod - 1]
    BY DEF HalInv, TypeOK
  <2>2. due[cursor] = 0 /\ ~rollover[cursor] /\ time[cursor] = nticks
    BY <1>1, <1>5, <2>1 DEF DueParts, Timed, Over
  <2>3. n \in 1 .. TickMod - 1 /\ n \in 0 .. TickMod - 1
    <3>1. tick_rate = TicksPerSec
      BY <1>5 DEF HalInv, Sections, RateKnown, Boot
    <3> QED
      BY <3>1
  <2>4. t = IF nticks + n < TickMod THEN nticks + n ELSE nticks + n - TickMod
    BY <2>1, <2>2, <2>3, LaterIs
  <2>5. /\ time' = [time EXCEPT ![cursor] = t] /\ due' = [due EXCEPT ![cursor] = n]
        /\ rollover' = [rollover EXCEPT ![cursor] = IF Rolled(t) THEN TRUE ELSE @]
    BY <1>5 DEF Callback
  <2> HIDE DEF t
  <2>6. /\ time'[cursor] = t /\ due'[cursor] = n /\ (rollover'[cursor] <=> t < nticks)
        /\ \A a \in running \ {cursor} : /\ time'[a] = time[a] /\ due'[a] = due[a]
                                         /\ rollover'[a] = rollover[a]
    BY <1>5, <2>1, <2>2, <2>5 DEF Rolled
  <2>7. (\A a \in running : Timed(a))'
    <3>1. ASSUME NEW a \in running PROVE Timed(a)'
      <4>1. CASE a = cursor
        BY <1>1, <2>1, <2>3, <2>4, <2>6, <4>1 DEF Timed, Over
      <4>2. CASE a # cursor
        BY <1>1, <2>6, <4>2 DEF DueParts, Timed, Over
      <4> QED
        BY <4>1, <4>2
    <3> QED
      BY <1>1, <3>1
  <2>8. \A a \in running : (a = cursor \/ Settled(a)) => Settled(a)'
    BY <1>1, <2>1, <2>3, <2>4, <2>6 DEF Settled
  <2>9. RestSettled(cursor, {})'
    BY <1>1, <1>3, <2>8 DEF RestSettled, Ahead
  <2> QED
    BY <1>1, <1>2, <2>7, <2>9 DEF DueParts
<1> QED
  BY <1>4, <1>5

\* A callback's last turn, and what it does to other alarms.
LEMMA DueCallbackStops ==
  ASSUME HalInv, DueParts, CallbackLast \/ \E a \in Alarms : CallbackStops(a)
  PROVE  DueParts'
<1> USE HalAssumption
<1>1. isr = "callback" /\ UNCHANGED <<mainVars, nticks>>
  BY DEF CallbackLast, CallbackStops
<1>2. pc' # "insert"
  BY <1>1, StandsStill DEF Critical, mainVars
<1>3. PICK n, c : n = next /\ c = cursor
  OBVIOUS
<1>4. RestSettled(n, {c})
  BY <1>1, <1>3 DEF DueParts
<1>5. ASSUME NEW a \in Alarms, list.next[a] # Null, Stopped(a)
      PROVE  /\ OneRing' /\ (\A x \in running : Timed(x))' /\ RestSettled(n, {c})'
             /\ running' = running \ {a}
             /\ \A x \in running \ {a} : due'[x] = due[x] /\ rollover'[x] = rollover[x]
  <2>1. /\ running' = running \ {a}
        /\ \A x \in running \ {a} : time'[x] = time[x] /\ rollover'[x] = rollover[x] /\ due'[x] = due[x]
    BY <1>5, StoppedIs
  <2>2. OneRing'
    BY <1>5, StopKeepsRing DEF DueParts
  <2>3. RestSettled(n, {c})'
    BY <1>1, <1>4, <1>5, StopKeepsRest
  <2>4. (\A x \in running : Timed(x))'
    BY <1>1, <2>1 DEF DueParts, Timed, Over
  <2> QED
    BY <2>1, <2>2, <2>3, <2>4
<1>6. CASE CallbackLast
  <2>1. Stopped(c) /\ c \in Alarms /\ list.next[c] # Null /\ cursor' = n /\ isr' = "visit"
    BY <1>1, <1>3, <1>6 DEF CallbackLast, Resume, HalInv, TypeOK, Walks
  <2>2. OneRing' /\ (\A x \in running : Timed(x))' /\ RestSettled(n, {c})' /\ c \notin running'
    BY <1>5, <2>1
  <2>3. RestSettled(n, {})'
    BY <2>2 DEF RestSettled
  <2>4. RestSettled(cursor, {})'
    BY <2>1, <2>3 DEF RestSettled, Ahead
  <2> QED
    BY <1>2, <2>1, <2>2, <2>4 DEF DueParts
<1>7. CASE \E a \in Alarms : CallbackStops(a)
  <2>1. PICK a \in Alarms : CallbackStops(a)
    BY <1>7
  <2>2. a \in running /\ Stopped(a) /\ UNCHANGED tickVars
    BY <2>1 DEF CallbackStops
  <2>3. list.next[a] # Null
    BY <2>2 DEF HalInv, TypeOK, ListHoldsRunning, Linked
  <2>4. /\ OneRing' /\ (\A x \in running : Timed(x))' /\ RestSettled(n, {c})'
        /\ running' = running \ {a}
        /\ \A x \in running \ {a} : due'[x] = due[x] /\ rollover'[x] = rollover[x]
    BY <1>5, <2>2, <2>3
  <2>5. RestSettled(next, {cursor})'
    BY <1>3, <2>2, <2>4 DEF RestSettled, Ahead, tickVars
  <2>6. cursor' \in running' => due'[cursor'] = 0 /\ ~rollover'[cursor']
    BY <1>1, <2>2, <2>4 DEF DueParts, tickVars
  <2> QED
    BY <1>1, <1>2, <2>2, <2>4, <2>5, <2>6 DEF DueParts, tickVars
<1> QED
  BY <1>6, <1>7

LEMMA DueInit == Init => DueParts
BY DEF Init, DueParts, OneRing

LEMMA DueStep == HalInv /\ DueParts /\ [Next]_vars => DueParts'
<1> SUFFICES ASSUME HalInv, DueParts, [Next]_vars PROVE DueParts'
  OBVIOUS
<1>1. CASE Startup \/ Request \/ WaitEnds \/ Unmask \/ TimerExpires \/ UartRaises
  <2>1. UNCHANGED <<alarmVars, nticks, tickVars>>
    BY <1>1 DEF Startup, IrqInit, TimerInit, TimerRegister, UartInit, UartAlarm, Request, AlarmStart,
                AlarmStop, Wait, Settle, WaitFor, WaitEnds, Unmask, TimerExpires, UartRaises, irqVars
  <2>2. pc' = "insert" => pc = "insert" /\ UNCHANGED alarm
    BY <1>1 DEF Startup, IrqInit, TimerInit, TimerRegister, UartInit, UartAlarm, Request, AlarmStart,
                AlarmStop, Wait, Settle, WaitFor, WaitEnds, Unmask, TimerExpires, UartRaises, mainVars
  <2> QED
    BY <2>1, <2>2, DueUntouched
<1>2. CASE Interrupt \/ DispatchUart \/ DispatchEnd
  <2>1. /\ UNCHANGED <<alarmVars, nticks, mainVars>> /\ isr \in {"off", "dispatch"}
        /\ isr' \in {"off", "dispatch"}
    BY <1>2 DEF Interrupt, DispatchUart, DispatchEnd, tickVars
  <2> QED
    BY <2>1, DueOutside DEF DueParts
<1>3. CASE VisitEnd
  <2>1. UNCHANGED <<alarmVars, nticks, mainVars>> /\ isr = "visit" /\ isr' = "dispatch" /\ cursor = Head
    BY <1>3 DEF VisitEnd
  <2>2. RestSettled(cursor, {}) /\ {} \in SUBSET running /\ Ahead(cursor, {})
    BY <2>1 DEF DueParts, Ahead
  <2>3. \A a \in running \ ({} \union {}) : Settled(a)
    BY <2>2, Zenon DEF RestSettled
  <2>4. \A a \in running : Settled(a)
    BY <2>3
  <2> QED
    BY <2>1, <2>4, DueOutside
<1>4. CASE StartTime \/ StartInsert \/ StopRemove
  BY <1>4, DueSection
<1>5. CASE DispatchTimer \/ Visit
  BY <1>5, DueTick, DueVisit
<1>6. CASE \E n \in Periods \union {tick_rate} : Callback(n)
  BY <1>6, DueCallback
<1>7. CASE CallbackLast \/ \E a \in Alarms : CallbackStops(a)
  BY <1>7, DueCallbackStops
<1>8. CASE UNCHANGED vars
  BY <1>8, DueUntouched DEF vars, mainVars
<1> QED
  BY <1>1, <1>2, <1>3, <1>4, <1>5, <1>6, <1>7, <1>8 DEF Next, Section, Isr

\* Alarms fire on the tick they are due at and on no other, across the wrap of the count,
\* whatever alarms callbacks stop.  (One that stops the alarm that follows its own keeps the
\* walk at that alarm: no further tick comes.)
THEOREM AlarmsFireWhenDue == Spec => []FiresWhenDue
<1>1. Init => HalInv /\ DueParts
  BY InvInit, DueInit
<1>2. HalInv /\ DueParts /\ [Next]_vars => (HalInv /\ DueParts)'
  BY InvStep, DueStep
<1>3. DueParts => FiresWhenDue
  BY DEF DueParts, FiresWhenDue, Settled
<1> QED
  BY <1>1, <1>2, <1>3, PTL DEF Spec
===============================================================================
