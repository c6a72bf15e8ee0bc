------------------------------- MODULE JtagUart -------------------------------
(***************************************************************************)
(* The interrupt-driven driver of the JTAG UART: write, read, close and    *)
(* the timeout ioctl as the program calls them, the interrupt routine and  *)
(* the alarm that watches for the host, and the core's two FIFOs, which a  *)
(* host empties and fills whenever it likes.                               *)
(*                                                                         *)
(* The program runs when no interrupt routine does; the routine runs to    *)
(* its end, with the host at work between any two of its steps.            *)
(***************************************************************************)
EXTENDS Integers, Sequences

CONSTANTS BufLen,       \* ALTERA_AVALON_JTAG_UART_BUF_LEN (2048)
          Depth,        \* depth of the core's FIFOs (64)
          Threshold,    \* it asks for characters when it holds no more (8)
          Chars,        \* characters are numbered round a circle this long
          MaxCount,     \* bound: longest request of a write or read
          IntMax,       \* INT_MAX
          Default,      \* ALTERA_AVALON_JTAG_UART_DEFAULT_TIMEOUT (10)
          Timeouts,     \* arguments the program gives TIOCSTIMEOUT
          Programs      \* programs, each the set of calls it makes

ASSUME UartAssumption ==
  /\ BufLen \in Nat \ {0, 1} /\ Depth \in Nat \ {0} /\ Threshold \in 0 .. Depth - 1
  /\ Chars \in Nat \ {0} /\ BufLen - 1 <= Chars /\ MaxCount \in Nat
  /\ IntMax \in Nat /\ Default \in 2 .. IntMax - 1 /\ Timeouts \subseteq Nat
  /\ Programs \subseteq SUBSET {"write", "read", "close", "ioctl"}

VARIABLES
  program,                      \* the one that runs
  pc,                           \* "idle", or where the program is in a call
  count, moved, nonblock,       \* count or space left; ptr past its start; O_NONBLOCK
  seen,                         \* write's out or read's in: the index read last
  ret,                          \* what the last call returned
  timeout, irq_enable, host_inactive,           \* altera_avalon_jtag_uart_state
  rx_in, rx_out, tx_in, tx_out, rx_buf, tx_buf,
  txfifo, rxfifo, ac,           \* core: FIFOs, and activity since AC was cleared
  isr, control, space, avail,   \* where the routine is; its copies of the registers
  put, got, sent, read          \* next character written, last taken by the host;
                                \* next sent by the host, last read by the program

callVars == <<count, moved, nonblock, seen, ret>>
txVars   == <<tx_in, tx_out, tx_buf, txfifo, put, got>>
rxVars   == <<rx_in, rx_out, rx_buf, rxfifo, sent, read>>
hostVars == <<program, timeout, host_inactive, ac>>
isrVars  == <<isr, control, space, avail>>
vars == <<pc, callVars, txVars, rxVars, irq_enable, hostVars, isrVars>>

After(i, n) == (i + n) % BufLen
Smaller(m, n) == IF m < n THEN m ELSE n

\* Initialisation done: receiving enabled, routine registered, alarm running.
Init ==
  /\ program \in Programs
  /\ pc = "idle" /\ count = 0 /\ moved = FALSE /\ nonblock = FALSE /\ seen = 0 /\ ret = "none"
  /\ timeout = Default /\ host_inactive = 0 /\ ac = FALSE
  /\ irq_enable = {"RE"}
  /\ rx_in = 0 /\ rx_out = 0 /\ tx_in = 0 /\ tx_out = 0
  /\ rx_buf = [i \in 0 .. BufLen - 1 |-> 0] /\ tx_buf = [i \in 0 .. BufLen - 1 |-> 0]
  /\ txfifo = <<>> /\ rxfifo = <<>>
  /\ isr = "off" /\ control = {} /\ space = 0 /\ avail = FALSE
  /\ put = 0 /\ got = <<>> /\ sent = 0 /\ read = <<>>

ConnectedAlways == TRUE         \* mutant: no timeout of the host
Connected == host_inactive < timeout
-----------------------------------------------------------------------------
(* The program's calls. *)

Call(name, entry, n, nb) ==
  /\ name \in program /\ pc = "idle" /\ isr = "off"
  /\ pc' = entry
  /\ count' = n /\ moved' = FALSE /\ nonblock' = nb /\ seen' = 0 /\ ret' = "none"
  /\ UNCHANGED <<txVars, rxVars, irq_enable, hostVars, isrVars>>

Write == \E n \in 0 .. MaxCount, nb \in BOOLEAN : Call("write", "wcopy", n, nb)
Read  == \E n \in 1 .. MaxCount, nb \in BOOLEAN : Call("read", "rcopy", n, nb)
Close == \E nb \in BOOLEAN : Call("close", "close", 0, nb)

Stay(p) == pc' = p /\ UNCHANGED <<count, moved, nonblock, ret>>
\* A call ends, and its local variables with it.
Return(code) ==
  pc' = "idle" /\ ret' = code /\ count' = 0 /\ moved' = FALSE /\ nonblock' = FALSE /\ seen' = 0
Moved == IF moved THEN "count" ELSE IF nonblock THEN "EWOULDBLOCK" ELSE "EIO"

\* TIOCSTIMEOUT.
SetTimeout ==
  /\ "ioctl" \in program /\ pc = "idle" /\ isr = "off" /\ timeout # IntMax
  /\ \E t \in Timeouts : timeout' = IF t >= 2 /\ t < IntMax THEN t ELSE IntMax - 1
  /\ UNCHANGED <<pc, callVars, txVars, rxVars, irq_enable, program, host_inactive, ac, isrVars>>

RoomToTheEnd(in, out) ==        \* mutant: no gap is left when out is 0
  IF in < out THEN out - 1 - in ELSE BufLen - in
\* What fits into the ring in one piece.
Room(in, out) ==
  IF in < out THEN out - 1 - in
  ELSE IF out > 0 THEN BufLen - in ELSE BufLen - 1 - in

WriteLook ==
  /\ pc = "wcopy" /\ isr = "off"
  /\ seen' = IF count > 0 THEN tx_out ELSE seen
  /\ pc' = IF count > 0 /\ Room(tx_in, tx_out) > 0 THEN "wput" ELSE "kick"
  /\ UNCHANGED <<count, moved, nonblock, ret, txVars, rxVars, irq_enable, hostVars, isrVars>>

WriteCopy ==
  /\ pc = "wput" /\ isr = "off"
  /\ LET n == Smaller(Room(tx_in, seen), count) IN
     /\ tx_buf' = [i \in 0 .. BufLen - 1 |->
                     IF i \in tx_in .. tx_in + n - 1 THEN (put + i - tx_in) % Chars ELSE tx_buf[i]]
     /\ tx_in' = After(tx_in, n)
     /\ put' = (put + n) % Chars
     /\ count' = count - n
  /\ moved' = TRUE /\ pc' = "wcopy"
  /\ UNCHANGED <<nonblock, seen, ret, tx_out, txfifo, got, rxVars, irq_enable, hostVars, isrVars>>

\* The transmit interrupt is enabled, with interrupts off.
WriteKick ==
  /\ pc = "kick" /\ isr = "off"
  /\ irq_enable' = irq_enable \union {"WE"}
  /\ IF count > 0 /\ ~nonblock THEN Stay("wwait") /\ UNCHANGED seen ELSE Return(Moved)
  /\ UNCHANGED <<txVars, rxVars, hostVars, isrVars>>

WriteWait ==
  /\ pc = "wwait" /\ isr = "off"
  /\ seen # tx_out \/ ~Connected
  /\ pc' = "wtest"
  /\ UNCHANGED <<callVars, txVars, rxVars, irq_enable, hostVars, isrVars>>

WriteTest ==
  /\ pc = "wtest" /\ isr = "off"
  /\ IF host_inactive = 0 THEN Stay("wcopy") /\ UNCHANGED seen ELSE Return(Moved)
  /\ UNCHANGED <<txVars, rxVars, irq_enable, hostVars, isrVars>>

\* What can be read in one piece.
Held(in, out) == IF in >= out THEN in - out ELSE BufLen - out

ReadLook ==
  /\ pc = "rcopy" /\ isr = "off"
  /\ LET next == IF Held(rx_in, rx_out) > 0 THEN "rget" ELSE IF moved THEN "renable" ELSE "rwait"
     IN IF next = "rwait" /\ nonblock THEN Return(Moved) ELSE Stay(next) /\ seen' = rx_in
  /\ UNCHANGED <<txVars, rxVars, irq_enable, hostVars, isrVars>>

ReadCopy ==
  /\ pc = "rget" /\ isr = "off"
  /\ LET n == Smaller(Held(seen, rx_out), count) IN
     /\ read' = [i \in 1 .. n |-> rx_buf[rx_out + i - 1]]
     /\ rx_out' = After(rx_out, n)
     /\ count' = count - n
     /\ pc' = IF n < count THEN "rcopy" ELSE "renable"
  /\ moved' = TRUE
  /\ UNCHANGED <<nonblock, seen, ret, txVars, rx_in, rx_buf, rxfifo, sent>>
  /\ UNCHANGED <<irq_enable, hostVars, isrVars>>

ReadWait ==
  /\ pc = "rwait" /\ isr = "off"
  /\ seen # rx_in \/ ~Connected
  /\ pc' = "rtest"
  /\ UNCHANGED <<callVars, txVars, rxVars, irq_enable, hostVars, isrVars>>

ReadTest ==
  /\ pc = "rtest" /\ isr = "off"
  /\ IF seen # rx_in THEN Stay("rcopy") /\ UNCHANGED seen ELSE Return(Moved)
  /\ UNCHANGED <<txVars, rxVars, irq_enable, hostVars, isrVars>>

EnableNone == irq_enable        \* mutant: a read leaves receiving as it is
EnableReceive == irq_enable \union {"RE"}

ReadEnable ==
  /\ pc = "renable" /\ isr = "off"
  /\ irq_enable' = EnableReceive
  /\ Return(Moved)
  /\ UNCHANGED <<txVars, rxVars, hostVars, isrVars>>

CloseEnd ==
  /\ pc = "close" /\ isr = "off"
  /\ IF tx_out = tx_in \/ ~Connected THEN Return("0") ELSE nonblock /\ Return("EWOULDBLOCK")
  /\ UNCHANGED <<txVars, rxVars, irq_enable, hostVars, isrVars>>

Calls == Write \/ Read \/ Close \/ SetTimeout
Program == \/ WriteLook \/ WriteCopy \/ WriteKick \/ WriteWait \/ WriteTest
           \/ ReadLook \/ ReadCopy \/ ReadWait \/ ReadTest \/ ReadEnable \/ CloseEnd
-----------------------------------------------------------------------------
(* The interrupt routine. *)

\* RI and WI of the control register.
Raised ==
  {r \in {"RI", "WI"} : \/ r = "RI" /\ "RE" \in irq_enable /\ rxfifo # <<>>
                        \/ r = "WI" /\ "WE" \in irq_enable /\ Len(txfifo) <= Threshold}

\* The head of the loop: the control register is read.
IsrControl ==
  /\ isr = "loop" \/ (isr = "off" /\ Raised # {})
  /\ control' = Raised
  /\ space' = IF "WI" \in Raised THEN Depth - Len(txfifo) ELSE 0
  /\ avail' = ("RI" \in Raised)
  /\ isr' = CASE Raised = {} -> "off" [] "RI" \in Raised -> "rx" [] OTHER -> "tx"
  /\ UNCHANGED <<pc, callVars, txVars, rxVars, irq_enable, hostVars>>

FullNever == rx_in = BufLen     \* mutant: no test for a full ring
Full == After(rx_in, 1) = rx_out

AfterReceive == IF "WI" \in control THEN "tx" ELSE "loop"

IsrReceive ==
  /\ isr = "rx" /\ ~Full
  /\ IF rxfifo = <<>>
     THEN avail' = FALSE /\ isr' = AfterReceive /\ UNCHANGED <<rx_in, rx_buf, rxfifo>>
     ELSE /\ rx_buf' = [rx_buf EXCEPT ![rx_in] = Head(rxfifo)]
          /\ rx_in' = After(rx_in, 1)
          /\ rxfifo' = Tail(rxfifo)
          /\ avail' = (Tail(rxfifo) # <<>>)
          /\ UNCHANGED isr
  /\ UNCHANGED <<pc, callVars, txVars, rx_out, sent, read, irq_enable, hostVars, control, space>>

\* The ring is full: if the FIFO held more at the last look, receiving is turned off.
IsrReceiveFull ==
  /\ isr = "rx" /\ Full
  /\ irq_enable' = IF avail THEN irq_enable \ {"RE"} ELSE irq_enable
  /\ isr' = AfterReceive
  /\ UNCHANGED <<pc, callVars, txVars, rxVars, hostVars, control, space, avail>>

\* A character written to a full FIFO is lost.
IsrTransmit ==
  /\ isr = "tx" /\ space > 0 /\ tx_out # tx_in
  /\ txfifo' = IF Len(txfifo) < Depth THEN Append(txfifo, tx_buf[tx_out]) ELSE txfifo
  /\ tx_out' = After(tx_out, 1)
  /\ space' = space - 1
  /\ UNCHANGED <<pc, callVars, tx_in, tx_buf, put, got, rxVars, irq_enable, hostVars>>
  /\ UNCHANGED <<isr, control, avail>>

NothingLeftAlways == TRUE       \* mutant: also when it was the FIFO that ran out
NothingLeft == space > 0

\* Nothing left to send turns the transmit interrupt off.
IsrTransmitEnd ==
  /\ isr = "tx" /\ (space = 0 \/ tx_out = tx_in)
  /\ irq_enable' = IF NothingLeft THEN irq_enable \ {"WE"} ELSE irq_enable
  /\ isr' = "loop"
  /\ UNCHANGED <<pc, callVars, txVars, rxVars, hostVars, control, space, avail>>

Isr == IsrControl \/ IsrReceive \/ IsrReceiveFull \/ IsrTransmit \/ IsrTransmitEnd

Counted == IF host_inactive < IntMax - 2 THEN host_inactive + 1 ELSE host_inactive

\* The alarm of every second, inside the timer's interrupt.
Alarm ==
  /\ isr = "off"
  /\ IF ac THEN isr' = "alarm" /\ UNCHANGED host_inactive
     ELSE host_inactive' = Counted /\ UNCHANGED isr
  /\ UNCHANGED <<pc, callVars, txVars, rxVars, irq_enable, program, timeout, ac, control, space, avail>>

\* It clears AC, and any activity since it read AC with it.
AlarmClear ==
  /\ isr = "alarm"
  /\ isr' = "off" /\ ac' = FALSE /\ host_inactive' = 0
  /\ UNCHANGED <<pc, callVars, txVars, rxVars, irq_enable, program, timeout, control, space, avail>>
-----------------------------------------------------------------------------
(* The host, at the other end of the JTAG cable. *)

HostTake ==
  /\ txfifo # <<>>
  /\ got' = <<Head(txfifo)>> /\ txfifo' = Tail(txfifo)
  /\ ac' = TRUE
  /\ UNCHANGED <<pc, callVars, tx_in, tx_out, tx_buf, put, rxVars, irq_enable>>
  /\ UNCHANGED <<program, timeout, host_inactive, isrVars>>

HostSend ==
  /\ "read" \in program /\ Len(rxfifo) < Depth
  /\ rxfifo' = Append(rxfifo, sent) /\ sent' = (sent + 1) % Chars
  /\ ac' = TRUE
  /\ UNCHANGED <<pc, callVars, txVars, rx_in, rx_out, rx_buf, read, irq_enable>>
  /\ UNCHANGED <<program, timeout, host_inactive, isrVars>>

\* A host that asks and finds nothing.
HostPoll ==
  /\ txfifo = <<>> /\ ac' = TRUE
  /\ UNCHANGED <<pc, callVars, txVars, rxVars, irq_enable, program, timeout, host_inactive, isrVars>>

Next == Calls \/ Program \/ Isr \/ Alarm \/ AlarmClear \/ HostTake \/ HostSend \/ HostPoll

Spec == Init /\ [][Next]_vars

\* Interrupt routines go on; the program and the alarm get their turns between them.
\* The host promises nothing.
FairSpec == Spec /\ SF_vars(Isr) /\ WF_vars(AlarmClear) /\ SF_vars(Program) /\ SF_vars(Alarm)
-----------------------------------------------------------------------------
TypeOK ==
  /\ program \in Programs
  /\ pc \in {"idle", "wcopy", "wput", "kick", "wwait", "wtest",
             "rcopy", "rget", "rwait", "rtest", "renable", "close"}
  /\ count \in 0 .. MaxCount /\ moved \in BOOLEAN /\ nonblock \in BOOLEAN
  /\ seen \in 0 .. BufLen - 1
  /\ ret \in {"none", "0", "count", "EWOULDBLOCK", "EIO"}
  /\ timeout \in 2 .. IntMax - 1 /\ host_inactive \in 0 .. IntMax - 2
  /\ irq_enable \subseteq {"RE", "WE"}
  /\ {rx_in, rx_out, tx_in, tx_out} \subseteq 0 .. BufLen - 1
  /\ rx_buf \in [0 .. BufLen - 1 -> 0 .. Chars - 1]
  /\ tx_buf \in [0 .. BufLen - 1 -> 0 .. Chars - 1]
  /\ txfifo \in Seq(0 .. Chars - 1) /\ Len(txfifo) <= Depth
  /\ rxfifo \in Seq(0 .. Chars - 1) /\ Len(rxfifo) <= Depth
  /\ ac \in BOOLEAN
  /\ isr \in {"off", "loop", "rx", "tx", "alarm"}
  /\ control \subseteq {"RI", "WI"} /\ space \in 0 .. Depth /\ avail \in BOOLEAN
  /\ put \in 0 .. Chars - 1 /\ sent \in 0 .. Chars - 1
  /\ got \in Seq(0 .. Chars - 1) /\ read \in Seq(0 .. Chars - 1)

InRing(buf, in, out) == [i \in 1 .. (in - out) % BufLen |-> buf[After(out, i - 1)]]

Tx == INSTANCE ByteStream WITH next <- put, got <- got,
        stream <- txfifo \o InRing(tx_buf, tx_in, tx_out)
Rx == INSTANCE ByteStream WITH next <- sent, got <- read,
        stream <- InRing(rx_buf, rx_in, rx_out) \o rxfifo

\* What write accepted reaches the host in order, once each, across the ring's wrap and
\* whatever the interrupt routine does between write's look at tx_out and its copy.
OutputKept == Tx!Spec

\* What the host sent reaches read in order, once each, also when the ring is full.
InputKept == Rx!Spec

\* Characters in the transmit ring never wait with the transmit interrupt off: either it is
\* on, or the program is on its way to turning it on.
PendingMeansEnabled ==
  tx_in # tx_out => "WE" \in irq_enable \/ pc \in {"wcopy", "wput", "kick"}

\* Receiving is off only while the receive ring is full, or until the read that makes room
\* returns; so no reader waits on an empty ring for an interrupt that cannot come.
ReceiveOffMeansFull ==
  "RE" \notin irq_enable => \/ Full
                            \/ pc \in {"rcopy", "rget", "renable"} /\ moved

\* A write or close returns, whether the host takes the characters, goes away or comes back,
\* unless the program asked for the timeout that never comes.
WritesReturn ==
  pc \in {"wwait", "close"} /\ timeout # IntMax - 1 ~> pc = "idle"

\* A blocked read returns once the host has sent something, however full the ring has been.
ReadsReturn == pc = "rwait" /\ rxfifo # <<>> ~> pc = "idle"
===============================================================================
