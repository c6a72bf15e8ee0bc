---------------------------------- MODULE Spi ----------------------------------
(***************************************************************************)
(* Access to the MAX3421E's registers: the accessors of MAX3421E.c, the    *)
(* polling loop of alt_avalon_spi_command under them, and the SPI core     *)
(* with its holding, shift and receive registers, which exchanges bytes    *)
(* with the chip at its own pace while the loop looks at its status.       *)
(*                                                                         *)
(* A byte is exchanged in one step.  Data bytes are numbered: the ones a   *)
(* write sends 1, 2, ... and the ones the chip supplies round a circle.    *)
(***************************************************************************)
EXTENDS Integers, Sequences

CONSTANTS Regs,         \* addresses of the MAX3421E's registers
          MaxBytes,     \* bound: longest access (255 in the code)
          Circle        \* length of the circle of supplied bytes

\* A register's number is in the upper five bits of its address.
Addresses == {8 * i : i \in 0 .. 31}

ASSUME SpiAssumption == Regs \subseteq Addresses /\ MaxBytes \in Nat \ {0} /\ Circle \in Nat \ {0}

VARIABLES
  pc, access,                   \* the call, and where it is
  write_data, write_zeros, read_ignore,         \* bytes still to send, to receive and ignore
  read_data, credits, status,   \* received so far; the status read last
  sso, primed, tx_holding,      \* SPI core
  transmitting, shift, rrdy, rx_holding, toe, roe,
  heard, supply, seen           \* chip: bytes since it was selected, next byte it supplies,
                                \* the access it saw last

loopVars == <<write_data, write_zeros, read_ignore, read_data, credits, status>>
txVars   == <<primed, tx_holding, toe>>
shiftVars == <<transmitting, shift, roe>>
chipVars == <<heard, supply, seen>>
vars == <<pc, access, loopVars, sso, txVars, shiftVars, rrdy, rx_holding, chipVars>>

None == [dir |-> "none"]
Numbered(n) == [i \in 1 .. n |-> i]

Init ==
  /\ pc = "idle" /\ access = None
  /\ write_data = <<>> /\ write_zeros = 0 /\ read_ignore = 0 /\ read_data = <<>>
  /\ credits = 0 /\ status = {}
  /\ sso = FALSE /\ primed = FALSE /\ tx_holding = 0
  /\ transmitting = FALSE /\ shift = 0 /\ rrdy = FALSE /\ rx_holding = 0
  /\ toe = FALSE /\ roe = FALSE
  /\ heard = <<>> /\ supply = 0 /\ seen = None
--------------------------------------------------------------------------------
(* The accessors. *)

\* The first byte holds register and direction, bit 1; the chip takes them apart again.
Command(dir, reg) == (IF dir = "write" THEN reg + 2 ELSE reg) % 256
Decoded(b) == [dir |-> IF (b \div 2) % 2 = 1 THEN "write" ELSE "read", reg |-> 8 * (b \div 8)]

FirstCredits2 == 2              \* mutant: two bytes under way
FirstCredits == 1
ZerosShort(n) == IF n > 0 THEN n - 1 ELSE 0     \* mutant: the last byte is not asked for
Zeros(n) == n
Ignored0(n) == 0                \* mutant: the answers to the bytes sent are data
Ignored(n) == n

\* alt_avalon_spi_command: the chip is selected, and stale data discarded.
Start(dir, reg, n, bytes, reads) ==
  /\ pc = "idle"
  /\ access' = [dir |-> dir, reg |-> reg, n |-> n]
  /\ write_data' = <<Command(dir, reg)>> \o bytes
  /\ write_zeros' = Zeros(reads) /\ read_ignore' = Ignored(1 + Len(bytes)) /\ read_data' = <<>>
  /\ credits' = FirstCredits /\ status' = {}
  /\ sso' = TRUE
  /\ pc' = "discard"
  /\ UNCHANGED <<txVars, shiftVars, rrdy, rx_holding, chipVars>>

MAXreg_wr(reg)      == Start("write", reg, 1, Numbered(1), 0)
MAXbytes_wr(reg, n) == Start("write", reg, n, Numbered(n), 0)
MAXreg_rd(reg)      == Start("read", reg, 1, <<>>, 1)
MAXbytes_rd(reg, n) == Start("read", reg, n, <<>>, n)

Discard ==
  /\ pc = "discard"
  /\ rrdy' = FALSE
  /\ pc' = "poll"
  /\ UNCHANGED <<access, loopVars, sso, txVars, shiftVars, rx_holding, chipVars>>

TRDY == ~(transmitting /\ primed)
TMT == ~transmitting /\ ~primed
Status == {s \in {"TRDY", "RRDY"} : (s = "TRDY" /\ TRDY) \/ (s = "RRDY" /\ rrdy)}

CanSend(s) == "TRDY" \in s /\ credits > 0
\* The inner loop, until the status lets the outer one send or receive.
Poll ==
  /\ pc = "poll"
  /\ status' = Status
  /\ pc' = IF CanSend(Status) \/ rrdy THEN "send" ELSE "poll"
  /\ UNCHANGED <<access, write_data, write_zeros, read_ignore, read_data, credits>>
  /\ UNCHANGED <<sso, txVars, shiftVars, rrdy, rx_holding, chipVars>>

\* A byte written when there is no room is lost.
Transmit(b) ==
  IF TRDY THEN tx_holding' = b /\ primed' = TRUE /\ UNCHANGED toe
  ELSE toe' = TRUE /\ UNCHANGED <<primed, tx_holding>>

Send ==
  /\ pc = "send"
  /\ IF ~CanSend(status) THEN UNCHANGED <<write_data, write_zeros, credits, txVars>>
     ELSE IF write_data # <<>>
     THEN /\ Transmit(Head(write_data)) /\ write_data' = Tail(write_data)
          /\ credits' = credits - 1 /\ UNCHANGED write_zeros
     ELSE IF write_zeros > 0
     THEN /\ Transmit(0) /\ write_zeros' = write_zeros - 1
          /\ credits' = credits - 1 /\ UNCHANGED write_data
     ELSE credits' = -1024 /\ UNCHANGED <<write_data, write_zeros, txVars>>
  /\ pc' = IF "RRDY" \in status THEN "receive" ELSE "poll"
  /\ UNCHANGED <<access, read_ignore, read_data, status>>
  /\ UNCHANGED <<sso, shiftVars, rrdy, rx_holding, chipVars>>

ReadBytes == IF access.dir = "read" THEN access.n ELSE 0

Receive ==
  /\ pc = "receive"
  /\ rrdy' = FALSE
  /\ IF read_ignore > 0 THEN read_ignore' = read_ignore - 1 /\ UNCHANGED read_data
     ELSE read_data' = Append(read_data, rx_holding) /\ UNCHANGED read_ignore
  /\ credits' = credits + 1
  /\ pc' = IF read_ignore' = 0 /\ Len(read_data') = ReadBytes THEN "finish" ELSE "poll"
  /\ UNCHANGED <<access, write_data, write_zeros, status>>
  /\ UNCHANGED <<sso, txVars, shiftVars, rx_holding, chipVars>>

\* The access that the chip has seen when it is deselected.
Seen == [dir |-> Decoded(Head(heard)).dir, reg |-> Decoded(Head(heard)).reg, data |-> Tail(heard)]

\* The last byte has gone and the chip is deselected.
Finish ==
  /\ pc = "finish" /\ TMT
  /\ sso' = FALSE
  /\ IF heard = <<>> THEN UNCHANGED <<heard, seen>> ELSE heard' = <<>> /\ seen' = Seen
  /\ pc' = "return"
  /\ UNCHANGED <<access, loopVars, txVars, shiftVars, rrdy, rx_holding, supply>>

Return ==
  /\ pc = "return" /\ pc' = "idle" /\ access' = None
  /\ write_data' = <<>> /\ write_zeros' = 0 /\ read_ignore' = 0 /\ read_data' = <<>>
  /\ credits' = 0 /\ status' = {} /\ seen' = None
  /\ UNCHANGED <<sso, txVars, shiftVars, rrdy, rx_holding, heard, supply>>

Call == \E reg \in Regs : \/ MAXreg_wr(reg) \/ MAXreg_rd(reg)
                          \/ \E n \in 0 .. MaxBytes : MAXbytes_wr(reg, n) \/ MAXbytes_rd(reg, n)
Loop == Discard \/ Poll \/ Send \/ Receive \/ Finish \/ Return
--------------------------------------------------------------------------------
(* The core, and the chip. *)

Load ==
  /\ primed /\ ~transmitting
  /\ shift' = tx_holding /\ transmitting' = TRUE /\ primed' = FALSE
  /\ UNCHANGED <<pc, access, loopVars, sso, tx_holding, toe, rrdy, rx_holding, roe, chipVars>>

\* The chip answers a command with its status, and what follows with the register.
Reading == heard # <<>> /\ Decoded(Head(heard)).dir = "read"
Answered == IF heard = <<>> THEN -1 ELSE IF Reading THEN supply ELSE -2
Heard == IF Reading THEN supply ELSE shift

Exchange ==
  /\ transmitting
  /\ transmitting' = FALSE
  /\ rx_holding' = Answered /\ rrdy' = TRUE /\ roe' = (roe \/ rrdy)
  /\ heard' = IF sso THEN Append(heard, Heard) ELSE <<>>
  /\ supply' = IF Reading THEN (supply + 1) % Circle ELSE supply
  /\ UNCHANGED <<pc, access, loopVars, sso, txVars, shift, seen>>

Core == Load \/ Exchange

Next == Call \/ Loop \/ Core
Spec == Init /\ [][Next]_vars

\* Program and core run on clocks of their own.
FairSpec == Spec /\ WF_vars(Loop) /\ WF_vars(Core)
--------------------------------------------------------------------------------
Answers == -2 .. Circle - 1

TypeOK ==
  /\ pc \in {"idle", "discard", "poll", "send", "receive", "finish", "return"}
  /\ access \in {None} \union [dir : {"read", "write"}, reg : Regs, n : 0 .. MaxBytes]
  /\ Len(write_data) <= MaxBytes + 1
  /\ write_zeros \in 0 .. MaxBytes /\ read_ignore \in 0 .. MaxBytes + 1
  /\ read_data \in Seq(Answers) /\ Len(read_data) <= MaxBytes
  /\ credits \in 0 .. 1 /\ status \subseteq {"TRDY", "RRDY"}
  /\ sso \in BOOLEAN /\ primed \in BOOLEAN /\ transmitting \in BOOLEAN
  /\ rrdy \in BOOLEAN /\ rx_holding \in Answers \union {0}
  /\ toe \in BOOLEAN /\ roe \in BOOLEAN
  /\ heard # <<>> => Decoded(Head(heard)).reg \in Regs
  /\ supply \in 0 .. Circle - 1

\* No byte is written to a core that has no room, and no byte arrives over one not yet read,
\* however long the loop takes between its looks at the status.
NothingLost == ~toe /\ ~roe

\* When an accessor returns the chip has seen the register, the direction and all bytes of
\* the write and no more, or has supplied the bytes that the read returns, in their order and
\* no more: what a read takes from a FIFO is not lost.
AccessIsExact ==
  pc = "return" =>
    /\ seen = [dir |-> access.dir, reg |-> access.reg,
               data |-> IF access.dir = "read" THEN read_data ELSE Numbered(access.n)]
    /\ Len(read_data) = ReadBytes

\* Every access comes to its end.
AccessEnds == pc = "discard" ~> pc = "idle"
================================================================================
