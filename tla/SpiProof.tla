------------------------------- MODULE SpiProof -------------------------------
(***************************************************************************)
(* Every access to a register moves its bytes whole and in order, for any  *)
(* registers, any length of an access, and any relative speed of the       *)
(* polling loop, the core and the chip.                                    *)
(***************************************************************************)
EXTENDS Spi, SequenceTheorems, TLAPS

Reads == access.dir = "read"
\* The bytes an accessor hands to the loop.
Bytes == <<Command(access.dir, access.reg)>> \o (IF Reads THEN <<>> ELSE Numbered(access.n))

\* A byte is under way from the write of the transmit register to its exchange; what
\* has gone out are the bytes the chip has heard and that one.
UnderWay == primed \/ transmitting
InFlight == IF primed THEN tx_holding ELSE shift
Out == IF UnderWay THEN Append(heard, InFlight) ELSE heard

Running == pc \in {"discard", "poll", "send", "receive", "finish"}
Quiet == ~UnderWay /\ ~rrdy
Done == read_ignore = 0 /\ Len(read_data) = ReadBytes

SpiTypes ==
  /\ pc \in {"idle", "discard", "poll", "send", "receive", "finish", "return"}
  /\ pc = "idle" => access = None
  /\ pc # "idle" => access \in [dir : {"read", "write"}, reg : Regs, n : 0 .. MaxBytes]
  /\ write_data \in Seq(Int) /\ heard \in Seq(Int) /\ read_data \in Seq(Answers)
  /\ tx_holding \in Int /\ shift \in Int /\ rx_holding \in Answers
  /\ write_zeros \in 0 .. MaxBytes /\ read_ignore \in 0 .. MaxBytes + 1
  /\ status \subseteq {"TRDY", "RRDY"}
  /\ sso \in BOOLEAN /\ primed \in BOOLEAN /\ transmitting \in BOOLEAN /\ rrdy \in BOOLEAN
  /\ supply \in 0 .. Circle - 1

\* The one credit: the loop holds it, or one byte is under way, or its answer waits.
Credit ==
  /\ toe = FALSE /\ roe = FALSE
  /\ sso <=> Running
  /\ ~Running => Quiet /\ heard = <<>>
  /\ pc = "idle" => credits = 0 /\ write_data = <<>> /\ read_data = <<>>
  /\ Running => /\ credits \in {0, 1}
                /\ credits = 1 => Quiet
                /\ credits = 0 => (UnderWay <=> ~rrdy) /\ ~(primed /\ transmitting)
  /\ pc = "return" => credits = 1 /\ write_data = <<>>
  /\ pc = "discard" => credits = 1 /\ heard = <<>> /\ read_ignore > 0
  /\ pc = "receive" => rrdy
  /\ pc = "send" /\ "RRDY" \in status => rrdy
  /\ pc \in {"poll", "send"} => ~Done
  /\ pc = "finish" => Done /\ credits = 1

\* The bytes of the caller are being sent, and their answers ignored.
Sending ==
  /\ Out \o write_data = Bytes
  /\ write_zeros = ReadBytes /\ read_data = <<>>
  /\ read_ignore + Len(heard) - (IF rrdy THEN 1 ELSE 0) = Len(Bytes)
  /\ heard = <<>> => ~rrdy
  /\ read_ignore = 0 => ~Reads

\* The bytes that the chip supplies are being received, one for every zero sent.
Supplied ==
  /\ Reads /\ write_data = <<>> /\ read_ignore = 0
  /\ heard # <<>> /\ Head(heard) = Command(access.dir, access.reg)
  /\ Tail(heard) = IF rrdy THEN Append(read_data, rx_holding) ELSE read_data
  /\ write_zeros + Len(heard) + (IF UnderWay THEN 1 ELSE 0) = access.n + 1

SpiInv ==
  /\ SpiTypes
  /\ Credit
  /\ Running => Sending \/ Supplied
  /\ AccessIsExact
--------------------------------------------------------------------------------
(* Commands and sequences. *)

\* The chip takes a command apart into the direction and the register it was built from.
LEMMA CommandDecodes ==
  ASSUME NEW reg \in Addresses, NEW dir \in {"read", "write"}
  PROVE  /\ Command(dir, reg) \in Int
         /\ Decoded(Command(dir, reg)).dir = dir
         /\ Decoded(Command(dir, reg)).reg = reg
<1>1. PICK i \in 0 .. 31 : reg = 8 * i
  BY DEF Addresses
<1>2. CASE dir = "write"
  <2>1. Command(dir, reg) = 8 * i + 2
    BY <1>1, <1>2 DEF Command
  <2>2. (8 * i + 2) \div 2 = 4 * i + 1 /\ (4 * i + 1) % 2 = 1 /\ (8 * i + 2) \div 8 = i
    BY <1>1
  <2> QED BY <1>1, <1>2, <2>1, <2>2 DEF Decoded
<1>3. CASE dir = "read"
  <2>1. Command(dir, reg) = 8 * i
    BY <1>1, <1>3 DEF Command
  <2>2. (8 * i) \div 2 = 4 * i /\ (4 * i) % 2 = 0 /\ (8 * i) \div 8 = i
    BY <1>1
  <2> QED BY <1>1, <1>3, <2>1, <2>2 DEF Decoded
<1> QED BY <1>2, <1>3

LEMMA Associative ==
  ASSUME NEW a \in Seq(Int), NEW b \in Seq(Int), NEW c \in Seq(Int)
  PROVE  (a \o b) \o c = a \o (b \o c)
BY ConcatAssociative, SMTT(30)

\* An element moves from the head of one sequence to the end of the one before it.
LEMMA HeadMoves ==
  ASSUME NEW s \in Seq(Int), NEW t \in Seq(Int), t # <<>>
  PROVE  /\ Head(t) \in Int /\ Tail(t) \in Seq(Int)
         /\ Append(s, Head(t)) \o Tail(t) = s \o t
<1>1. Head(t) \in Int /\ Tail(t) \in Seq(Int) /\ t = <<Head(t)>> \o Tail(t)
  BY HeadTailProperties
<1>2. PICK head, tail : head = <<Head(t)>> /\ tail = Tail(t)
  OBVIOUS
<1>3. head \in Seq(Int) /\ tail \in Seq(Int) /\ t = head \o tail
  BY <1>1, <1>2
<1>4. (s \o head) \o tail = s \o (head \o tail)
  BY <1>3, Associative, Zenon
<1>5. Append(s, Head(t)) = s \o head
  BY <1>1, <1>2, AppendIsConcat, Zenon
<1> QED BY <1>1, <1>2, <1>3, <1>4, <1>5, Zenon

\* A first element in front of a sequence.
LEMMA FirstThen ==
  ASSUME NEW b \in Int, NEW s \in Seq(Int)
  PROVE  /\ <<b>> \o s \in Seq(Int) /\ Len(<<b>> \o s) = 1 + Len(s)
         /\ Head(<<b>> \o s) = b /\ Tail(<<b>> \o s) = s /\ <<b>> \o s # <<>>
<1>1. <<b>> \in Seq(Int) /\ Len(<<b>>) = 1 /\ <<b>>[1] = b
  OBVIOUS
<1>2. PICK all : all = <<b>> \o s
  OBVIOUS
<1>3. /\ all \in Seq(Int) /\ Len(all) = 1 + Len(s)
      /\ \A i \in 1 .. 1 + Len(s) : all[i] = IF i <= 1 THEN <<b>>[i] ELSE s[i - 1]
  BY <1>1, <1>2, ConcatProperties
<1>4. Len(s) \in Nat /\ DOMAIN s = 1 .. Len(s)
  BY LenProperties
<1>5. all # <<>>
  BY <1>3, <1>4
<1>6. Head(all) = b
  BY <1>1, <1>3, <1>4
<1>7. Tail(all) = s
  <2>1. PICK tail : tail = Tail(all)
    OBVIOUS
  <2>2. /\ tail \in Seq(Int) /\ Len(tail) = Len(s)
        /\ \A i \in 1 .. Len(tail) : tail[i] = all[i + 1]
    BY <1>3, <1>4, <1>5, <2>1
  <2>3. ASSUME NEW i \in 1 .. Len(tail)
        PROVE  tail[i] = s[i]
    <3>1. i + 1 \in 1 .. 1 + Len(s) /\ ~(i + 1 <= 1) /\ (i + 1) - 1 = i
      BY <1>4, <2>2
    <3> QED BY <1>3, <2>2, <3>1, Zenon
  <2>4. tail = s
    BY <2>2, <2>3, SeqEqual, SMTT(30)
  <2> QED BY <2>1, <2>4
<1> QED BY <1>2, <1>3, <1>5, <1>6, <1>7, Zenon

LEMMA NumberedIs ==
  ASSUME NEW n \in Nat
  PROVE  Numbered(n) \in Seq(Int) /\ Len(Numbered(n)) = n
BY DEF Numbered

\* The bytes of an access begin with its command.
LEMMA BytesAre ==
  ASSUME access \in [dir : {"read", "write"}, reg : Regs, n : 0 .. MaxBytes]
  PROVE  /\ Bytes \in Seq(Int) /\ Bytes # <<>>
         /\ Len(Bytes) = 1 + (IF Reads THEN 0 ELSE access.n)
         /\ Head(Bytes) = Command(access.dir, access.reg)
         /\ Tail(Bytes) = IF Reads THEN <<>> ELSE Numbered(access.n)
<1>1. access.dir \in {"read", "write"} /\ access.reg \in Addresses /\ access.n \in Nat
  BY SpiAssumption
<1>2. Command(access.dir, access.reg) \in Int
  BY <1>1, CommandDecodes
<1>3. Numbered(access.n) \in Seq(Int) /\ Len(Numbered(access.n)) = access.n
  BY <1>1, NumberedIs
<1>4. <<>> \in Seq(Int) /\ Len(<<>>) = 0
  OBVIOUS
<1>5. CASE Reads
  BY <1>2, <1>4, <1>5, FirstThen DEF Bytes
<1>6. CASE ~Reads
  BY <1>1, <1>2, <1>3, <1>6, FirstThen DEF Bytes
<1> QED BY <1>5, <1>6
--------------------------------------------------------------------------------
(* What the invariant says of a call in progress. *)

\* The two sides of the loop's bookkeeping, as lengths.
LEMMA SendingIs ==
  ASSUME SpiTypes, Credit, Running, Sending
  PROVE  /\ heard = <<>> => write_data # <<>> \/ UnderWay
         /\ ~UnderWay => /\ Len(heard) + Len(write_data) = Len(Bytes)
                         /\ heard \o write_data = Bytes
                         /\ write_data = <<>> => heard = Bytes
         /\ heard # <<>> => Head(heard) = Command(access.dir, access.reg)
<1>1. access \in [dir : {"read", "write"}, reg : Regs, n : 0 .. MaxBytes]
  BY DEF SpiTypes, Running
<1>2. /\ Bytes \in Seq(Int) /\ Bytes # <<>> /\ Len(Bytes) \in Nat \ {0}
      /\ Head(Bytes) = Command(access.dir, access.reg)
  <2>1. Bytes \in Seq(Int) /\ Bytes # <<>> /\ Head(Bytes) = Command(access.dir, access.reg)
    BY <1>1, BytesAre
  <2> QED BY <2>1, EmptySeq, LenProperties
<1>3. heard \in Seq(Int) /\ write_data \in Seq(Int) /\ InFlight \in Int
  BY DEF SpiTypes, InFlight
<1>4. CASE ~UnderWay
  <2>1. heard \o write_data = Bytes
    BY <1>4 DEF Sending, Out
  <2>2. Len(heard) + Len(write_data) = Len(Bytes)
    BY <1>3, <2>1, ConcatProperties, Zenon
  <2>3. write_data = <<>> => heard = Bytes
    BY <1>3, <2>1, ConcatEmptySeq, Zenon
  <2>4. heard = <<>> => write_data # <<>>
    BY <1>2, <1>3, <2>3, Zenon
  <2>5. heard # <<>> => Head(heard) = Head(Bytes)
    <3>1. SUFFICES ASSUME heard # <<>> PROVE Head(heard) = Head(Bytes)
      OBVIOUS
    <3>2. /\ heard \o write_data \in Seq(Int)
          /\ \A i \in 1 .. Len(heard) + Len(write_data) :
               (heard \o write_data)[i] = IF i <= Len(heard) THEN heard[i] ELSE write_data[i - Len(heard)]
      BY <1>3, ConcatProperties, Zenon
    <3>3. 1 \in 1 .. Len(heard) + Len(write_data) /\ 1 <= Len(heard)
      BY <1>3, <3>1
    <3>4. Bytes[1] = heard[1]
      BY <2>1, <3>2, <3>3, Zenon
    <3> QED BY <1>2, <1>3, <3>1, <3>4
  <2> QED BY <1>2, <1>4, <2>1, <2>2, <2>3, <2>4, <2>5, Zenon
<1>5. CASE UnderWay /\ heard # <<>>
  <2>1. PICK out : out = Append(heard, InFlight)
    OBVIOUS
  <2>2. out \in Seq(Int) /\ Len(out) = Len(heard) + 1 /\ out[1] = heard[1]
    BY <1>3, <1>5, <2>1
  <2>3. out \o write_data = Bytes
    BY <1>5, <2>1 DEF Sending, Out
  <2>4. /\ out \o write_data \in Seq(Int)
        /\ \A i \in 1 .. Len(out) + Len(write_data) :
             (out \o write_data)[i] = IF i <= Len(out) THEN out[i] ELSE write_data[i - Len(out)]
    BY <1>3, <2>2, ConcatProperties, Zenon
  <2>5. 1 \in 1 .. Len(out) + Len(write_data) /\ 1 <= Len(out)
    BY <1>3, <2>2
  <2>6. Bytes[1] = heard[1]
    BY <2>2, <2>3, <2>4, <2>5, Zenon
  <2> QED BY <1>2, <1>3, <1>5, <2>6
<1> QED BY <1>4, <1>5, Zenon

\* What the chip takes its command to be.
LEMMA ReadingIs ==
  ASSUME SpiTypes, Credit, Running, Sending \/ Supplied, heard # <<>>
  PROVE  Reading <=> Reads
<1>1. access.dir \in {"read", "write"} /\ access.reg \in Addresses
  BY SpiAssumption DEF SpiTypes, Running
<1>2. Head(heard) = Command(access.dir, access.reg)
  BY SendingIs DEF Supplied
<1>3. Decoded(Command(access.dir, access.reg)).dir = access.dir
  BY <1>1, CommandDecodes
<1> QED BY <1>2, <1>3 DEF Reading, Reads
--------------------------------------------------------------------------------
(* The steps of the program. *)

LEMMA InitInv == Init => SpiInv
<1> SUFFICES ASSUME Init PROVE SpiInv
  OBVIOUS
<1>1. <<>> \in Seq(Int) /\ <<>> \in Seq(Answers)
  OBVIOUS
<1>2. 0 \in Answers /\ 0 \in 0 .. Circle - 1 /\ 0 \in 0 .. MaxBytes /\ 0 \in 0 .. MaxBytes + 1
  BY SpiAssumption DEF Answers
<1>3. SpiTypes
  <2>1. /\ write_data \in Seq(Int) /\ heard \in Seq(Int) /\ read_data \in Seq(Answers)
        /\ tx_holding \in Int /\ shift \in Int /\ rx_holding \in Answers
        /\ write_zeros \in 0 .. MaxBytes /\ read_ignore \in 0 .. MaxBytes + 1
        /\ supply \in 0 .. Circle - 1
    BY <1>1, <1>2 DEF Init
  <2>2. /\ sso \in BOOLEAN /\ primed \in BOOLEAN /\ transmitting \in BOOLEAN /\ rrdy \in BOOLEAN
        /\ status \subseteq {"TRDY", "RRDY"}
    BY DEF Init
  <2>3. pc = "idle" /\ access = None
    BY DEF Init
  <2> QED BY <2>1, <2>2, <2>3 DEF SpiTypes
<1>4. Credit
  BY DEF Init, Credit, Running, Quiet, UnderWay
<1> QED BY <1>3, <1>4 DEF Init, SpiInv, Running, AccessIsExact

\* A call in progress returns nothing.
LEMMA NotReturned ==
  ASSUME pc' # "return"
  PROVE  AccessIsExact'
BY DEF AccessIsExact

LEMMA StartInv ==
  ASSUME SpiInv, NEW dir \in {"read", "write"}, NEW reg \in Regs, NEW n \in 0 .. MaxBytes,
         Start(dir, reg, n, IF dir = "read" THEN <<>> ELSE Numbered(n), IF dir = "read" THEN n ELSE 0)
  PROVE  SpiInv'
<1> DEFINE bytes == IF dir = "read" THEN <<>> ELSE Numbered(n)
           reads == IF dir = "read" THEN n ELSE 0
<1>1. bytes \in Seq(Int) /\ Len(bytes) \in 0 .. MaxBytes /\ (dir = "read" => Len(bytes) = 0)
  <2>1. n \in Nat /\ MaxBytes \in Nat
    BY SpiAssumption
  <2> QED BY <2>1, NumberedIs
<1>2. reads \in 0 .. MaxBytes /\ 1 + Len(bytes) \in 1 .. MaxBytes + 1
  BY <1>1, SpiAssumption
<1>3. Command(dir, reg) \in Int
  BY SpiAssumption, CommandDecodes
<1>4. <<Command(dir, reg)>> \o bytes \in Seq(Int)
  BY <1>1, <1>3, FirstThen
<1>5. Len(<<Command(dir, reg)>> \o bytes) = 1 + Len(bytes)
  BY <1>1, <1>3, FirstThen
<1>6. Start(dir, reg, n, bytes, reads)
  OBVIOUS
<1> HIDE DEF bytes, reads
<1>7. /\ pc = "idle" /\ pc' = "discard" /\ access' = [dir |-> dir, reg |-> reg, n |-> n]
      /\ write_data' = <<Command(dir, reg)>> \o bytes /\ write_zeros' = reads
      /\ read_ignore' = 1 + Len(bytes) /\ read_data' = <<>> /\ credits' = 1 /\ status' = {}
      /\ sso' = TRUE
      /\ UNCHANGED <<txVars, shiftVars, rrdy, rx_holding, chipVars>>
  BY <1>6 DEF Start, Zeros, Ignored, FirstCredits
<1>8. SpiTypes'
  <2>1. <<>> \in Seq(Answers)
    OBVIOUS
  <2>2. access' \in [dir : {"read", "write"}, reg : Regs, n : 0 .. MaxBytes]
    BY <1>7
  <2>3. read_ignore' \in 0 .. MaxBytes + 1
    BY <1>2, <1>7, SpiAssumption
  <2> QED BY <1>2, <1>4, <1>7, <2>1, <2>2, <2>3
          DEF SpiInv, SpiTypes, txVars, shiftVars, chipVars
<1>9. Quiet /\ heard = <<>> /\ toe = FALSE /\ roe = FALSE
  BY <1>7 DEF SpiInv, Credit, Running
<1>10. Quiet' /\ heard' = <<>> /\ toe' = FALSE /\ roe' = FALSE /\ ~UnderWay'
  BY <1>7, <1>9 DEF Quiet, UnderWay, txVars, shiftVars, chipVars
<1>11. Credit'
  <2>1. read_ignore' > 0
    BY <1>2, <1>7, SpiAssumption
  <2> QED BY <1>7, <1>10, <2>1 DEF Credit, Running
<1>12. Sending'
  <2>1. Bytes' = <<Command(dir, reg)>> \o bytes /\ ReadBytes' = reads /\ Reads' = (dir = "read")
    BY <1>7 DEF Bytes, ReadBytes, Reads, bytes, reads
  <2>2. Out' = <<>>
    BY <1>10 DEF Out
  <2>3. <<>> \o write_data' = write_data'
    BY <1>4, <1>7, ConcatEmptySeq, Zenon
  <2>4. (Out \o write_data = Bytes)'
    BY <1>7, <2>1, <2>2, <2>3, Zenon
  <2>5. Len(heard)' = 0 /\ ~rrdy' /\ Len(Bytes)' = 1 + Len(bytes)
    BY <1>5, <1>10, <2>1 DEF Quiet
  <2>6. (read_ignore + Len(heard) - (IF rrdy THEN 1 ELSE 0) = Len(Bytes))'
    BY <1>2, <1>7, <2>5
  <2>7. read_ignore' # 0
    BY <1>2, <1>7, SpiAssumption
  <2> QED BY <1>7, <2>1, <2>4, <2>5, <2>6, <2>7 DEF Sending
<1> QED BY <1>7, <1>8, <1>11, <1>12, NotReturned DEF SpiInv

LEMMA CallInv ==
  ASSUME SpiInv, Call
  PROVE  SpiInv'
<1>1. 1 \in 0 .. MaxBytes
  BY SpiAssumption
<1>2. ASSUME NEW reg \in Regs, NEW n \in 0 .. MaxBytes, Start("write", reg, n, Numbered(n), 0)
      PROVE  SpiInv'
  BY <1>2, StartInv
<1>3. ASSUME NEW reg \in Regs, NEW n \in 0 .. MaxBytes, Start("read", reg, n, <<>>, n)
      PROVE  SpiInv'
  BY <1>3, StartInv
<1> QED BY <1>1, <1>2, <1>3 DEF Call, MAXreg_wr, MAXreg_rd, MAXbytes_wr, MAXbytes_rd

\* The loop looks, or does nothing: only its place, its status and a flag that is
\* already down change.
LEMMA BytesStay ==
  ASSUME Sending \/ Supplied, rrdy' = rrdy,
         UNCHANGED <<access, write_data, write_zeros, read_ignore, read_data>>,
         UNCHANGED <<txVars, shiftVars, rx_holding, chipVars>>
  PROVE  (Sending \/ Supplied)'
BY DEF Sending, Supplied, Out, UnderWay, InFlight, Bytes, Reads, ReadBytes,
       txVars, shiftVars, chipVars

LEMMA DiscardInv ==
  ASSUME SpiInv, Discard
  PROVE  SpiInv'
<1>1. /\ pc = "discard" /\ pc' = "poll" /\ rrdy' = FALSE
      /\ UNCHANGED <<access, write_data, write_zeros, read_ignore, read_data, credits, status>>
      /\ UNCHANGED <<sso, txVars, shiftVars, rx_holding, chipVars>>
  BY DEF Discard, loopVars
<1>2. rrdy' = rrdy
  BY <1>1 DEF SpiInv, SpiTypes, Credit, Running, Quiet
<1>3. SpiTypes'
  BY <1>1, <1>2 DEF SpiInv, SpiTypes, txVars, shiftVars, chipVars
<1>4. Credit'
  BY <1>1, <1>2 DEF SpiInv, SpiTypes, Credit, Running, Quiet, Done, UnderWay,
                    txVars, shiftVars, chipVars
<1>5. (Sending \/ Supplied)'
  BY <1>1, <1>2, BytesStay DEF SpiInv, Running
<1> QED BY <1>1, <1>3, <1>4, <1>5, NotReturned DEF SpiInv

LEMMA PollInv ==
  ASSUME SpiInv, Poll
  PROVE  SpiInv'
<1>1. /\ pc = "poll" /\ pc' \in {"poll", "send"} /\ status' = Status
      /\ UNCHANGED <<access, write_data, write_zeros, read_ignore, read_data, credits>>
      /\ UNCHANGED <<sso, txVars, shiftVars, rrdy, rx_holding, chipVars>>
  BY DEF Poll
<1>2. Status \subseteq {"TRDY", "RRDY"} /\ ("RRDY" \in Status => rrdy)
  BY DEF Status
<1>3. SpiTypes'
  BY <1>1, <1>2 DEF SpiInv, SpiTypes, txVars, shiftVars, chipVars
<1>4. Credit'
  BY <1>1, <1>2 DEF SpiInv, SpiTypes, Credit, Running, Quiet, Done, ReadBytes, UnderWay,
                    txVars, shiftVars, chipVars
<1>5. (Sending \/ Supplied)'
  BY <1>1, BytesStay DEF SpiInv, Running
<1> QED BY <1>1, <1>3, <1>4, <1>5, NotReturned DEF SpiInv

\* Nothing is sent: the status allowed only to receive.
LEMMA NoSendInv ==
  ASSUME SpiInv, Send, ~CanSend(status)
  PROVE  SpiInv'
<1>1. /\ pc = "send" /\ pc' = IF "RRDY" \in status THEN "receive" ELSE "poll"
      /\ UNCHANGED <<access, write_data, write_zeros, read_ignore, read_data, credits, status>>
      /\ UNCHANGED <<sso, txVars, shiftVars, rrdy, rx_holding, chipVars>>
  BY DEF Send
<1>2. SpiTypes'
  BY <1>1 DEF SpiInv, SpiTypes, txVars, shiftVars, chipVars
<1>3. Credit'
  BY <1>1 DEF SpiInv, SpiTypes, Credit, Running, Quiet, Done, ReadBytes, UnderWay,
              txVars, shiftVars, chipVars
<1>4. (Sending \/ Supplied)'
  BY <1>1, BytesStay DEF SpiInv, Running
<1> QED BY <1>1, <1>2, <1>3, <1>4, NotReturned DEF SpiInv

\* A byte written by the holder of the credit finds the transmitter empty.
LEMMA TransmitIs ==
  ASSUME SpiInv, pc = "send", CanSend(status), NEW b \in Int, Transmit(b)
  PROVE  /\ Quiet /\ credits = 1 /\ "RRDY" \notin status
         /\ tx_holding' = b /\ primed' = TRUE /\ toe' = toe
<1>1. Quiet /\ credits = 1
  BY DEF SpiInv, Credit, Running, CanSend
<1>2. TRDY
  BY <1>1 DEF Quiet, UnderWay, TRDY
<1> QED BY <1>1, <1>2 DEF SpiInv, Credit, Quiet, Transmit

\* The types and the credit after a byte is sent.
LEMMA SentCredit ==
  ASSUME SpiInv, Send, CanSend(status), NEW b \in Int, Transmit(b), credits' = credits - 1,
         write_data' \in Seq(Int), write_zeros' \in 0 .. MaxBytes
  PROVE  /\ SpiTypes' /\ Credit' /\ pc' = "poll"
         /\ UnderWay' /\ InFlight' = b /\ rrdy' = FALSE
<1>1. pc = "send"
  BY DEF Send
<1>2. /\ Quiet /\ credits = 1 /\ "RRDY" \notin status
      /\ tx_holding' = b /\ primed' = TRUE /\ toe' = toe
  BY <1>1, TransmitIs
<1>3. /\ pc' = "poll" /\ credits' = 0
      /\ UNCHANGED <<access, read_ignore, read_data, status>>
      /\ UNCHANGED <<sso, shiftVars, rrdy, rx_holding, chipVars>>
  BY <1>2 DEF Send
<1>4. UnderWay' /\ InFlight' = b /\ rrdy' = FALSE /\ transmitting' = FALSE
  BY <1>2, <1>3 DEF SpiInv, SpiTypes, Quiet, UnderWay, InFlight, shiftVars
<1>5. SpiTypes'
  BY <1>1, <1>2, <1>3 DEF SpiInv, SpiTypes, shiftVars, chipVars
<1>6. Credit'
  BY <1>1, <1>2, <1>3, <1>4 DEF SpiInv, Credit, Running, Done, ReadBytes, shiftVars, chipVars
<1> QED BY <1>3, <1>4, <1>5, <1>6

\* A byte of the caller goes out.
LEMMA SendByteInv ==
  ASSUME SpiInv, Send, CanSend(status), write_data # <<>>
  PROVE  SpiInv'
<1>1. /\ pc = "send" /\ Transmit(Head(write_data)) /\ write_data' = Tail(write_data)
      /\ credits' = credits - 1
      /\ UNCHANGED <<access, read_ignore, read_data, status, write_zeros>>
      /\ UNCHANGED <<sso, shiftVars, rrdy, rx_holding, chipVars>>
  BY DEF Send
<1>2. heard \in Seq(Int) /\ write_data \in Seq(Int) /\ Running
  BY <1>1 DEF SpiInv, SpiTypes, Running
<1>3. /\ Head(write_data) \in Int /\ Tail(write_data) \in Seq(Int)
      /\ Append(heard, Head(write_data)) \o Tail(write_data) = heard \o write_data
  BY <1>2, HeadMoves
<1>4. write_zeros' \in 0 .. MaxBytes /\ write_data' \in Seq(Int)
  BY <1>1, <1>3 DEF SpiInv, SpiTypes
<1>5. /\ SpiTypes' /\ Credit' /\ pc' = "poll"
      /\ UnderWay' /\ InFlight' = Head(write_data) /\ rrdy' = FALSE
  BY <1>1, <1>3, <1>4, SentCredit
<1>6. ~UnderWay /\ ~rrdy
  BY <1>1, <1>3, TransmitIs DEF Quiet
<1>7. Sending
  BY <1>2 DEF SpiInv, Supplied
<1>8. Sending'
  <2>1. heard \o write_data = Bytes
    BY <1>6, <1>7 DEF Sending, Out
  <2>2. Out' = Append(heard, Head(write_data))
    BY <1>1, <1>5 DEF Out, chipVars
  <2>3. Bytes' = Bytes /\ ReadBytes' = ReadBytes /\ Reads' = Reads
    BY <1>1 DEF Bytes, ReadBytes, Reads
  <2>4. (Out \o write_data = Bytes)'
    BY <1>1, <1>3, <2>1, <2>2, <2>3, Zenon
  <2>5. heard' = heard /\ rrdy' = rrdy
    BY <1>1 DEF chipVars
  <2>6. (write_zeros = ReadBytes /\ read_data = <<>>)'
    BY <1>1, <1>7, <2>3 DEF Sending
  <2>7. (read_ignore + Len(heard) - (IF rrdy THEN 1 ELSE 0) = Len(Bytes))'
    BY <1>1, <1>7, <2>3, <2>5 DEF Sending
  <2>8. (heard = <<>> => ~rrdy)' /\ (read_ignore = 0 => ~Reads)'
    BY <1>1, <1>7, <2>3, <2>5 DEF Sending
  <2> QED BY <2>4, <2>6, <2>7, <2>8 DEF Sending
<1> QED BY <1>5, <1>8, NotReturned DEF SpiInv

\* A zero goes out for a byte that is awaited.
LEMMA SendZeroInv ==
  ASSUME SpiInv, Send, CanSend(status), write_data = <<>>, write_zeros > 0
  PROVE  SpiInv'
<1>1. /\ pc = "send" /\ Transmit(0) /\ write_zeros' = write_zeros - 1
      /\ credits' = credits - 1
      /\ UNCHANGED <<access, read_ignore, read_data, status, write_data>>
      /\ UNCHANGED <<sso, shiftVars, rrdy, rx_holding, chipVars>>
  BY DEF Send
<1>2. Running
  BY <1>1 DEF Running
<1>3. write_zeros' \in 0 .. MaxBytes /\ write_data' \in Seq(Int)
  BY <1>1, SpiAssumption DEF SpiInv, SpiTypes
<1>4. /\ SpiTypes' /\ Credit' /\ pc' = "poll"
      /\ UnderWay' /\ rrdy' = FALSE
  <2>1. 0 \in Int
    OBVIOUS
  <2> QED BY <1>1, <1>3, <2>1, SentCredit
<1>5. ~UnderWay /\ ~rrdy
  <2>1. 0 \in Int
    OBVIOUS
  <2> QED BY <1>1, <2>1, TransmitIs DEF Quiet
<1>6. ~Sending
  <2>1. SUFFICES ASSUME Sending PROVE FALSE
    OBVIOUS
  <2>2. heard = Bytes
    BY <1>2, <1>5, <2>1, SendingIs DEF SpiInv
  <2>3. heard \in Seq(Int) /\ Len(heard) \in Nat /\ read_ignore \in Int
    BY DEF SpiInv, SpiTypes
  <2>4. read_ignore = 0
    BY <1>5, <2>1, <2>2, <2>3 DEF Sending
  <2> QED BY <2>1, <2>4 DEF Sending, ReadBytes, Reads
<1>7. Supplied
  BY <1>2, <1>6 DEF SpiInv
<1>8. Supplied'
  <2>1. Len(heard) \in Nat /\ write_zeros \in Int /\ access.n \in Int
    BY <1>1 DEF SpiInv, SpiTypes
  <2>2. heard' = heard /\ rrdy' = rrdy /\ Reads' = Reads /\ access' = access
    BY <1>1 DEF chipVars, Reads
  <2>3. (write_zeros + Len(heard) + (IF UnderWay THEN 1 ELSE 0) = access.n + 1)'
    BY <1>1, <1>4, <1>5, <1>7, <2>1, <2>2 DEF Supplied
  <2> QED BY <1>1, <1>4, <1>7, <2>2, <2>3 DEF Supplied
<1> QED BY <1>4, <1>8, NotReturned DEF SpiInv

\* The loop never looks for something to send when nothing is left to send: there
\* would be nothing left to receive either.
LEMMA SomethingToSend ==
  ASSUME SpiInv, Send, CanSend(status), write_data = <<>>
  PROVE  write_zeros > 0
<1>1. pc = "send" /\ Running
  BY DEF Send, Running
<1>2. ~UnderWay /\ ~rrdy /\ ~Done
  BY <1>1 DEF SpiInv, Credit, CanSend, Quiet
<1>3. /\ Len(heard) \in Nat /\ write_zeros \in Nat /\ access.n \in Nat /\ read_ignore \in Int
      /\ heard \in Seq(Int)
  BY <1>1, SpiAssumption DEF SpiInv, SpiTypes
<1>4. CASE Sending
  <2>1. heard = Bytes
    BY <1>1, <1>2, <1>4, SendingIs DEF SpiInv
  <2>2. read_ignore = 0 /\ Len(read_data) = 0
    BY <1>2, <1>3, <1>4, <2>1 DEF Sending
  <2> QED BY <1>2, <1>4, <2>2 DEF Sending, Done, ReadBytes, Reads
<1>5. CASE Supplied
  <2>1. Len(Tail(heard)) = Len(heard) - 1
    BY <1>3, <1>5, HeadTailProperties DEF Supplied
  <2>2. Tail(heard) = read_data
    BY <1>2, <1>5 DEF Supplied
  <2>3. Len(read_data) # access.n
    BY <1>2, <1>5 DEF Supplied, Done, ReadBytes, Reads
  <2> QED BY <1>2, <1>3, <1>5, <2>1, <2>2, <2>3 DEF Supplied
<1> QED BY <1>1, <1>4, <1>5 DEF SpiInv

LEMMA SendInv ==
  ASSUME SpiInv, Send
  PROVE  SpiInv'
BY NoSendInv, SendByteInv, SendZeroInv, SomethingToSend

\* An answer is taken: ignored while the caller's bytes are answered, kept after them.
LEMMA ReceiveInv ==
  ASSUME SpiInv, Receive
  PROVE  SpiInv'
<1>1. /\ pc = "receive" /\ rrdy' = FALSE /\ credits' = credits + 1
      /\ pc' = IF Done' THEN "finish" ELSE "poll"
      /\ UNCHANGED <<access, write_data, write_zeros, status>>
      /\ UNCHANGED <<sso, txVars, shiftVars, rx_holding, chipVars>>
  BY DEF Receive, Done, ReadBytes
<1>2. Running /\ access \in [dir : {"read", "write"}, reg : Regs, n : 0 .. MaxBytes]
  BY <1>1 DEF SpiInv, SpiTypes, Running
<1>3. rrdy /\ ~UnderWay /\ credits = 0
  BY <1>1, <1>2 DEF SpiInv, Credit, Quiet
<1>4. /\ heard' = heard /\ ~UnderWay' /\ Bytes' = Bytes /\ Reads' = Reads
      /\ ReadBytes' = ReadBytes /\ Out = heard /\ Out' = heard'
  BY <1>1, <1>3 DEF UnderWay, Out, Bytes, Reads, ReadBytes, txVars, shiftVars, chipVars
<1>5. /\ heard \in Seq(Int) /\ Len(heard) \in Nat /\ write_data \in Seq(Int)
      /\ Len(write_data) \in Nat /\ read_ignore \in 0 .. MaxBytes + 1 /\ MaxBytes \in Nat
      /\ read_data \in Seq(Answers) /\ rx_holding \in Answers
  BY SpiAssumption DEF SpiInv, SpiTypes
<1>6. ASSUME Sending
      PROVE  /\ read_ignore' \in 0 .. MaxBytes + 1 /\ read_data' \in Seq(Answers)
             /\ (Sending \/ Supplied)'
  <2>1. Len(heard) + Len(write_data) = Len(Bytes)
    BY <1>2, <1>3, <1>6, SendingIs DEF SpiInv
  <2>2. Len(Bytes) \in Nat
    BY <1>5, <2>1
  <2>3. read_ignore = 1 + Len(write_data)
    BY <1>3, <1>5, <1>6, <2>1, <2>2 DEF Sending
  <2>4. read_ignore' = read_ignore - 1 /\ read_data' = read_data
    BY <1>5, <2>3 DEF Receive
  <2>5. ASSUME Reads, read_ignore' = 0
        PROVE  Supplied'
    <3>1. write_data = <<>>
      BY <1>5, <2>3, <2>4, <2>5, EmptySeq
    <3>2. heard = Bytes
      BY <1>2, <1>3, <1>6, <3>1, SendingIs DEF SpiInv
    <3>3. /\ heard # <<>> /\ Head(heard) = Command(access.dir, access.reg)
          /\ Tail(heard) = <<>> /\ Len(heard) = 1
      BY <1>2, <2>5, <3>2, BytesAre
    <3>4. read_data' = <<>> /\ write_zeros = access.n /\ access.n \in Int
      BY <1>2, <1>6, <2>4, <2>5 DEF Sending, ReadBytes, Reads
    <3>5. (write_zeros + Len(heard) + (IF UnderWay THEN 1 ELSE 0) = access.n + 1)'
      BY <1>1, <1>4, <3>3, <3>4
    <3> QED BY <1>1, <1>4, <2>5, <3>1, <3>3, <3>4, <3>5 DEF Supplied
  <2>6. ASSUME ~(Reads /\ read_ignore' = 0)
        PROVE  Sending'
    <3>1. (Out \o write_data = Bytes)'
      BY <1>1, <1>4, <1>6 DEF Sending
    <3>2. (write_zeros = ReadBytes /\ read_data = <<>>)'
      BY <1>1, <1>4, <1>6, <2>4 DEF Sending
    <3>3. (read_ignore + Len(heard) - (IF rrdy THEN 1 ELSE 0) = Len(Bytes))'
      BY <1>1, <1>4, <1>5, <2>1, <2>2, <2>3, <2>4
    <3> QED BY <1>1, <1>4, <2>6, <3>1, <3>2, <3>3 DEF Sending
  <2>7. read_ignore' \in 0 .. MaxBytes + 1 /\ read_data' \in Seq(Answers)
    BY <1>5, <2>3, <2>4
  <2> QED BY <2>5, <2>6, <2>7
<1>7. ASSUME Supplied
      PROVE  /\ read_ignore' \in 0 .. MaxBytes + 1 /\ read_data' \in Seq(Answers)
             /\ (Sending \/ Supplied)'
  <2>1. read_ignore' = 0 /\ read_data' = Append(read_data, rx_holding)
    BY <1>7 DEF Receive, Supplied
  <2>2. Supplied'
    <3>1. (Tail(heard) = read_data)'
      BY <1>1, <1>3, <1>4, <1>7, <2>1 DEF Supplied
    <3>2. (write_zeros + Len(heard) + (IF UnderWay THEN 1 ELSE 0) = access.n + 1)'
      BY <1>1, <1>3, <1>4, <1>7 DEF Supplied
    <3> QED BY <1>1, <1>4, <1>7, <2>1, <3>1, <3>2 DEF Supplied
  <2> QED BY <1>5, <2>1, <2>2
<1>8. /\ read_ignore' \in 0 .. MaxBytes + 1 /\ read_data' \in Seq(Answers)
      /\ (Sending \/ Supplied)'
  BY <1>2, <1>6, <1>7 DEF SpiInv
<1>9. SpiTypes'
  BY <1>1, <1>2, <1>8 DEF SpiInv, SpiTypes, txVars, shiftVars, chipVars
<1>10. Credit'
  BY <1>1, <1>3, <1>4 DEF SpiInv, Credit, Running, Quiet, txVars, shiftVars
<1> QED BY <1>1, <1>8, <1>9, <1>10, NotReturned DEF SpiInv

\* What the chip has seen of an access whose answers are all taken.
LEMMA SeenIs ==
  ASSUME SpiInv, pc = "finish"
  PROVE  /\ heard # <<>>
         /\ Decoded(Head(heard)).dir = access.dir /\ Decoded(Head(heard)).reg = access.reg
         /\ Tail(heard) = IF Reads THEN read_data ELSE Numbered(access.n)
         /\ Len(read_data) = ReadBytes /\ write_data = <<>>
<1>1. Running /\ access \in [dir : {"read", "write"}, reg : Regs, n : 0 .. MaxBytes]
  BY DEF SpiInv, SpiTypes, Running
<1>2. access.dir \in {"read", "write"} /\ access.reg \in Addresses
  BY <1>1, SpiAssumption
<1>3. ~UnderWay /\ ~rrdy /\ Done
  BY <1>1 DEF SpiInv, Credit, Quiet
<1>4. /\ heard \in Seq(Int) /\ Len(heard) \in Nat /\ write_data \in Seq(Int)
      /\ Len(write_data) \in Nat
  BY DEF SpiInv, SpiTypes
<1>5. CASE Sending
  <2>1. Len(heard) + Len(write_data) = Len(Bytes)
    BY <1>1, <1>3, <1>5, SendingIs DEF SpiInv
  <2>2. Len(Bytes) \in Nat
    BY <1>4, <2>1
  <2>3. Len(write_data) = 0 /\ ~Reads
    BY <1>3, <1>4, <1>5, <2>1, <2>2 DEF Sending, Done
  <2>4. write_data = <<>>
    BY <1>4, <2>3, EmptySeq
  <2>5. heard = Bytes
    BY <1>1, <1>3, <1>5, <2>4, SendingIs DEF SpiInv
  <2> QED BY <1>1, <2>3, <2>4, <2>5, BytesAre, <1>2, CommandDecodes, <1>3 DEF Done
<1>6. CASE Supplied
  BY <1>2, <1>3, <1>6, CommandDecodes DEF Supplied, Done
<1> QED BY <1>1, <1>5, <1>6 DEF SpiInv

LEMMA FinishInv ==
  ASSUME SpiInv, Finish
  PROVE  SpiInv'
<1>1. pc = "finish"
  BY DEF Finish
<1>2. /\ heard # <<>>
      /\ Decoded(Head(heard)).dir = access.dir /\ Decoded(Head(heard)).reg = access.reg
      /\ Tail(heard) = IF Reads THEN read_data ELSE Numbered(access.n)
      /\ Len(read_data) = ReadBytes /\ write_data = <<>>
  BY <1>1, SeenIs
<1>3. /\ pc' = "return" /\ sso' = FALSE /\ heard' = <<>> /\ seen' = Seen
      /\ UNCHANGED <<access, write_data, write_zeros, read_ignore, read_data, credits, status>>
      /\ UNCHANGED <<txVars, shiftVars, rrdy, rx_holding, supply>>
  BY <1>2 DEF Finish, loopVars
<1>4. SpiTypes'
  <2>1. <<>> \in Seq(Int)
    OBVIOUS
  <2> QED BY <1>1, <1>3, <2>1 DEF SpiInv, SpiTypes, txVars, shiftVars
<1>5. Credit'
  BY <1>1, <1>2, <1>3 DEF SpiInv, Credit, Running, Quiet, UnderWay, txVars, shiftVars
<1>6. AccessIsExact'
  <2>1. Seen = [dir |-> access.dir, reg |-> access.reg,
                data |-> IF Reads THEN read_data ELSE Numbered(access.n)]
    BY <1>2, Zenon DEF Seen
  <2> QED BY <1>2, <1>3, <2>1 DEF AccessIsExact, Reads, ReadBytes
<1>7. ~Running'
  BY <1>3 DEF Running
<1> QED BY <1>4, <1>5, <1>6, <1>7 DEF SpiInv

LEMMA ReturnInv ==
  ASSUME SpiInv, Return
  PROVE  SpiInv'
<1>1. 0 \in 0 .. MaxBytes /\ 0 \in 0 .. MaxBytes + 1 /\ <<>> \in Seq(Int) /\ <<>> \in Seq(Answers)
  BY SpiAssumption
<1>2. SpiTypes'
  BY <1>1 DEF Return, SpiInv, SpiTypes, txVars, shiftVars
<1>3. Credit' /\ ~Running'
  BY DEF Return, SpiInv, Credit, Running, Quiet, UnderWay, txVars, shiftVars
<1>4. pc' # "return"
  BY DEF Return
<1> QED BY <1>2, <1>3, <1>4, NotReturned DEF SpiInv
--------------------------------------------------------------------------------
(* The steps of the core and the chip. *)

\* The byte in the holding register goes on to the shift register: it stays the one under way.
LEMMA LoadInv ==
  ASSUME SpiInv, Load
  PROVE  SpiInv'
<1>1. /\ primed /\ ~transmitting /\ shift' = tx_holding /\ transmitting' = TRUE
      /\ primed' = FALSE
      /\ UNCHANGED <<pc, access, write_data, write_zeros, read_ignore, read_data, credits, status>>
      /\ UNCHANGED <<sso, tx_holding, toe, rrdy, rx_holding, roe, chipVars>>
  BY DEF Load, loopVars
<1>2. Running /\ credits = 0
  BY <1>1 DEF SpiInv, Credit, Quiet, UnderWay
<1>3. SpiTypes'
  BY <1>1 DEF SpiInv, SpiTypes, chipVars
<1>4. Credit'
  BY <1>1, <1>2 DEF SpiInv, Credit, Running, UnderWay, Done, ReadBytes, chipVars
<1>5. (Sending \/ Supplied)'
  <2>1. Out' = Out /\ (UnderWay' <=> UnderWay)
    BY <1>1 DEF Out, UnderWay, InFlight, chipVars
  <2>2. Sending \/ Supplied
    BY <1>2 DEF SpiInv
  <2>3. Bytes' = Bytes /\ ReadBytes' = ReadBytes /\ (Reads' <=> Reads) /\ heard' = heard
    BY <1>1 DEF Bytes, ReadBytes, Reads, chipVars
  <2> QED BY <1>1, <2>1, <2>2, <2>3 DEF Sending, Supplied
<1>6. pc' # "return"
  BY <1>1, <1>2 DEF Running
<1> QED BY <1>3, <1>4, <1>5, <1>6, NotReturned DEF SpiInv

\* The byte under way is exchanged: the chip has heard it, or has supplied the byte
\* that the receive register now holds.
LEMMA ExchangeInv ==
  ASSUME SpiInv, Exchange
  PROVE  SpiInv'
<1>1. /\ transmitting /\ transmitting' = FALSE
      /\ rx_holding' = Answered /\ rrdy' = TRUE /\ roe' = (roe \/ rrdy)
      /\ heard' = IF sso THEN Append(heard, Heard) ELSE <<>>
      /\ supply' = IF Reading THEN (supply + 1) % Circle ELSE supply
      /\ UNCHANGED <<pc, access, write_data, write_zeros, read_ignore, read_data, credits, status>>
      /\ UNCHANGED <<sso, primed, tx_holding, toe, shift>>
  BY DEF Exchange, loopVars, txVars
<1>2. Running /\ credits = 0 /\ ~primed /\ ~rrdy /\ UnderWay /\ sso
  BY <1>1 DEF SpiInv, Credit, Quiet, UnderWay
<1>3. /\ ~UnderWay' /\ Bytes' = Bytes /\ Reads' = Reads /\ ReadBytes' = ReadBytes
      /\ Out = Append(heard, shift) /\ Out' = heard' /\ heard' = Append(heard, Heard)
  BY <1>1, <1>2 DEF UnderWay, InFlight, Out, Bytes, Reads, ReadBytes
<1>4. /\ heard \in Seq(Int) /\ Len(heard) \in Nat /\ shift \in Int
      /\ supply \in 0 .. Circle - 1 /\ Circle \in Nat \ {0}
      /\ access \in [dir : {"read", "write"}, reg : Regs, n : 0 .. MaxBytes]
  BY <1>2, SpiAssumption DEF SpiInv, SpiTypes, Running
<1>5. Heard \in Int /\ supply' \in 0 .. Circle - 1 /\ Answered \in Answers
  <2>1. (supply + 1) % Circle \in 0 .. Circle - 1
    BY <1>4
  <2> QED BY <1>1, <1>4, <2>1 DEF Heard, Answered, Answers
<1>6. /\ heard' \in Seq(Int) /\ Len(heard') = Len(heard) + 1 /\ heard' # <<>>
      /\ Head(heard') = IF heard = <<>> THEN Heard ELSE Head(heard)
      /\ Tail(heard') = IF heard = <<>> THEN <<>> ELSE Append(Tail(heard), Heard)
  <2>1. heard' \in Seq(Int) /\ Len(heard') = Len(heard) + 1 /\ heard' # <<>>
    BY <1>3, <1>4, <1>5, AppendProperties
  <2>2. /\ Head(Append(heard, Heard)) = IF heard = <<>> THEN Heard ELSE Head(heard)
        /\ Tail(Append(heard, Heard)) = IF heard = <<>> THEN <<>> ELSE Append(Tail(heard), Heard)
    BY <1>4, HeadTailAppend, Zenon
  <2> QED BY <1>3, <2>1, <2>2
<1>7. SpiTypes'
  BY <1>1, <1>5, <1>6 DEF SpiInv, SpiTypes
<1>8. Credit'
  <2>1. toe' = FALSE /\ roe' = FALSE
    BY <1>1, <1>2 DEF SpiInv, Credit
  <2>2. Done' <=> Done
    BY <1>1, <1>3 DEF Done
  <2>3. Running' /\ rrdy' /\ credits' = 0 /\ sso'
    BY <1>1, <1>2 DEF Running
  <2>4. pc \notin {"idle", "return", "discard", "finish"}
    BY <1>2 DEF SpiInv, Credit, Running
  <2> QED BY <1>1, <1>3, <2>1, <2>2, <2>3, <2>4 DEF SpiInv, Credit
<1>9. (Sending \/ Supplied)'
  <2>1. heard # <<>> => (Reading <=> Reads)
    BY <1>2, ReadingIs DEF SpiInv
  <2>2. Sending \/ Supplied
    BY <1>2 DEF SpiInv
  <2>3. ASSUME Sending
        PROVE  Sending'
    <3>1. ~Reading
      <4>1. SUFFICES ASSUME heard # <<>>, Reads PROVE FALSE
        BY <2>1 DEF Reading
      <4>2. PICK out : out = Append(heard, shift)
        OBVIOUS
      <4>3. out \in Seq(Int) /\ Len(out) = Len(heard) + 1
        BY <1>4, <4>2, AppendProperties, Zenon
      <4>4. write_data \in Seq(Int) /\ Len(write_data) \in Nat
        BY DEF SpiInv, SpiTypes
      <4>5. Len(out) + Len(write_data) = Len(Bytes)
        BY <1>3, <2>3, <4>2, <4>3, <4>4, ConcatProperties, Zenon DEF Sending
      <4>6. Len(Bytes) = 1
        BY <1>4, <4>1, BytesAre
      <4>7. Len(heard) # 0
        BY <1>4, <4>1, EmptySeq
      <4> QED BY <1>4, <4>3, <4>4, <4>5, <4>6, <4>7
    <3>2. heard' = Append(heard, shift)
      BY <1>3, <3>1 DEF Heard
    <3>3. (Out \o write_data = Bytes)'
      BY <1>1, <1>3, <2>3, <3>2 DEF Sending
    <3>4. (write_zeros = ReadBytes /\ read_data = <<>>)'
      BY <1>1, <1>3, <2>3 DEF Sending
    <3>5. (read_ignore + Len(heard) - (IF rrdy THEN 1 ELSE 0) = Len(Bytes))'
      <4>1. read_ignore \in Int
        BY <1>4, SpiAssumption DEF SpiInv, SpiTypes
      <4> QED BY <1>1, <1>2, <1>3, <1>4, <1>6, <2>3, <4>1 DEF Sending
    <3> QED BY <1>1, <1>3, <1>6, <2>3, <3>3, <3>4, <3>5 DEF Sending
  <2>4. ASSUME Supplied
        PROVE  Supplied'
    <3>1. Reading /\ Heard = supply /\ Answered = supply
      BY <2>1, <2>4 DEF Supplied, Heard, Answered
    <3>2. Tail(heard') = Append(read_data, rx_holding')
      BY <1>1, <1>2, <1>6, <2>4, <3>1 DEF Supplied
    <3>3. (write_zeros + Len(heard) + (IF UnderWay THEN 1 ELSE 0) = access.n + 1)'
      <4>1. write_zeros \in Int /\ access.n \in Int
        BY <1>4 DEF SpiInv, SpiTypes
      <4> QED BY <1>1, <1>2, <1>3, <1>4, <1>6, <2>4, <4>1 DEF Supplied
    <3> QED BY <1>1, <1>3, <1>6, <2>4, <3>2, <3>3 DEF Supplied
  <2> QED BY <2>2, <2>3, <2>4
<1>10. pc' # "return"
  BY <1>1, <1>2 DEF Running
<1> QED BY <1>7, <1>8, <1>9, <1>10, NotReturned DEF SpiInv
--------------------------------------------------------------------------------
LEMMA SpiInvStays == SpiInv /\ [Next]_vars => SpiInv'
<1>1. SpiInv /\ Next => SpiInv'
  BY CallInv, DiscardInv, PollInv, SendInv, ReceiveInv, FinishInv, ReturnInv, LoadInv,
     ExchangeInv DEF Next, Loop, Core
<1>2. SpiInv /\ UNCHANGED vars => SpiInv'
  <2>1. SUFFICES ASSUME SpiInv, UNCHANGED vars PROVE SpiInv'
    OBVIOUS
  <2>2. /\ UNCHANGED <<pc, access, write_data, write_zeros, read_ignore, read_data, credits, status>>
        /\ UNCHANGED <<sso, primed, tx_holding, toe, transmitting, shift, roe, rrdy, rx_holding>>
        /\ UNCHANGED <<heard, supply, seen>>
    BY <2>1 DEF vars, loopVars, txVars, shiftVars, chipVars
  <2>3. SpiTypes'
    BY <2>1, <2>2 DEF SpiInv, SpiTypes
  <2>4. Credit' /\ (Running' <=> Running)
    BY <2>1, <2>2 DEF SpiInv, Credit, Running, Quiet, UnderWay, Done, ReadBytes
  <2>5. Sending \/ Supplied => (Sending \/ Supplied)'
    BY <2>2, BytesStay DEF txVars, shiftVars, chipVars
  <2>6. AccessIsExact'
    BY <2>1, <2>2 DEF SpiInv, AccessIsExact, ReadBytes
  <2> QED BY <2>1, <2>3, <2>4, <2>5, <2>6 DEF SpiInv
<1> QED BY <1>1, <1>2

LEMMA SpiInvHolds == Spec => []SpiInv
BY InitInv, SpiInvStays, PTL DEF Spec

\* The bounds of the program's counts, from where the bytes are.
LEMMA SpiInvTypes == SpiInv => TypeOK
<1> SUFFICES ASSUME SpiInv PROVE TypeOK
  OBVIOUS
<1>1. /\ Len(write_data) <= MaxBytes + 1 /\ Len(read_data) <= MaxBytes
      /\ heard # <<>> => Decoded(Head(heard)).reg \in Regs
  <2>0. /\ MaxBytes \in Nat /\ write_data \in Seq(Int) /\ Len(write_data) \in Nat
        /\ heard \in Seq(Int) /\ Len(heard) \in Nat /\ read_data \in Seq(Answers)
        /\ Len(read_data) \in Nat
    BY SpiAssumption DEF SpiInv, SpiTypes
  <2>1. CASE pc = "idle"
    BY <2>0, <2>1 DEF SpiInv, Credit, Running
  <2>2. CASE pc = "return"
    <3>1. write_data = <<>> /\ heard = <<>>
      BY <2>2 DEF SpiInv, Credit, Running
    <3>2. Len(read_data) = ReadBytes /\ access.n \in 0 .. MaxBytes
      BY <2>2 DEF SpiInv, SpiTypes, AccessIsExact
    <3> QED BY <2>0, <3>1, <3>2 DEF ReadBytes
  <2>3. CASE Running
    <3>1. /\ access \in [dir : {"read", "write"}, reg : Regs, n : 0 .. MaxBytes]
          /\ access.dir \in {"read", "write"} /\ access.n \in 0 .. MaxBytes
          /\ access.reg \in Addresses /\ access.reg \in Regs /\ InFlight \in Int
      BY <2>3, SpiAssumption DEF SpiInv, SpiTypes, Running, InFlight
    <3>2. ASSUME Sending
          PROVE  Len(write_data) <= MaxBytes + 1 /\ Len(read_data) <= MaxBytes
      <4>1. Out \in Seq(Int) /\ Len(Out) \in Nat
        BY <2>0, <3>1, AppendProperties, LenProperties DEF Out
      <4>2. Len(Out) + Len(write_data) = Len(Bytes)
        BY <2>0, <3>2, <4>1, ConcatProperties, Zenon DEF Sending
      <4>3. Len(Bytes) = 1 + (IF Reads THEN 0 ELSE access.n)
        BY <3>1, BytesAre
      <4>4. read_data = <<>>
        BY <3>2 DEF Sending
      <4> QED BY <2>0, <3>1, <4>1, <4>2, <4>3, <4>4
    <3>3. ASSUME Supplied
          PROVE  Len(write_data) <= MaxBytes + 1 /\ Len(read_data) <= MaxBytes
      <4>1. Len(Tail(heard)) = Len(heard) - 1
        BY <2>0, <3>3, HeadTailProperties DEF Supplied
      <4>2. write_zeros \in Nat /\ rx_holding \in Answers
        BY DEF SpiInv, SpiTypes
      <4>3. Len(Append(read_data, rx_holding)) = Len(read_data) + 1
        BY <2>0, <4>2, AppendProperties
      <4>4. Len(read_data) <= Len(Tail(heard))
        BY <2>0, <3>3, <4>3 DEF Supplied
      <4>5. Len(heard) <= access.n + 1
        BY <2>0, <3>1, <3>3, <4>2 DEF Supplied
      <4>6. write_data = <<>>
        BY <3>3 DEF Supplied
      <4> QED BY <2>0, <3>1, <4>1, <4>4, <4>5, <4>6
    <3>4. heard # <<>> => Head(heard) = Command(access.dir, access.reg)
      BY <2>3, SendingIs DEF SpiInv, Supplied
    <3>5. Decoded(Command(access.dir, access.reg)).reg = access.reg
      BY <3>1, CommandDecodes
    <3> QED BY <2>3, <3>1, <3>2, <3>3, <3>4, <3>5 DEF SpiInv
  <2> QED BY <2>1, <2>2, <2>3 DEF SpiInv, SpiTypes, Running
<1>2. access \in {None} \union [dir : {"read", "write"}, reg : Regs, n : 0 .. MaxBytes]
  BY DEF SpiInv, SpiTypes
<1>3. credits \in 0 .. 1 /\ toe \in BOOLEAN /\ roe \in BOOLEAN
  <2>1. credits \in {0, 1}
    BY DEF SpiInv, SpiTypes, Credit, Running
  <2>2. toe \in BOOLEAN /\ roe \in BOOLEAN
    BY DEF SpiInv, Credit
  <2> QED BY <2>1, <2>2
<1> QED BY <1>1, <1>2, <1>3 DEF SpiInv, SpiTypes, TypeOK

\* The counts and flags of loop, core and chip keep their types, for every set of
\* registers and every length of an access (MAX3421E.c 20-118, altera_avalon_spi.c 30-102).
THEOREM TypesHold == Spec => []TypeOK
BY SpiInvHolds, SpiInvTypes, PTL

\* No byte is written to a core without room, and none arrives over one not yet read: at
\* most one byte is under way, whatever the speeds of loop and core.
THEOREM NothingIsLost == Spec => []NothingLost
<1>1. SpiInv => NothingLost
  BY DEF SpiInv, Credit, NothingLost
<1> QED BY <1>1, SpiInvHolds, PTL

\* What the chip has seen of an access when the accessor returns is the access, whole and
\* in order.
THEOREM AccessesAreExact == Spec => []AccessIsExact
<1>1. SpiInv => AccessIsExact
  BY DEF SpiInv
<1> QED BY <1>1, SpiInvHolds, PTL
================================================================================
