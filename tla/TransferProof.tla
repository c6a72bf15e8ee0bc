--------------------------- MODULE TransferProof ---------------------------
(***************************************************************************)
(* What the transfers keep for every limit, packet size and clock.         *)
(* Whether or not a transfer given up can still complete: the types, and   *)
(* that a write which returned 0 was carried out by the device.  If none   *)
(* can: that reads are exact and that reports come once and in turn.       *)
(***************************************************************************)
EXTENDS Transfer, TLAPS

InDispatch == pc \in {"wait", "answer"}
Succeeded  == InDispatch /\ busy = "none" /\ hrsl = "SUCCESS"

\* Each stage of a call has its packet.
StageOfCall ==
  /\ pc # "idle" => caller \in Calls
  /\ InDispatch /\ token = "SETUP" => caller \in Reads \union Writes /\ sudfifo = caller
  /\ pc # "idle" /\ token = "POLL" => caller = "poll"
  /\ pc # "idle" /\ token \in {"IN", "OUTHS"} => caller \in Reads
  /\ pc # "idle" /\ token = "INHS" => caller \in Writes /\ ctl.req = caller
  /\ pc \in {"collect", "save"} => token \in {"IN", "POLL"}

\* A dispatcher that finds no transfer under way finds the result of its own packet.
OwnResult ==
  /\ InDispatch /\ busy # "none" => busy = token
  /\ Succeeded /\ token = "SETUP" => ctl.req = caller
  /\ Succeeded /\ token = "INHS" => caller \in done

\* Packets are there when they are taken.
PacketsThere ==
  /\ pc = "collect" => fifo # <<>>
  /\ pc = "save" => data # <<>>
  /\ ctl.req \in Reads => ctl.at <= Nbytes(ctl.req)


ProgTypes ==
  /\ pc \in {"idle", "wait", "answer", "collect", "save"}
  /\ caller \in Calls \union {"failed"}
  /\ rcode \in Results \union {"0xff", "0xf0"}
  /\ token \in Tokens /\ now \in 0 .. Wrap - 1 /\ deadline \in 0 .. Wrap - 1 + Timeout
  /\ nak_count \in 0 .. NakLimit - 1 /\ retry_count \in 0 .. RetryLimit - 1
DataTypes ==
  /\ data \in Seq(Packet) /\ xfrlen \in Nat /\ delivered \in 0 .. MaxReports
  /\ toggle0 \in {0, 1} /\ rcvToggle \in {0, 1}
ChipTypes ==
  /\ busy \in Tokens \union {"none"} /\ sudfifo \in Reads \union Writes \union {"none"}
  /\ hrsl \in Results /\ rcvtog \in {0, 1} /\ fifo \in Seq(Packet)
DeviceTypes ==
  /\ ctl \in [req : Reads \union Writes \union {"none"}, at : Nat, tog : {0, 1}]
  /\ done \subseteq Writes /\ devtog \in {0, 1}
  /\ made \in 0 .. MaxReports /\ at \in 0 .. ReportLen

TransferInv ==
  /\ ProgTypes /\ DataTypes /\ ChipTypes /\ DeviceTypes /\ hxfrdn \in BOOLEAN
  /\ StageOfCall /\ OwnResult /\ PacketsThere /\ ConfirmedIsDone

LEMMA InvTypes == TransferInv => TypeOK
  BY DEF TransferInv, TypeOK, ProgTypes, DataTypes, ChipTypes, DeviceTypes

\* A dispatch starts with all its attempts, and a deadline after any reading of the clock.
LEMMA DispatchTypes ==
  ASSUME NEW t \in Tokens, Dispatch(t)
  PROVE  /\ pc' = "wait" /\ token' = t /\ busy' = t
         /\ now' \in 0 .. Wrap - 1 /\ deadline' \in 0 .. Wrap - 1 + Timeout
         /\ nak_count' \in 0 .. NakLimit - 1 /\ retry_count' \in 0 .. RetryLimit - 1
<1>1. now' \in 0 .. Wrap - 1 /\ deadline' = now' + Timeout
  BY DEF Dispatch
<1>2. deadline' \in 0 .. Wrap - 1 + Timeout
  <2>1. Wrap \in Nat /\ Timeout \in Nat
    BY TransferAssumption
  <2>2. \A n \in 0 .. Wrap - 1 : n + Timeout \in 0 .. Wrap - 1 + Timeout
    BY <2>1
  <2>3. QED
    BY <1>1, <2>2
<1>3. 0 \in 0 .. NakLimit - 1 /\ 0 \in 0 .. RetryLimit - 1
  BY TransferAssumption
<1>4. QED
  BY <1>1, <1>2, <1>3 DEF Dispatch

\* The clock is only followed inside a dispatch.
LEMMA RestTypes ==
  0 \in 0 .. Wrap - 1 /\ 0 \in 0 .. Wrap - 1 + Timeout
  BY TransferAssumption

LEMMA CallFailsTypes ==
  ASSUME ProgTypes, NEW r \in Results \union {"0xff", "0xf0"}, CallFails(r)
  PROVE  ProgTypes'
<1>1. caller' \in Calls \union {"failed"}
  BY DEF CallFails, Calls, Reads, Writes
<1>2. pc' = "idle" /\ now' = 0 /\ deadline' = 0 /\ rcode' = r
      /\ UNCHANGED <<token, nak_count, retry_count>>
  BY DEF CallFails
<1>3. QED
  BY <1>1, <1>2, RestTypes DEF ProgTypes

LEMMA CallReturnsTypes ==
  ASSUME ProgTypes, DataTypes, CallReturns, caller = "poll" => data # <<>>
  PROVE  ProgTypes' /\ data' \in Seq(Packet) /\ xfrlen' \in Nat
         /\ delivered' \in 0 .. MaxReports
<1>1. caller' \in Calls \union {"failed"}
  BY DEF CallReturns, NextCall, Calls, Reads, Writes
<1>2. pc' = "idle" /\ now' = 0 /\ deadline' = 0 /\ rcode' = "SUCCESS"
      /\ UNCHANGED <<token, nak_count, retry_count>>
  BY DEF CallReturns
<1>3. ProgTypes'
  BY <1>1, <1>2, RestTypes DEF ProgTypes, Results
<1>4. data # <<>> => data[Len(data)] \in Packet
  BY DEF DataTypes
<1>5. \A p \in Packet : p.id \in 0 .. MaxReports
  BY DEF Packet
<1>6. delivered' \in 0 .. MaxReports
  BY <1>4, <1>5 DEF CallReturns, DataTypes
<1>7. data' = <<>> /\ xfrlen' = 0
  BY DEF CallReturns
<1>8. QED
  BY <1>3, <1>6, <1>7

\* What the device sends is a packet, and no more than it has left.
LEMMA DescriptorPacketType ==
  ASSUME DeviceTypes, PacketsThere, ctl.req \in Reads
  PROVE  /\ DescriptorPacket \in Packet
         /\ ctl.at + DescriptorPacket.len \in Nat
         /\ ctl.at + DescriptorPacket.len <= Nbytes(ctl.req)
<1>1. Nbytes(ctl.req) \in Nat
  BY TransferAssumption DEF Nbytes
<1>2. ctl.at \in Nat /\ ctl.at <= Nbytes(ctl.req)
  BY DEF DeviceTypes, PacketsThere
<1>3. MaxPkt0 \in Nat /\ MaxReports \in Nat
  BY TransferAssumption
<1>4. DEFINE l == Smaller(MaxPkt0, Nbytes(ctl.req) - ctl.at)
<1>5. l \in Nat /\ ctl.at + l <= Nbytes(ctl.req)
  BY <1>1, <1>2, <1>3 DEF Smaller
<1>6. 0 \in 0 .. MaxReports
  BY <1>3
<1>7. DescriptorPacket = [id |-> 0, from |-> ctl.at, len |-> l]
  BY DEF DescriptorPacket
<1>8. HIDE DEF l
<1>9. QED
  BY <1>2, <1>5, <1>6, <1>7 DEF Packet

LEMMA ReportPacketType ==
  ASSUME DeviceTypes
  PROVE  ReportPacket \in Packet /\ at + ReportPacket.len \in 0 .. ReportLen
<1>1. ReportLen \in Nat /\ MaxPkt \in Nat /\ at \in 0 .. ReportLen /\ made \in 0 .. MaxReports
  BY TransferAssumption DEF DeviceTypes
<1>2. DEFINE l == Smaller(MaxPkt, ReportLen - at)
<1>3. l \in Nat /\ at + l \in 0 .. ReportLen /\ at \in Nat
  BY <1>1 DEF Smaller
<1>4. ReportPacket = [id |-> made, from |-> at, len |-> l]
  BY DEF ReportPacket
<1>5. HIDE DEF l
<1>6. QED
  BY <1>1, <1>3, <1>4 DEF Packet

LEMMA ReceiveTypes ==
  ASSUME ChipTypes, NEW p \in Packet, NEW tog, Receive(p, tog)
  PROVE  /\ ChipTypes' /\ hxfrdn' \in BOOLEAN /\ busy' = "none"
         /\ UNCHANGED <<pc, dispVars, callVars, togVars, sudfifo>>
         /\ fifo # <<>> => fifo' # <<>>
<1>1. Completes("SUCCESS") \/ Completes("TOGERR")
  BY DEF Receive
<1>2. busy' = "none" /\ hrsl' \in Results /\ hxfrdn' = TRUE
      /\ UNCHANGED <<pc, dispVars, callVars, togVars, sudfifo>>
  BY <1>1 DEF Completes, Results
<1>3. rcvtog' \in {0, 1}
  BY DEF Receive, ChipTypes
<1>4. fifo' = fifo \/ fifo' = Append(fifo, p)
  BY DEF Receive
<1>5. fifo' \in Seq(Packet) /\ (fifo # <<>> => fifo' # <<>>)
  BY <1>4 DEF ChipTypes
<1>6. QED
  BY <1>2, <1>3, <1>5 DEF ChipTypes

LEMMA ReadDoneKeeps ==
  ASSUME TransferInv, ReadDone
  PROVE  TransferInv'
<1>1. ProgTypes'
  BY DEF TransferInv, ProgTypes, ReadDone, dispVars, callVars
<1>2. DataTypes'
  BY DEF TransferInv, DataTypes, ReadDone, callVars, togVars
<1>3. ChipTypes'
  BY DEF TransferInv, ChipTypes, ReadDone
<1>4. DeviceTypes'
  BY DEF TransferInv, DeviceTypes, ReadDone, devVars
<1>5. hxfrdn' \in BOOLEAN
  BY DEF TransferInv, ReadDone
<1>6. StageOfCall'
  BY DEF TransferInv, StageOfCall, InDispatch, ReadDone, dispVars, callVars, devVars
<1>7. OwnResult'
  BY DEF TransferInv, OwnResult, StageOfCall, Succeeded, InDispatch, ReadDone, dispVars,
     callVars, devVars
<1>8. PacketsThere'
  BY DEF TransferInv, PacketsThere, StageOfCall, ReadDone, callVars, devVars
<1>9. ConfirmedIsDone'
  BY DEF TransferInv, ConfirmedIsDone, OwnResult, StageOfCall, Succeeded, InDispatch,
     ReadDone, callVars, devVars
<1>10. QED
  BY <1>1, <1>2, <1>3, <1>4, <1>5, <1>6, <1>7, <1>8, <1>9 DEF TransferInv

LEMMA ResendKeeps ==
  ASSUME TransferInv, Resend
  PROVE  TransferInv'
<1>1. ProgTypes'
  BY TransferAssumption DEF TransferInv, ProgTypes, Resend, Again, Counted, callVars
<1>2. DataTypes'
  BY DEF TransferInv, DataTypes, Resend, callVars, togVars
<1>3. ChipTypes'
  BY DEF TransferInv, ChipTypes, Resend, ProgTypes
<1>4. DeviceTypes'
  BY DEF TransferInv, DeviceTypes, Resend, devVars
<1>5. hxfrdn' \in BOOLEAN
  BY DEF TransferInv, Resend
<1>6. StageOfCall'
  BY DEF TransferInv, StageOfCall, InDispatch, Resend, callVars, devVars
<1>7. OwnResult'
  BY DEF TransferInv, OwnResult, StageOfCall, Succeeded, InDispatch, Resend, callVars,
     devVars
<1>8. PacketsThere'
  BY DEF TransferInv, PacketsThere, StageOfCall, Resend, callVars, devVars
<1>9. ConfirmedIsDone'
  BY DEF TransferInv, ConfirmedIsDone, OwnResult, StageOfCall, Succeeded, InDispatch,
     Resend, callVars, devVars
<1>10. QED
  BY <1>1, <1>2, <1>3, <1>4, <1>5, <1>6, <1>7, <1>8, <1>9 DEF TransferInv

LEMMA StartPollKeeps ==
  ASSUME TransferInv, StartPoll
  PROVE  TransferInv'
<1>1. ProgTypes'
  <2>1. "POLL" \in Tokens /\ Dispatch("POLL") /\ UNCHANGED <<caller, rcode>>
    BY DEF StartPoll, Tokens
  <2>2. QED
    BY <2>1, DispatchTypes DEF TransferInv, ProgTypes
<1>2. DataTypes'
  BY DEF TransferInv, DataTypes, StartPoll, Dispatch, togVars
<1>3. ChipTypes'
  BY DEF TransferInv, ChipTypes, StartPoll, Dispatch, DataTypes, Tokens
<1>4. DeviceTypes'
  BY DEF TransferInv, DeviceTypes, StartPoll, Dispatch, devVars
<1>5. hxfrdn' \in BOOLEAN
  BY DEF TransferInv, StartPoll, Dispatch
<1>6. StageOfCall'
  BY DEF TransferInv, ProgTypes, StageOfCall, InDispatch, StartPoll, Dispatch, devVars
<1>7. OwnResult'
  BY DEF TransferInv, OwnResult, StageOfCall, Succeeded, InDispatch, StartPoll, Dispatch,
     devVars
<1>8. PacketsThere'
  BY DEF TransferInv, PacketsThere, StageOfCall, StartPoll, Dispatch, devVars
<1>9. ConfirmedIsDone'
  BY DEF TransferInv, ConfirmedIsDone, OwnResult, StageOfCall, Succeeded, InDispatch,
     StartPoll, Dispatch, devVars
<1>10. QED
  BY <1>1, <1>2, <1>3, <1>4, <1>5, <1>6, <1>7, <1>8, <1>9 DEF TransferInv

LEMMA StartControlKeeps ==
  ASSUME TransferInv, StartControl
  PROVE  TransferInv'
<1>1. ProgTypes'
  <2>1. "SETUP" \in Tokens /\ Dispatch("SETUP") /\ UNCHANGED <<caller, rcode>>
    BY DEF StartControl, Tokens
  <2>2. QED
    BY <2>1, DispatchTypes DEF TransferInv, ProgTypes
<1>2. DataTypes'
  BY DEF TransferInv, DataTypes, StartControl, Dispatch, HidInit
<1>3. ChipTypes'
  BY DEF TransferInv, ChipTypes, StartControl, Dispatch, Tokens
<1>4. DeviceTypes'
  BY DEF TransferInv, DeviceTypes, StartControl, Dispatch, HidInit, devVars
<1>5. hxfrdn' \in BOOLEAN
  BY DEF TransferInv, StartControl, Dispatch, HidInit
<1>6. StageOfCall'
  BY DEF TransferInv, ProgTypes, StageOfCall, StartControl, Dispatch, Reads, Writes
<1>7. OwnResult'
  BY DEF TransferInv, OwnResult, StageOfCall, Succeeded, InDispatch, StartControl, Dispatch,
     HidInit, devVars
<1>8. PacketsThere'
  BY DEF TransferInv, PacketsThere, StageOfCall, StartControl, Dispatch, HidInit, devVars
<1>9. ConfirmedIsDone'
  BY DEF TransferInv, ConfirmedIsDone, OwnResult, StageOfCall, Succeeded, InDispatch,
     StartControl, Dispatch, HidInit, devVars
<1>10. QED
  BY <1>1, <1>2, <1>3, <1>4, <1>5, <1>6, <1>7, <1>8, <1>9 DEF TransferInv

LEMMA SetupDoneKeeps ==
  ASSUME TransferInv, SetupDone
  PROVE  TransferInv'
<1>1. ProgTypes'
  BY TransferAssumption DEF TransferInv, ProgTypes, SetupDone, Dispatch, Tokens, callVars
<1>2. DataTypes'
  BY DEF TransferInv, DataTypes, SetupDone, Dispatch, callVars
<1>3. ChipTypes'
  BY DEF TransferInv, ChipTypes, SetupDone, Dispatch, Tokens
<1>4. DeviceTypes'
  BY DEF TransferInv, DeviceTypes, SetupDone, Dispatch, devVars
<1>5. hxfrdn' \in BOOLEAN
  BY DEF TransferInv, SetupDone, Dispatch
<1>6. StageOfCall'
  BY DEF TransferInv, StageOfCall, OwnResult, Succeeded, InDispatch, SetupDone, Result,
         Answer, Dispatch, Calls, callVars, devVars
<1>7. OwnResult'
  BY DEF TransferInv, OwnResult, StageOfCall, Succeeded, InDispatch, SetupDone, Dispatch,
     callVars, devVars
<1>8. PacketsThere'
  BY DEF TransferInv, PacketsThere, StageOfCall, SetupDone, Dispatch, callVars, devVars
<1>9. ConfirmedIsDone'
  BY DEF TransferInv, ConfirmedIsDone, OwnResult, StageOfCall, Succeeded, InDispatch,
     SetupDone, Dispatch, callVars, devVars
<1>10. QED
  BY <1>1, <1>2, <1>3, <1>4, <1>5, <1>6, <1>7, <1>8, <1>9 DEF TransferInv

LEMMA InDoneKeeps ==
  ASSUME TransferInv, InDone
  PROVE  TransferInv'
<1>1. ProgTypes'
  <2>1. CASE fifo = <<>>
    BY <2>1, CallFailsTypes DEF TransferInv, InDone
  <2>2. CASE fifo # <<>>
    BY <2>2 DEF TransferInv, ProgTypes, InDone, dispVars, callVars
  <2>3. QED
    BY <2>1, <2>2
<1>2. DataTypes'
  BY DEF TransferInv, DataTypes, InDone, CallFails, callVars, togVars
<1>3. ChipTypes'
  BY DEF TransferInv, ChipTypes, InDone, CallFails, chipVars
<1>4. DeviceTypes'
  BY DEF TransferInv, DeviceTypes, InDone, CallFails, devVars
<1>5. hxfrdn' \in BOOLEAN
  BY DEF TransferInv, InDone, CallFails, chipVars
<1>6. StageOfCall'
  BY DEF TransferInv, StageOfCall, InDispatch, InDone, CallFails, dispVars, callVars,
     chipVars, devVars
<1>7. OwnResult'
  BY DEF TransferInv, OwnResult, StageOfCall, Succeeded, InDispatch, InDone, CallFails,
     dispVars, callVars, chipVars, devVars
<1>8. PacketsThere'
  BY DEF TransferInv, PacketsThere, StageOfCall, InDone, CallFails, callVars, chipVars,
     devVars
<1>9. ConfirmedIsDone'
  BY DEF TransferInv, ConfirmedIsDone, OwnResult, StageOfCall, Succeeded, InDispatch,
     InDone, CallFails, callVars, devVars
<1>10. QED
  BY <1>1, <1>2, <1>3, <1>4, <1>5, <1>6, <1>7, <1>8, <1>9 DEF TransferInv

LEMMA HandshakeDoneKeeps ==
  ASSUME TransferInv, HandshakeDone
  PROVE  TransferInv'
<1>1. ProgTypes'
  <2>1. CallReturns /\ caller # "poll"
    BY DEF TransferInv, StageOfCall, HandshakeDone, Reads, Writes
  <2>2. QED
    BY <2>1, CallReturnsTypes DEF TransferInv
<1>2. DataTypes'
  <2>1. CallReturns /\ caller # "poll" /\ UNCHANGED togVars
    BY DEF TransferInv, StageOfCall, HandshakeDone, Reads, Writes
  <2>2. QED
    BY <2>1, CallReturnsTypes DEF TransferInv, DataTypes, togVars
<1>3. ChipTypes'
  BY DEF TransferInv, ChipTypes, HandshakeDone, CallReturns, chipVars
<1>4. DeviceTypes'
  BY DEF TransferInv, DeviceTypes, HandshakeDone, CallReturns, devVars
<1>5. hxfrdn' \in BOOLEAN
  BY DEF TransferInv, HandshakeDone, CallReturns, chipVars
<1>6. StageOfCall'
  BY DEF TransferInv, StageOfCall, InDispatch, HandshakeDone, CallReturns, chipVars, devVars
<1>7. OwnResult'
  BY DEF TransferInv, OwnResult, StageOfCall, Succeeded, InDispatch, HandshakeDone,
     CallReturns, chipVars, devVars
<1>8. PacketsThere'
  BY DEF TransferInv, PacketsThere, StageOfCall, HandshakeDone, CallReturns, chipVars,
     devVars
<1>9. ConfirmedIsDone'
  BY DEF TransferInv, ConfirmedIsDone, OwnResult, StageOfCall, Succeeded, InDispatch,
     HandshakeDone, Result, Answer, CallReturns, NextCall, Reads, Writes, devVars
<1>10. QED
  BY <1>1, <1>2, <1>3, <1>4, <1>5, <1>6, <1>7, <1>8, <1>9 DEF TransferInv

LEMMA DispatchFailsKeeps ==
  ASSUME TransferInv, DispatchFails
  PROVE  TransferInv'
<1>1. ProgTypes'
  BY CallFailsTypes DEF TransferInv, DispatchFails
<1>2. DataTypes'
  BY DEF TransferInv, DataTypes, DispatchFails, CallFails, togVars
<1>3. ChipTypes'
  BY DEF TransferInv, ChipTypes, DispatchFails, CallFails, chipVars
<1>4. DeviceTypes'
  BY DEF TransferInv, DeviceTypes, DispatchFails, CallFails, devVars
<1>5. hxfrdn' \in BOOLEAN
  BY DEF TransferInv, DispatchFails, CallFails, chipVars
<1>6. StageOfCall'
  BY DEF TransferInv, StageOfCall, InDispatch, DispatchFails, CallFails, chipVars, devVars
<1>7. OwnResult'
  BY DEF TransferInv, OwnResult, StageOfCall, Succeeded, InDispatch, DispatchFails,
     CallFails, chipVars, devVars
<1>8. PacketsThere'
  BY DEF TransferInv, PacketsThere, StageOfCall, DispatchFails, CallFails, chipVars, devVars
<1>9. ConfirmedIsDone'
  BY DEF TransferInv, ConfirmedIsDone, OwnResult, StageOfCall, Succeeded, InDispatch,
     DispatchFails, CallFails, devVars
<1>10. QED
  BY <1>1, <1>2, <1>3, <1>4, <1>5, <1>6, <1>7, <1>8, <1>9 DEF TransferInv

LEMMA GiveUpKeeps ==
  ASSUME TransferInv, GiveUp
  PROVE  TransferInv'
<1>1. ProgTypes'
  BY CallFailsTypes DEF TransferInv, GiveUp
<1>2. DataTypes'
  BY DEF TransferInv, DataTypes, GiveUp, CallFails, togVars
<1>3. ChipTypes'
  BY DEF TransferInv, ChipTypes, GiveUp, CallFails
<1>4. DeviceTypes'
  BY DEF TransferInv, DeviceTypes, GiveUp, CallFails, devVars
<1>5. hxfrdn' \in BOOLEAN
  BY DEF TransferInv, GiveUp, CallFails
<1>6. StageOfCall'
  BY DEF TransferInv, StageOfCall, InDispatch, GiveUp, CallFails, devVars
<1>7. OwnResult'
  BY DEF TransferInv, OwnResult, StageOfCall, Succeeded, InDispatch, GiveUp, CallFails,
     devVars
<1>8. PacketsThere'
  BY DEF TransferInv, PacketsThere, StageOfCall, GiveUp, CallFails, devVars
<1>9. ConfirmedIsDone'
  BY DEF TransferInv, ConfirmedIsDone, OwnResult, StageOfCall, Succeeded, InDispatch,
     GiveUp, CallFails, devVars
<1>10. QED
  BY <1>1, <1>2, <1>3, <1>4, <1>5, <1>6, <1>7, <1>8, <1>9 DEF TransferInv

LEMMA CollectKeeps ==
  ASSUME TransferInv, Collect
  PROVE  TransferInv'
<1>1. ProgTypes'
  <2>1. UNCHANGED <<caller, rcode>>
    BY DEF Collect
  <2>2. CASE InComplete(Head(fifo).len, xfrlen + Head(fifo).len)
    BY <2>1, <2>2 DEF TransferInv, ProgTypes, Collect, dispVars
  <2>3. CASE ~InComplete(Head(fifo).len, xfrlen + Head(fifo).len)
    BY <2>1, <2>3, DispatchTypes DEF TransferInv, ProgTypes, Collect
  <2>4. QED
    BY <2>2, <2>3
<1>2. DataTypes'
  <2>1. Head(fifo) \in Packet /\ Head(fifo).len \in Nat
    <3>1. fifo \in Seq(Packet) /\ fifo # <<>>
      BY DEF TransferInv, ChipTypes, PacketsThere, Collect
    <3>2. Head(fifo) \in Packet
      BY <3>1
    <3>3. QED
      BY <3>2 DEF Packet
  <2>2. data' = Append(data, Head(fifo)) /\ xfrlen' = xfrlen + Head(fifo).len
    BY DEF Collect
  <2>3. data' \in Seq(Packet) /\ xfrlen' \in Nat
    BY <2>1, <2>2 DEF TransferInv, DataTypes
  <2>4. QED
    BY <2>3 DEF TransferInv, DataTypes, Collect, togVars
<1>3. ChipTypes'
  <2>1. fifo' = Tail(fifo) /\ UNCHANGED <<sudfifo, hrsl, rcvtog>>
    BY DEF Collect, KeepToggle
  <2>2. busy' = busy \/ busy' = token
    BY DEF Collect, Dispatch
  <2>3. fifo' \in Seq(Packet)
    <3>1. fifo \in Seq(Packet) /\ fifo # <<>>
      BY DEF TransferInv, ChipTypes, PacketsThere, Collect
    <3>2. QED
      BY <2>1, <3>1
  <2>4. QED
    BY <2>1, <2>2, <2>3 DEF TransferInv, ChipTypes, ProgTypes
<1>4. DeviceTypes'
  BY DEF TransferInv, DeviceTypes, Collect, Dispatch, devVars
<1>5. hxfrdn' \in BOOLEAN
  BY DEF TransferInv, Collect, Dispatch
<1>6. StageOfCall'
  BY DEF TransferInv, StageOfCall, InDispatch, Collect, Dispatch, dispVars, devVars
<1>7. OwnResult'
  BY DEF TransferInv, OwnResult, StageOfCall, Succeeded, InDispatch, Collect, Dispatch,
     dispVars, devVars
<1>8. PacketsThere'
  <2>1. data \in Seq(Packet) /\ data' = Append(data, Head(fifo))
    BY DEF TransferInv, DataTypes, Collect
  <2>2. data' # <<>>
    BY <2>1
  <2>3. pc' \in {"wait", "save"} /\ UNCHANGED ctl
    BY DEF Collect, Dispatch, devVars
  <2>4. QED
    BY <2>2, <2>3 DEF TransferInv, PacketsThere
<1>9. ConfirmedIsDone'
  BY DEF TransferInv, ConfirmedIsDone, OwnResult, StageOfCall, Succeeded, InDispatch,
     Collect, Dispatch, devVars
<1>10. QED
  BY <1>1, <1>2, <1>3, <1>4, <1>5, <1>6, <1>7, <1>8, <1>9 DEF TransferInv

LEMMA SaveKeeps ==
  ASSUME TransferInv, Save
  PROVE  TransferInv'
<1>1. ProgTypes'
  <2>1. CASE caller = "poll"
    BY <2>1, CallReturnsTypes DEF TransferInv, PacketsThere, Save
  <2>2. CASE caller # "poll"
    BY <2>2, DispatchTypes DEF TransferInv, ProgTypes, Save, callVars, Tokens
  <2>3. QED
    BY <2>1, <2>2
<1>2. DataTypes'
  <2>1. toggle0' \in {0, 1} /\ rcvToggle' \in {0, 1}
    BY DEF TransferInv, DataTypes, ChipTypes, Save, SaveToggle
  <2>2. CASE caller = "poll"
    BY <2>1, <2>2, CallReturnsTypes DEF TransferInv, PacketsThere, DataTypes, Save
  <2>3. CASE caller # "poll"
    BY <2>1, <2>3 DEF TransferInv, DataTypes, Save, callVars
  <2>4. QED
    BY <2>2, <2>3
<1>3. ChipTypes'
  BY DEF TransferInv, ChipTypes, Save, Dispatch, Tokens
<1>4. DeviceTypes'
  BY DEF TransferInv, DeviceTypes, Save, Dispatch, SaveToggle, CallReturns, devVars
<1>5. hxfrdn' \in BOOLEAN
  BY DEF TransferInv, Save, Dispatch, SaveToggle, CallReturns
<1>6. StageOfCall'
  BY DEF TransferInv, StageOfCall, InDispatch, Save, Dispatch, SaveToggle, CallReturns,
     callVars, devVars
<1>7. OwnResult'
  BY DEF TransferInv, OwnResult, StageOfCall, Succeeded, InDispatch, Save, Dispatch,
     SaveToggle, CallReturns, callVars, devVars
<1>8. PacketsThere'
  BY DEF TransferInv, PacketsThere, StageOfCall, Save, Dispatch, SaveToggle, CallReturns,
     callVars, devVars
<1>9. ConfirmedIsDone'
  BY DEF TransferInv, ConfirmedIsDone, OwnResult, StageOfCall, Succeeded, InDispatch, Save,
     Dispatch, SaveToggle, CallReturns, NextCall, callVars, devVars
<1>10. QED
  BY <1>1, <1>2, <1>3, <1>4, <1>5, <1>6, <1>7, <1>8, <1>9 DEF TransferInv

LEMMA PacketLostKeeps ==
  ASSUME TransferInv, PacketLost
  PROVE  TransferInv'
<1>1. ProgTypes'
  BY DEF TransferInv, ProgTypes, PacketLost, Completes, dispVars, callVars
<1>2. DataTypes'
  BY DEF TransferInv, DataTypes, PacketLost, Completes, callVars, togVars
<1>3. ChipTypes'
  BY DEF TransferInv, ChipTypes, PacketLost, Completes, Results
<1>4. DeviceTypes'
  BY DEF TransferInv, DeviceTypes, PacketLost, Completes
<1>5. hxfrdn' \in BOOLEAN
  BY DEF TransferInv, PacketLost, Completes
<1>6. StageOfCall'
  BY DEF TransferInv, StageOfCall, InDispatch, PacketLost, Completes, dispVars, callVars
<1>7. OwnResult'
  BY DEF TransferInv, OwnResult, StageOfCall, Succeeded, InDispatch, PacketLost, Completes,
     dispVars, callVars
<1>8. PacketsThere'
  BY DEF TransferInv, PacketsThere, StageOfCall, PacketLost, Completes, callVars
<1>9. ConfirmedIsDone'
  BY DEF TransferInv, ConfirmedIsDone, OwnResult, StageOfCall, Succeeded, InDispatch,
     PacketLost, Completes, callVars
<1>10. QED
  BY <1>1, <1>2, <1>3, <1>4, <1>5, <1>6, <1>7, <1>8, <1>9 DEF TransferInv

LEMMA RefusedKeeps ==
  ASSUME TransferInv, Refused
  PROVE  TransferInv'
<1>1. ProgTypes'
  BY DEF TransferInv, ProgTypes, Refused, Completes, dispVars, callVars
<1>2. DataTypes'
  BY DEF TransferInv, DataTypes, Refused, Completes, callVars, togVars
<1>3. ChipTypes'
  BY DEF TransferInv, ChipTypes, Refused, Completes, Results
<1>4. DeviceTypes'
  BY DEF TransferInv, DeviceTypes, Refused, Completes
<1>5. hxfrdn' \in BOOLEAN
  BY DEF TransferInv, Refused, Completes
<1>6. StageOfCall'
  BY DEF TransferInv, StageOfCall, InDispatch, Refused, Completes, dispVars, callVars
<1>7. OwnResult'
  BY DEF TransferInv, OwnResult, StageOfCall, Succeeded, InDispatch, Refused, Completes,
     dispVars, callVars
<1>8. PacketsThere'
  BY DEF TransferInv, PacketsThere, StageOfCall, Refused, Completes, callVars
<1>9. ConfirmedIsDone'
  BY DEF TransferInv, ConfirmedIsDone, OwnResult, StageOfCall, Succeeded, InDispatch,
     Refused, Completes, callVars
<1>10. QED
  BY <1>1, <1>2, <1>3, <1>4, <1>5, <1>6, <1>7, <1>8, <1>9 DEF TransferInv

LEMMA SetupArrivesKeeps ==
  ASSUME TransferInv, SetupArrives
  PROVE  TransferInv'
<1>1. ProgTypes'
  BY DEF TransferInv, ProgTypes, SetupArrives, Completes, dispVars, callVars
<1>2. DataTypes'
  BY DEF TransferInv, DataTypes, SetupArrives, Completes, callVars, togVars
<1>3. ChipTypes'
  BY DEF TransferInv, ChipTypes, SetupArrives, Completes, Results
<1>4. DeviceTypes'
  BY DEF TransferInv, DeviceTypes, SetupArrives, Completes, ChipTypes
<1>5. hxfrdn' \in BOOLEAN
  BY DEF TransferInv, SetupArrives, Completes
<1>6. StageOfCall'
  BY DEF TransferInv, ProgTypes, StageOfCall, OwnResult, InDispatch, SetupArrives, Open, Completes,
         dispVars, callVars, chipVars
<1>7. OwnResult'
  BY DEF TransferInv, OwnResult, StageOfCall, Succeeded, InDispatch, SetupArrives,
     Completes, dispVars, callVars
<1>8. PacketsThere'
  BY TransferAssumption DEF TransferInv, PacketsThere, SetupArrives, Completes, Nbytes,
     callVars
<1>9. ConfirmedIsDone'
  BY DEF TransferInv, ConfirmedIsDone, OwnResult, StageOfCall, Succeeded, InDispatch,
     SetupArrives, Completes, callVars
<1>10. QED
  BY <1>1, <1>2, <1>3, <1>4, <1>5, <1>6, <1>7, <1>8, <1>9 DEF TransferInv

LEMMA StatusArrivesKeeps ==
  ASSUME TransferInv, StatusArrives
  PROVE  TransferInv'
<1>1. ProgTypes'
  BY DEF TransferInv, ProgTypes, StatusArrives, Completes, dispVars, callVars
<1>2. DataTypes'
  BY DEF TransferInv, DataTypes, StatusArrives, Completes, callVars, togVars
<1>3. ChipTypes'
  BY DEF TransferInv, ChipTypes, StatusArrives, Completes, Results
<1>4. DeviceTypes'
  BY DEF TransferInv, DeviceTypes, StatusArrives, Completes
<1>5. hxfrdn' \in BOOLEAN
  BY DEF TransferInv, StatusArrives, Completes
<1>6. StageOfCall'
  BY DEF TransferInv, StageOfCall, InDispatch, StatusArrives, Completes, dispVars, callVars
<1>7. OwnResult'
  BY DEF TransferInv, OwnResult, StageOfCall, Succeeded, InDispatch, StatusArrives,
     Completes, dispVars, callVars
<1>8. PacketsThere'
  BY DEF TransferInv, PacketsThere, StageOfCall, StatusArrives, Completes, callVars
<1>9. ConfirmedIsDone'
  BY DEF TransferInv, ConfirmedIsDone, OwnResult, StageOfCall, Succeeded, InDispatch,
     StatusArrives, Completes, callVars
<1>10. QED
  BY <1>1, <1>2, <1>3, <1>4, <1>5, <1>6, <1>7, <1>8, <1>9 DEF TransferInv

LEMMA DescriptorArrivesKeeps ==
  ASSUME TransferInv, DescriptorArrives
  PROVE  TransferInv'
<1>1. ProgTypes'
  BY DEF TransferInv, ProgTypes, DescriptorArrives, Completes, Receive, dispVars, callVars
<1>2. DataTypes'
  BY DEF TransferInv, DataTypes, DescriptorArrives, Completes, Receive, callVars, togVars
<1>3. ChipTypes'
  BY DescriptorPacketType, ReceiveTypes DEF TransferInv, DescriptorArrives
<1>4. DeviceTypes'
  <2>1. ctl' = ctl \/ ctl' = [ctl EXCEPT !.at = @ + DescriptorPacket.len, !.tog = 1 - @]
    BY DEF DescriptorArrives
  <2>2. ctl.at + DescriptorPacket.len \in Nat
    BY DescriptorPacketType DEF TransferInv, DescriptorArrives
  <2>3. ctl' \in [req : Reads \union Writes \union {"none"}, at : Nat, tog : {0, 1}]
    <3>1. ctl \in [req : Reads \union Writes \union {"none"}, at : Nat, tog : {0, 1}]
      BY DEF TransferInv, DeviceTypes
    <3>2. 1 - ctl.tog \in {0, 1}
      BY <3>1
    <3>3. QED
      BY <2>1, <2>2, <3>1, <3>2
  <2>4. QED
    BY <2>3 DEF TransferInv, DeviceTypes, DescriptorArrives
<1>5. hxfrdn' \in BOOLEAN
  BY DEF TransferInv, DescriptorArrives, Completes, Receive
<1>6. StageOfCall'
  BY DEF TransferInv, StageOfCall, InDispatch, DescriptorArrives, Completes, Receive,
     dispVars, callVars
<1>7. OwnResult'
  BY DEF TransferInv, OwnResult, StageOfCall, Succeeded, InDispatch, DescriptorArrives,
     Completes, Receive, dispVars, callVars
<1>8. PacketsThere'
  <2>1. ctl' = ctl \/ ctl' = [ctl EXCEPT !.at = @ + DescriptorPacket.len, !.tog = 1 - @]
    BY DEF DescriptorArrives
  <2>2. DescriptorPacket \in Packet /\ ctl.at + DescriptorPacket.len <= Nbytes(ctl.req)
    BY DescriptorPacketType DEF TransferInv, DescriptorArrives
  <2>3. UNCHANGED <<pc, data>> /\ (fifo # <<>> => fifo' # <<>>)
    BY <2>2, ReceiveTypes DEF TransferInv, DescriptorArrives, callVars
  <2>4. ctl'.req = ctl.req /\ (ctl'.at = ctl.at \/ ctl'.at = ctl.at + DescriptorPacket.len)
    BY <2>1 DEF TransferInv, DeviceTypes
  <2>5. ctl'.req \in Reads => ctl'.at <= Nbytes(ctl'.req)
    BY <2>2, <2>4 DEF TransferInv, PacketsThere
  <2>6. QED
    BY <2>3, <2>5 DEF TransferInv, PacketsThere
<1>9. ConfirmedIsDone'
  BY DEF TransferInv, ConfirmedIsDone, OwnResult, StageOfCall, Succeeded, InDispatch,
     DescriptorArrives, Completes, Receive, callVars
<1>10. QED
  BY <1>1, <1>2, <1>3, <1>4, <1>5, <1>6, <1>7, <1>8, <1>9 DEF TransferInv

LEMMA ReportArrivesKeeps ==
  ASSUME TransferInv, ReportArrives
  PROVE  TransferInv'
<1>1. ProgTypes'
  BY ReportPacketType, ReceiveTypes
     DEF TransferInv, ReportArrives, ProgTypes, dispVars, callVars
<1>2. DataTypes'
  BY DEF TransferInv, DataTypes, ReportArrives, Completes, Receive, callVars, togVars
<1>3. ChipTypes'
  BY ReportPacketType, ReceiveTypes DEF TransferInv, ReportArrives
<1>4. DeviceTypes'
  <2>1. at' \in {at, at + ReportPacket.len} /\ devtog' \in {devtog, 1 - devtog}
        /\ UNCHANGED <<ctl, done, made>>
    BY DEF ReportArrives
  <2>2. at + ReportPacket.len \in 0 .. ReportLen
    BY ReportPacketType DEF TransferInv
  <2>3. QED
    BY <2>1, <2>2 DEF TransferInv, DeviceTypes
<1>5. hxfrdn' \in BOOLEAN
  BY DEF TransferInv, ReportArrives, Completes, Receive
<1>6. StageOfCall'
  BY DEF TransferInv, StageOfCall, InDispatch, ReportArrives, Completes, Receive, dispVars,
     callVars
<1>7. OwnResult'
  BY DEF TransferInv, OwnResult, StageOfCall, Succeeded, InDispatch, ReportArrives,
     Completes, Receive, dispVars, callVars
<1>8. PacketsThere'
  <2>1. UNCHANGED <<pc, data>> /\ (fifo # <<>> => fifo' # <<>>)
    BY ReportPacketType, ReceiveTypes DEF TransferInv, ReportArrives, callVars
  <2>2. UNCHANGED ctl
    BY DEF ReportArrives
  <2>3. QED
    BY <2>1, <2>2 DEF TransferInv, PacketsThere
<1>9. ConfirmedIsDone'
  BY DEF TransferInv, ConfirmedIsDone, OwnResult, StageOfCall, Succeeded, InDispatch,
     ReportArrives, Completes, Receive, callVars
<1>10. QED
  BY <1>1, <1>2, <1>3, <1>4, <1>5, <1>6, <1>7, <1>8, <1>9 DEF TransferInv

LEMMA MakeReportKeeps ==
  ASSUME TransferInv, MakeReport
  PROVE  TransferInv'
<1>1. ProgTypes'
  BY DEF TransferInv, ProgTypes, MakeReport, dispVars, callVars
<1>2. DataTypes'
  BY DEF TransferInv, DataTypes, MakeReport, callVars, togVars
<1>3. ChipTypes'
  BY DEF TransferInv, ChipTypes, MakeReport, chipVars
<1>4. DeviceTypes'
  BY TransferAssumption DEF TransferInv, DeviceTypes, MakeReport
<1>5. hxfrdn' \in BOOLEAN
  BY DEF TransferInv, MakeReport, chipVars
<1>6. StageOfCall'
  BY DEF TransferInv, StageOfCall, InDispatch, MakeReport, dispVars, callVars, chipVars
<1>7. OwnResult'
  BY DEF TransferInv, OwnResult, StageOfCall, Succeeded, InDispatch, MakeReport, dispVars,
     callVars, chipVars
<1>8. PacketsThere'
  BY DEF TransferInv, PacketsThere, StageOfCall, MakeReport, callVars, chipVars
<1>9. ConfirmedIsDone'
  BY DEF TransferInv, ConfirmedIsDone, OwnResult, StageOfCall, Succeeded, InDispatch,
     MakeReport, callVars
<1>10. QED
  BY <1>1, <1>2, <1>3, <1>4, <1>5, <1>6, <1>7, <1>8, <1>9 DEF TransferInv

LEMMA ReplugKeeps ==
  ASSUME TransferInv, Replug
  PROVE  TransferInv'
<1>1. ProgTypes'
  BY DEF TransferInv, ProgTypes, Replug, Reads, Calls, dispVars
<1>2. DataTypes'
  BY DEF TransferInv, DataTypes, Replug, togVars
<1>3. ChipTypes'
  BY DEF TransferInv, ChipTypes, Replug, chipVars
<1>4. DeviceTypes'
  BY TransferAssumption DEF TransferInv, DeviceTypes, Replug, DataTypes
<1>5. hxfrdn' \in BOOLEAN
  BY DEF TransferInv, Replug, chipVars
<1>6. StageOfCall'
  BY DEF TransferInv, StageOfCall, InDispatch, Replug, dispVars, chipVars
<1>7. OwnResult'
  BY DEF TransferInv, OwnResult, StageOfCall, Succeeded, InDispatch, Replug, dispVars,
     chipVars
<1>8. PacketsThere'
  BY DEF TransferInv, PacketsThere, Replug, Reads
<1>9. ConfirmedIsDone'
  BY DEF TransferInv, ConfirmedIsDone, OwnResult, StageOfCall, Succeeded, InDispatch, Replug
<1>10. QED
  BY <1>1, <1>2, <1>3, <1>4, <1>5, <1>6, <1>7, <1>8, <1>9 DEF TransferInv

LEMMA TickKeeps ==
  ASSUME TransferInv, Tick
  PROVE  TransferInv'
<1>1. ProgTypes'
  BY TransferAssumption DEF TransferInv, ProgTypes, Tick, callVars
<1>2. DataTypes'
  BY DEF TransferInv, DataTypes, Tick, callVars, togVars
<1>3. ChipTypes'
  BY DEF TransferInv, ChipTypes, Tick, chipVars
<1>4. DeviceTypes'
  BY DEF TransferInv, DeviceTypes, Tick, devVars
<1>5. hxfrdn' \in BOOLEAN
  BY DEF TransferInv, Tick, chipVars
<1>6. StageOfCall'
  BY DEF TransferInv, StageOfCall, InDispatch, Tick, callVars, chipVars, devVars
<1>7. OwnResult'
  BY DEF TransferInv, OwnResult, StageOfCall, Succeeded, InDispatch, Tick, callVars,
     chipVars, devVars
<1>8. PacketsThere'
  BY DEF TransferInv, PacketsThere, StageOfCall, Tick, callVars, chipVars, devVars
<1>9. ConfirmedIsDone'
  BY DEF TransferInv, ConfirmedIsDone, OwnResult, StageOfCall, Succeeded, InDispatch, Tick,
     callVars, devVars
<1>10. QED
  BY <1>1, <1>2, <1>3, <1>4, <1>5, <1>6, <1>7, <1>8, <1>9 DEF TransferInv

LEMMA InvInit == Init => TransferInv
<1>1. ReportLen \in 0 .. ReportLen /\ 0 \in 0 .. MaxReports
      /\ 0 \in 0 .. NakLimit - 1 /\ 0 \in 0 .. RetryLimit - 1
  BY TransferAssumption
<1>2. ASSUME Init PROVE ProgTypes /\ DataTypes /\ ChipTypes /\ DeviceTypes /\ hxfrdn \in BOOLEAN
  <2>1. ProgTypes
    BY <1>1, <1>2, RestTypes DEF Init, ProgTypes, Calls, Reads, Results, Tokens
  <2>2. DataTypes
    BY <1>1, <1>2 DEF Init, DataTypes
  <2>3. ChipTypes
    BY <1>2 DEF Init, ChipTypes, Results
  <2>4. DeviceTypes
    BY <1>1, <1>2 DEF Init, DeviceTypes
  <2>5. hxfrdn \in BOOLEAN
    BY <1>2 DEF Init
  <2>6. QED
    BY <2>1, <2>2, <2>3, <2>4, <2>5
<1>3. ASSUME Init PROVE StageOfCall /\ OwnResult /\ PacketsThere /\ ConfirmedIsDone
  BY <1>3 DEF Init, StageOfCall, OwnResult, PacketsThere, ConfirmedIsDone, InDispatch, Succeeded,
     Reads
<1>4. QED
  BY <1>2, <1>3 DEF TransferInv

LEMMA InvStep == TransferInv /\ [Next]_vars => TransferInv'
<1> SUFFICES ASSUME TransferInv, [Next]_vars PROVE TransferInv'
  OBVIOUS
<1>1. CASE ReadDone
  BY <1>1, ReadDoneKeeps
<1>2. CASE Resend
  BY <1>2, ResendKeeps
<1>3. CASE StartPoll
  BY <1>3, StartPollKeeps
<1>4. CASE StartControl
  BY <1>4, StartControlKeeps
<1>5. CASE SetupDone
  BY <1>5, SetupDoneKeeps
<1>6. CASE InDone
  BY <1>6, InDoneKeeps
<1>7. CASE HandshakeDone
  BY <1>7, HandshakeDoneKeeps
<1>8. CASE DispatchFails
  BY <1>8, DispatchFailsKeeps
<1>9. CASE GiveUp
  BY <1>9, GiveUpKeeps
<1>10. CASE Collect
  BY <1>10, CollectKeeps
<1>11. CASE Save
  BY <1>11, SaveKeeps
<1>12. CASE PacketLost
  BY <1>12, PacketLostKeeps
<1>13. CASE Refused
  BY <1>13, RefusedKeeps
<1>14. CASE SetupArrives
  BY <1>14, SetupArrivesKeeps
<1>15. CASE StatusArrives
  BY <1>15, StatusArrivesKeeps
<1>16. CASE DescriptorArrives
  BY <1>16, DescriptorArrivesKeeps
<1>17. CASE ReportArrives
  BY <1>17, ReportArrivesKeeps
<1>18. CASE MakeReport
  BY <1>18, MakeReportKeeps
<1>19. CASE Replug
  BY <1>19, ReplugKeeps
<1>20. CASE Tick
  BY <1>20, TickKeeps
<1>21. CASE UNCHANGED vars
  BY <1>21 DEF TransferInv, ProgTypes, DataTypes, ChipTypes, DeviceTypes, StageOfCall, OwnResult,
     PacketsThere, ConfirmedIsDone, InDispatch, Succeeded, vars, dispVars, callVars, togVars,
     chipVars, devVars, Nbytes
<1>22. QED
  BY <1>1, <1>2, <1>3, <1>4, <1>5, <1>6, <1>7, <1>8, <1>9, <1>10, <1>11,
     <1>12, <1>13, <1>14, <1>15, <1>16, <1>17, <1>18, <1>19, <1>20, <1>21 DEF Next, Program, Chip

\* The invariant of the transfers.
THEOREM TransferInvariant == Spec => []TransferInv
  BY InvInit, InvStep, PTL DEF Spec

\* The dispatcher's counters stay below their limits, packets are taken only where there are
\* some, and a poll that returns 0 has a report (XferDispatchPkt, XferInTransfer).
THEOREM TransferTypes == Spec => []TypeOK
  BY TransferInvariant, InvTypes, PTL

\* A write that returned 0 was carried out by the device (XferCtrlReq), also when transfers
\* complete after they were given up: the chip answers "busy" for the packet under way.
THEOREM WritesAreConfirmed == Spec => []ConfirmedIsDone
<1>1. TransferInv => ConfirmedIsDone
  BY DEF TransferInv
<1>2. QED
  BY TransferInvariant, <1>1, PTL
-----------------------------------------------------------------------------
(* When no transfer given up can still complete. *)

\* A transfer is under way only while the program waits for it, and its end is seen in time.
InStep ==
  /\ pc = "wait" => IF hxfrdn THEN busy = "none" /\ InTime ELSE busy = token
  /\ pc # "wait" => busy = "none" /\ hxfrdn = FALSE

\* A packet has come and is not stored yet.
Got ==
  \/ pc = "collect"
  \/ /\ pc = "answer" \/ (pc = "wait" /\ hxfrdn)
     /\ hrsl = "SUCCESS" /\ token \in {"IN", "POLL"}

OnePacket ==
  /\ ~Got => fifo = <<>>
  /\ Got => Len(fifo) = 1

Total == xfrlen + (IF Got THEN fifo[1].len ELSE 0)

\* What is stored of a descriptor, and where the device is with it: it goes on with the
\* next byte, or has to repeat the last packet because its acknowledgement was lost.
InSequence == \A i \in DOMAIN data : data[i].from = (i - 1) * MaxPkt0

InStage ==
  /\ ctl.req = caller
  /\ xfrlen = Len(data) * MaxPkt0 /\ xfrlen < Nbytes(caller)
  /\ Got => /\ fifo[1].from = xfrlen
            /\ fifo[1].len = Smaller(MaxPkt0, Nbytes(caller) - xfrlen)
  /\ IF ctl.tog = rcvtog THEN ctl.at = Total ELSE ctl.at + DescriptorPacket.len = Total

DescriptorRead ==
  /\ InDispatch /\ token = "SETUP" => data = <<>> /\ xfrlen = 0
  /\ Succeeded /\ token = "SETUP" /\ (pc = "answer" \/ hxfrdn) => ctl.at = 0 /\ ctl.tog = 1
  /\ pc # "idle" /\ caller \in Reads => InSequence /\ token \in {"SETUP", "IN", "OUTHS"}
  /\ pc \in {"wait", "answer", "collect"} /\ token = "IN" => InStage
  /\ pc # "idle" /\ caller \in Reads /\ (pc = "save" \/ token = "OUTHS") => xfrlen = Nbytes(caller)

ExactInv == ~LateAnswers /\ InStep /\ OnePacket /\ DescriptorRead


\* A packet is dispatched, with none left to store.
LEMMA DispatchStarts ==
  ASSUME pc \in {"idle", "answer", "collect", "save"}, InStep,
         NEW t \in Tokens, Dispatch(t), hxfrdn' = hxfrdn, fifo' = <<>>
  PROVE  InStep' /\ OnePacket' /\ ~Got' /\ pc' = "wait" /\ busy' = t /\ token' = t
BY DEF Dispatch, InStep, OnePacket, Got, Tokens

\* A call ends, with no packet left to store.
LEMMA CallEnds ==
  ASSUME ExactInv, pc' = "idle", busy' = "none", hxfrdn' = FALSE, fifo' = <<>>
  PROVE  ExactInv'
BY DEF ExactInv, InStep, OnePacket, Got, DescriptorRead, InDispatch, Succeeded, InStage, InSequence

\* At an answer nothing is under way, and the answer is the result of the last packet.
LEMMA AnswerIs ==
  ASSUME ExactInv, pc = "answer"
  PROVE  busy = "none" /\ hxfrdn = FALSE /\ Answer = hrsl
BY DEF ExactInv, InStep, Answer

\* The chip completes a transfer that the program waits for.
LEMMA OpenIs ==
  ASSUME ExactInv, Open
  PROVE  pc = "wait" /\ InTime /\ hxfrdn # TRUE /\ busy = token /\ ~Got /\ fifo = <<>>
<1>1. InTime /\ busy # "none"
  BY DEF ExactInv, Open
<1>2. pc = "wait" /\ busy = token /\ hxfrdn # TRUE
  BY <1>1 DEF ExactInv, InStep
<1>3. ~Got
  BY <1>1, <1>2 DEF ExactInv, InStep, Got
<1> QED BY <1>1, <1>2, <1>3 DEF ExactInv, OnePacket

LEMMA CompletesSteps ==
  ASSUME ExactInv, Open, NEW r, Completes(r)
  PROVE  InStep' /\ (Got' <=> r = "SUCCESS" /\ token \in {"IN", "POLL"}) /\ pc' = "wait"
         /\ UNCHANGED <<token, data, xfrlen, caller>>
<1>1. pc = "wait" /\ InTime
  BY OpenIs
<1> QED BY <1>1 DEF Completes, InStep, Got, InTime, dispVars, callVars

\* Steps that leave the packets of a call as they are.
LEMMA PacketsStay ==
  ASSUME DescriptorRead, UNCHANGED <<ctl, rcvtog, data, xfrlen, caller, token, fifo>>, Got' <=> Got,
         pc' = pc \/ (pc' \in {"wait", "answer"} /\ pc \in {"wait", "answer"}),
         Succeeded' /\ (pc' = "answer" \/ hxfrdn') =>
           token # "SETUP" \/ (Succeeded /\ (pc = "answer" \/ hxfrdn))
  PROVE  DescriptorRead'
<1>1. Total' = Total /\ DescriptorPacket' = DescriptorPacket
  BY DEF Total, DescriptorPacket, Nbytes
<1>2. (InStage' <=> InStage) /\ (InSequence' <=> InSequence)
  BY <1>1 DEF InStage, InSequence, Nbytes
<1> QED BY <1>2 DEF DescriptorRead, InDispatch, Nbytes

LEMMA ReadDoneExact ==
  ASSUME TransferInv, ExactInv, ReadDone
  PROVE  ExactInv'
<1>1. /\ pc = "wait" /\ pc' = "answer" /\ InTime /\ hxfrdn /\ hxfrdn' = FALSE
      /\ UNCHANGED <<ctl, rcvtog, data, xfrlen, caller, token, fifo, busy, hrsl, now, deadline>>
  BY DEF ReadDone, dispVars, callVars, devVars
<1>2. InStep' /\ busy = "none" /\ (Got' <=> Got)
  BY <1>1 DEF ExactInv, InStep, Got
<1>3. OnePacket'
  BY <1>1, <1>2 DEF ExactInv, OnePacket
<1>4. DescriptorRead'
  BY <1>1, <1>2, PacketsStay DEF ExactInv, Succeeded, InDispatch
<1> QED BY <1>2, <1>3, <1>4 DEF ExactInv

LEMMA ResendExact ==
  ASSUME TransferInv, ExactInv, Resend
  PROVE  ExactInv'
<1>1. /\ pc = "answer" /\ pc' = "wait" /\ Answer \in {"NAK", "TIMEOUT"} /\ busy' = token
      /\ UNCHANGED <<ctl, rcvtog, data, xfrlen, caller, token, fifo, hxfrdn, hrsl, now, deadline>>
  BY DEF Resend, callVars, devVars
<1>2. hxfrdn = FALSE /\ hrsl # "SUCCESS"
  BY <1>1, AnswerIs
<1>3. InStep' /\ ~Got /\ ~Got'
  BY <1>1, <1>2 DEF ExactInv, InStep, Got
<1>4. OnePacket'
  BY <1>1, <1>3 DEF ExactInv, OnePacket
<1>5. token # "none"
  BY DEF TransferInv, ProgTypes, Tokens
<1>6. DescriptorRead'
  BY <1>1, <1>3, <1>5, PacketsStay DEF ExactInv, Succeeded, InDispatch
<1> QED BY <1>3, <1>4, <1>6 DEF ExactInv

LEMMA StartPollExact ==
  ASSUME TransferInv, ExactInv, StartPoll
  PROVE  ExactInv'
<1>1. pc = "idle" /\ caller' = "poll" /\ Dispatch("POLL") /\ hxfrdn' = hxfrdn /\ fifo' = fifo
  BY DEF StartPoll
<1>2. fifo = <<>>
  BY <1>1 DEF ExactInv, OnePacket, Got
<1>3. InStep' /\ OnePacket' /\ ~Got' /\ pc' = "wait" /\ busy' = "POLL" /\ token' = "POLL"
  BY <1>1, <1>2, DispatchStarts DEF ExactInv, Tokens
<1> QED BY <1>1, <1>3 DEF ExactInv, DescriptorRead, Reads

LEMMA StartControlExact ==
  ASSUME TransferInv, ExactInv, StartControl
  PROVE  ExactInv'
<1>1. /\ pc = "idle" /\ caller' = caller /\ Dispatch("SETUP") /\ hxfrdn' = hxfrdn /\ fifo' = fifo
      /\ data' = <<>> /\ xfrlen' = 0
  BY DEF StartControl
<1>2. fifo = <<>>
  BY <1>1 DEF ExactInv, OnePacket, Got
<1>3. InStep' /\ OnePacket' /\ ~Got' /\ pc' = "wait" /\ busy' = "SETUP" /\ token' = "SETUP"
  BY <1>1, <1>2, DispatchStarts DEF ExactInv, Tokens
<1> QED BY <1>1, <1>3 DEF ExactInv, DescriptorRead, InSequence, Succeeded

LEMMA SetupDoneExact ==
  ASSUME TransferInv, ExactInv, SetupDone
  PROVE  ExactInv'
<1>1. /\ pc = "answer" /\ Answer = "SUCCESS" /\ token = "SETUP"
      /\ IF caller \in Reads THEN Dispatch("IN") /\ rcvtog' = 1 ELSE Dispatch("INHS")
      /\ UNCHANGED <<caller, data, xfrlen, hxfrdn, fifo, ctl>>
  BY DEF SetupDone, Result, callVars, devVars
<1>2. Succeeded /\ ~Got
  BY <1>1, AnswerIs DEF Succeeded, InDispatch, Got
<1>3. /\ ctl.req = caller /\ ctl.at = 0 /\ ctl.tog = 1 /\ data = <<>> /\ xfrlen = 0
      /\ fifo = <<>>
  BY <1>1, <1>2 DEF TransferInv, OwnResult, ExactInv, DescriptorRead, OnePacket, InDispatch
<1>4. CASE caller \in Reads
  <2>1. InStep' /\ OnePacket' /\ ~Got' /\ pc' = "wait" /\ busy' = "IN" /\ token' = "IN"
    BY <1>1, <1>3, <1>4, DispatchStarts DEF ExactInv, Tokens
  <2>2. Nbytes(caller) > 0
    BY TransferAssumption DEF Nbytes
  <2>3. Len(data) * MaxPkt0 = 0
    BY <1>3, TransferAssumption
  <2>4. InStage' /\ InSequence'
    BY <1>1, <1>3, <1>4, <2>1, <2>2, <2>3 DEF InStage, InSequence, Total, Nbytes
  <2> QED BY <2>1, <2>4 DEF ExactInv, DescriptorRead, Succeeded
<1>5. CASE caller \notin Reads
  <2>1. InStep' /\ OnePacket' /\ ~Got' /\ pc' = "wait" /\ busy' = "INHS" /\ token' = "INHS"
    BY <1>1, <1>3, <1>5, DispatchStarts DEF ExactInv, Tokens
  <2> QED BY <1>1, <1>5, <2>1 DEF ExactInv, DescriptorRead
<1> QED BY <1>4, <1>5

LEMMA InDoneExact ==
  ASSUME TransferInv, ExactInv, InDone
  PROVE  ExactInv' /\ pc' = "collect"
<1>1. pc = "answer" /\ Answer = "SUCCESS" /\ token \in {"IN", "POLL"}
  BY DEF InDone, Result
<1>2. Got /\ hrsl = "SUCCESS" /\ hxfrdn = FALSE /\ busy = "none"
  BY <1>1, AnswerIs DEF Got
<1>3. fifo # <<>>
  BY <1>2 DEF ExactInv, OnePacket
<1>4. /\ pc' = "collect"
      /\ UNCHANGED <<ctl, rcvtog, data, xfrlen, caller, token, fifo, hxfrdn, hrsl, busy>>
  BY <1>3 DEF InDone, dispVars, callVars, chipVars, devVars
<1>5. InStep' /\ Got' /\ OnePacket'
  BY <1>2, <1>4 DEF ExactInv, InStep, Got, OnePacket
<1>6. Total' = Total /\ DescriptorPacket' = DescriptorPacket
  BY <1>2, <1>4, <1>5 DEF Total, DescriptorPacket, Nbytes
<1>7. (InStage' <=> InStage) /\ (InSequence' <=> InSequence)
  BY <1>2, <1>4, <1>5, <1>6 DEF InStage, InSequence, Nbytes
<1>8. DescriptorRead'
  BY <1>1, <1>4, <1>7 DEF ExactInv, DescriptorRead, InDispatch, Nbytes
<1> QED BY <1>4, <1>5, <1>8 DEF ExactInv

LEMMA HandshakeDoneExact ==
  ASSUME TransferInv, ExactInv, HandshakeDone
  PROVE  ExactInv'
<1>1. /\ pc = "answer" /\ token \in {"INHS", "OUTHS"} /\ pc' = "idle"
      /\ UNCHANGED <<busy, hxfrdn, fifo>>
  BY DEF HandshakeDone, CallReturns, chipVars
<1>2. busy = "none" /\ hxfrdn = FALSE /\ fifo = <<>>
  BY <1>1, AnswerIs DEF ExactInv, OnePacket, Got
<1> QED BY <1>1, <1>2, CallEnds

LEMMA DispatchFailsExact ==
  ASSUME TransferInv, ExactInv, DispatchFails
  PROVE  ExactInv' /\ ~Got
<1>1. /\ pc = "answer" /\ Answer # "SUCCESS" /\ pc' = "idle"
      /\ UNCHANGED <<busy, hxfrdn, fifo>>
  BY DEF DispatchFails, Result, CallFails, chipVars
<1>2. busy = "none" /\ hxfrdn = FALSE /\ ~Got /\ fifo = <<>>
  BY <1>1, AnswerIs DEF ExactInv, OnePacket, Got
<1> QED BY <1>1, <1>2, CallEnds

LEMMA GiveUpExact ==
  ASSUME TransferInv, ExactInv, GiveUp
  PROVE  ExactInv' /\ ~Got
<1>1. pc = "wait" /\ ~InTime /\ pc' = "idle" /\ busy' = "none" /\ UNCHANGED <<hxfrdn, fifo>>
  BY DEF GiveUp, CallFails, ExactInv
<1>2. hxfrdn = FALSE
  BY <1>1 DEF ExactInv, InStep, TransferInv
<1>3. ~Got /\ fifo = <<>>
  BY <1>1, <1>2 DEF ExactInv, OnePacket, Got
<1> QED BY <1>1, <1>2, <1>3, CallEnds

\* What a packet of a descriptor leaves to come (Collect, XferInTransfer).
LEMMA PacketCompletes ==
  ASSUME NEW n \in Nat, NEW l \in Nat, NEW total \in Nat, total < n,
         l = Smaller(MaxPkt0, n - total)
  PROVE  /\ total + l <= n
         /\ l < MaxPkt0 \/ total + l >= n => total + l = n
         /\ ~(l < MaxPkt0 \/ total + l >= n) => l = MaxPkt0 /\ total + l < n
BY TransferAssumption DEF Smaller

LEMMA CollectExact ==
  ASSUME TransferInv, ExactInv, Collect
  PROVE  ExactInv'
<1> DEFINE p == Head(fifo)
<1>1. /\ pc = "collect" /\ data' = Append(data, p) /\ xfrlen' = xfrlen + p.len
      /\ fifo' = Tail(fifo)
      /\ UNCHANGED <<caller, hrsl, hxfrdn, ctl, rcvtog>>
      /\ IF InComplete(p.len, xfrlen + p.len) THEN pc' = "save" /\ UNCHANGED <<token, busy>>
         ELSE Dispatch(token)
  BY DEF Collect, KeepToggle, dispVars, devVars
<1>2. Got /\ Len(fifo) = 1 /\ fifo \in Seq(Packet) /\ fifo[1] = p /\ p \in Packet
  <2>1. Got /\ Len(fifo) = 1
    BY <1>1 DEF ExactInv, OnePacket, Got
  <2>2. fifo \in Seq(Packet)
    BY DEF TransferInv, ChipTypes
  <2> QED BY <2>1, <2>2
<1>3. fifo' = <<>>
  BY <1>1, <1>2
<1>4. token \in {"IN", "POLL"} /\ token \in Tokens
  BY <1>1 DEF TransferInv, StageOfCall, ProgTypes
<1>5. data \in Seq(Packet) /\ xfrlen \in Nat /\ Len(data) \in Nat /\ p.len \in Nat
  BY <1>2 DEF TransferInv, DataTypes, Packet
<1>6. data' \in Seq(Packet) /\ Len(data') = Len(data) + 1 /\ data'[Len(data) + 1] = p
      /\ \A i \in DOMAIN data' : (i \in DOMAIN data /\ data'[i] = data[i]) \/ i = Len(data) + 1
  BY <1>1, <1>2, <1>5
<1>7. InStep' /\ OnePacket' /\ ~Got'
  <2>1. CASE pc' = "save"
    BY <1>1, <1>3, <2>1 DEF ExactInv, InStep, OnePacket, Got, Dispatch
  <2>2. CASE pc' # "save"
    <3>1. Dispatch(token)
      BY <1>1, <2>2
    <3> QED BY <1>1, <1>3, <1>4, <3>1, DispatchStarts DEF ExactInv
  <2> QED BY <2>1, <2>2
<1>8. CASE token = "POLL"
  <2>1. caller = "poll"
    BY <1>1, <1>8 DEF TransferInv, StageOfCall
  <2>2. token' = "POLL"
    BY <1>1, <1>8 DEF Dispatch
  <2>3. caller' = "poll"
    BY <1>1, <2>1
  <2> QED BY <1>7, <2>2, <2>3 DEF ExactInv, DescriptorRead, Reads
<1>9. CASE token = "IN"
  <2>1. caller \in Reads /\ InStage /\ InSequence
    BY <1>1, <1>9 DEF TransferInv, StageOfCall, ExactInv, DescriptorRead
  <2>2. /\ p.from = xfrlen /\ p.len = Smaller(MaxPkt0, Nbytes(caller) - xfrlen)
        /\ xfrlen = Len(data) * MaxPkt0 /\ xfrlen < Nbytes(caller) /\ Total = xfrlen + p.len
    BY <1>2, <2>1 DEF InStage, Total
  <2>3. InSequence'
    BY <1>5, <1>6, <2>1, <2>2 DEF InSequence
  <2>4. Nbytes(caller) \in Nat /\ Maxpktsize(caller) = MaxPkt0
    BY <2>1, TransferAssumption DEF Nbytes, Maxpktsize, Reads
  <2>5. CASE InComplete(p.len, xfrlen + p.len)
    <3>1. xfrlen + p.len = Nbytes(caller)
      BY <1>5, <2>2, <2>4, <2>5, PacketCompletes DEF InComplete
    <3> QED BY <1>1, <1>7, <1>9, <2>1, <2>3, <2>5, <3>1
            DEF ExactInv, DescriptorRead, InDispatch, Nbytes
  <2>6. CASE ~InComplete(p.len, xfrlen + p.len)
    <3>1. p.len = MaxPkt0 /\ xfrlen + p.len < Nbytes(caller)
      BY <1>5, <2>2, <2>4, <2>6, PacketCompletes DEF InComplete
    <3>2. xfrlen' = Len(data') * MaxPkt0
      <4>1. MaxPkt0 \in Nat
        BY TransferAssumption
      <4> QED BY <1>1, <1>5, <1>6, <2>2, <3>1, <4>1
    <3>3. Total' = xfrlen' /\ xfrlen' = Total
      BY <1>1, <1>5, <1>7, <2>2 DEF Total
    <3>4. InStage'
      BY <1>1, <1>7, <2>1, <2>2, <3>1, <3>2, <3>3 DEF InStage, DescriptorPacket, Nbytes
    <3>5. pc' = "wait" /\ token' = "IN" /\ busy' = "IN"
      BY <1>1, <1>9, <2>6 DEF Dispatch
    <3> QED BY <1>7, <2>3, <3>4, <3>5 DEF ExactInv, DescriptorRead, Succeeded
  <2> QED BY <2>5, <2>6
<1> QED BY <1>4, <1>8, <1>9

LEMMA SaveExact ==
  ASSUME TransferInv, ExactInv, Save
  PROVE  ExactInv'
<1>1. /\ pc = "save" /\ UNCHANGED <<hxfrdn, fifo>>
      /\ IF caller = "poll" THEN pc' = "idle" /\ UNCHANGED busy
         ELSE Dispatch("OUTHS") /\ UNCHANGED <<caller, data, xfrlen>>
  BY DEF Save, CallReturns, callVars
<1>2. busy = "none" /\ hxfrdn = FALSE /\ ~Got /\ fifo = <<>>
  BY <1>1 DEF ExactInv, InStep, OnePacket, Got
<1>3. CASE caller = "poll"
  BY <1>1, <1>2, <1>3, CallEnds
<1>4. CASE caller # "poll"
  <2>1. InStep' /\ OnePacket' /\ ~Got' /\ pc' = "wait" /\ busy' = "OUTHS" /\ token' = "OUTHS"
    BY <1>1, <1>2, <1>4, DispatchStarts DEF ExactInv, Tokens
  <2>2. caller \in Reads => xfrlen = Nbytes(caller) /\ InSequence
    BY <1>1 DEF ExactInv, DescriptorRead
  <2> QED BY <1>1, <1>4, <2>1, <2>2 DEF ExactInv, DescriptorRead, InSequence, Nbytes
<1> QED BY <1>3, <1>4
-----------------------------------------------------------------------------
\* A transfer ends without a packet.
LEMMA NoPacketExact ==
  ASSUME TransferInv, ExactInv, Open, NEW r, Completes(r), UNCHANGED <<fifo, rcvtog>>,
         r # "SUCCESS" \/ token \notin {"IN", "POLL"},
         UNCHANGED ctl \/ (token = "SETUP" /\ ctl'.at = 0 /\ ctl'.tog = 1),
         token = "SETUP" /\ r = "SUCCESS" => ctl'.at = 0 /\ ctl'.tog = 1
  PROVE  ExactInv'
<1>1. /\ InStep' /\ ~Got' /\ pc' = "wait" /\ UNCHANGED <<token, data, xfrlen, caller>>
  BY CompletesSteps
<1>2. pc = "wait" /\ ~Got /\ fifo = <<>> /\ busy = token
  BY OpenIs
<1>3. OnePacket'
  BY <1>1, <1>2 DEF OnePacket
<1>4. InSequence' <=> InSequence
  BY <1>1 DEF InSequence
<1>5. token = "IN" => (InStage' <=> InStage)
  BY <1>1, <1>2 DEF InStage, Total, DescriptorPacket, Nbytes
<1>6. Succeeded' => r = "SUCCESS"
  BY DEF Succeeded, Completes
<1> QED BY <1>1, <1>2, <1>3, <1>4, <1>5, <1>6 DEF ExactInv, DescriptorRead, InDispatch, Nbytes

LEMMA PacketLostExact ==
  ASSUME TransferInv, ExactInv, PacketLost
  PROVE  ExactInv'
<1>1. PICK r \in {"TIMEOUT", "ERROR"} : Completes(r)
  BY DEF PacketLost
<1> QED BY <1>1, NoPacketExact DEF PacketLost

LEMMA RefusedExact ==
  ASSUME TransferInv, ExactInv, Refused
  PROVE  ExactInv'
<1>1. Completes("NAK") /\ Open /\ UNCHANGED <<fifo, rcvtog, ctl>>
  BY DEF Refused
<1> QED BY <1>1, NoPacketExact

LEMMA SetupArrivesExact ==
  ASSUME TransferInv, ExactInv, SetupArrives
  PROVE  ExactInv'
<1>1. PICK r \in {"SUCCESS", "TIMEOUT"} : Completes(r)
  BY DEF SetupArrives
<1>2. /\ Open /\ busy = "SETUP" /\ ctl' = [req |-> sudfifo, at |-> 0, tog |-> 1]
      /\ UNCHANGED <<fifo, rcvtog>>
  BY DEF SetupArrives
<1>3. token = "SETUP"
  BY <1>2, OpenIs
<1>4. ctl'.at = 0 /\ ctl'.tog = 1
  BY <1>2
<1> QED BY <1>1, <1>2, <1>3, <1>4, NoPacketExact

LEMMA StatusArrivesExact ==
  ASSUME TransferInv, ExactInv, StatusArrives
  PROVE  ExactInv'
<1>1. PICK r \in {"SUCCESS", "TIMEOUT"} : Completes(r)
  BY DEF StatusArrives
<1>2. Open /\ busy \in {"OUTHS", "INHS"} /\ UNCHANGED <<fifo, rcvtog, ctl>>
  BY DEF StatusArrives
<1>3. token \in {"OUTHS", "INHS"}
  BY <1>2, OpenIs
<1> QED BY <1>1, <1>2, <1>3, NoPacketExact

\* A packet comes, or the chip drops a repeated one.
LEMMA ReceiveExact ==
  ASSUME ExactInv, Open, NEW p \in Packet, NEW tog, Receive(p, tog), token \in {"IN", "POLL"}
  PROVE  /\ InStep' /\ OnePacket' /\ pc' = "wait" /\ UNCHANGED <<token, data, xfrlen, caller>>
         /\ (Got' <=> tog = rcvtog)
         /\ tog = rcvtog => fifo' = <<p>> /\ rcvtog' = 1 - rcvtog
         /\ tog # rcvtog => UNCHANGED <<fifo, rcvtog>>
<1>1. ~Got /\ fifo = <<>>
  BY OpenIs
<1>2. CASE tog = rcvtog
  <2>1. Completes("SUCCESS") /\ fifo' = <<p>> /\ rcvtog' = 1 - rcvtog
    BY <1>1, <1>2 DEF Receive
  <2>2. Len(fifo') = 1
    BY <2>1
  <2> QED BY <1>2, <2>1, <2>2, CompletesSteps DEF OnePacket
<1>3. CASE tog # rcvtog
  <2>1. Completes("TOGERR") /\ UNCHANGED <<fifo, rcvtog>>
    BY <1>3 DEF Receive
  <2> QED BY <1>1, <1>3, <2>1, CompletesSteps DEF OnePacket
<1> QED BY <1>2, <1>3

LEMMA DescriptorArrivesExact ==
  ASSUME TransferInv, ExactInv, DescriptorArrives
  PROVE  ExactInv'
<1> DEFINE p == DescriptorPacket
           n == Nbytes(caller)
<1>1. /\ Open /\ busy = "IN" /\ ctl.req \in Reads /\ Receive(p, ctl.tog)
      /\ ctl' \in {ctl, [ctl EXCEPT !.at = @ + p.len, !.tog = 1 - @]}
  BY DEF DescriptorArrives
<1>2. pc = "wait" /\ token = "IN" /\ ~Got
  BY <1>1, OpenIs
<1>3. p \in Packet
  BY <1>1, DescriptorPacketType DEF TransferInv
<1>4. /\ InStep' /\ OnePacket' /\ pc' = "wait" /\ UNCHANGED <<token, data, xfrlen, caller>>
      /\ (Got' <=> ctl.tog = rcvtog)
      /\ ctl.tog = rcvtog => fifo' = <<p>> /\ rcvtog' = 1 - rcvtog
      /\ ctl.tog # rcvtog => UNCHANGED <<fifo, rcvtog>>
  BY <1>1, <1>2, <1>3, ReceiveExact
<1>5. InStage /\ Total = xfrlen /\ caller \in Reads
  <2>1. InStage /\ caller \in Reads
    BY <1>2 DEF ExactInv, DescriptorRead, TransferInv, StageOfCall
  <2>2. xfrlen \in Nat
    BY DEF TransferInv, DataTypes
  <2> QED BY <1>2, <2>1, <2>2 DEF Total
<1>6. /\ ctl \in [req : Reads \union Writes \union {"none"}, at : Nat, tog : {0, 1}]
      /\ rcvtog \in {0, 1} /\ xfrlen \in Nat /\ p.len \in Nat
  BY <1>3 DEF TransferInv, DeviceTypes, ChipTypes, DataTypes, Packet
<1>7. ctl'.req = caller /\ ctl.req = caller
  BY <1>1, <1>5, <1>6 DEF InStage
<1>8. \/ ctl'.at = ctl.at /\ ctl'.tog = ctl.tog
      \/ ctl'.at = ctl.at + p.len /\ ctl'.tog = 1 - ctl.tog
  BY <1>1, <1>6
<1>9. p.from = ctl.at /\ p.len = Smaller(MaxPkt0, n - ctl.at)
  BY <1>7 DEF DescriptorPacket
<1>10. DescriptorPacket'.len = Smaller(MaxPkt0, n - ctl'.at)
  BY <1>4, <1>7 DEF DescriptorPacket, Nbytes
<1> HIDE DEF p
<1>11. ASSUME ctl.tog = rcvtog
       PROVE  InStage'
  <2>1. fifo'[1] = p /\ Got'
    BY <1>4, <1>11
  <2>2. ctl.at = xfrlen /\ Total' = xfrlen + p.len
    BY <1>4, <1>5, <1>11, <2>1 DEF InStage, Total
  <2>3. IF ctl'.tog = rcvtog' THEN ctl'.at = Total' ELSE ctl'.at + DescriptorPacket'.len = Total'
    BY <1>4, <1>6, <1>8, <1>9, <1>10, <1>11, <2>2
  <2> QED BY <1>4, <1>5, <1>7, <1>9, <2>1, <2>2, <2>3 DEF InStage, Nbytes
<1>12. ASSUME ctl.tog # rcvtog
       PROVE  InStage'
  <2>1. ctl.at + p.len = xfrlen /\ Total' = xfrlen
    BY <1>4, <1>5, <1>12 DEF InStage, Total, p
  <2>2. IF ctl'.tog = rcvtog' THEN ctl'.at = Total' ELSE ctl'.at + DescriptorPacket'.len = Total'
    BY <1>4, <1>6, <1>8, <1>9, <1>10, <1>12, <2>1
  <2> QED BY <1>4, <1>5, <1>7, <1>12, <2>2 DEF InStage, Nbytes
<1>13. InStage'
  BY <1>11, <1>12
<1>14. InSequence'
  BY <1>2, <1>4, <1>5 DEF ExactInv, DescriptorRead, InSequence
<1> QED BY <1>2, <1>4, <1>13, <1>14 DEF ExactInv, DescriptorRead

LEMMA ReportArrivesExact ==
  ASSUME TransferInv, ExactInv, ReportArrives
  PROVE  ExactInv'
<1>1. Open /\ busy = "POLL" /\ Receive(ReportPacket, devtog)
  BY DEF ReportArrives
<1>2. pc = "wait" /\ token = "POLL"
  BY <1>1, OpenIs
<1>3. ReportPacket \in Packet
  BY ReportPacketType DEF TransferInv
<1>4. InStep' /\ OnePacket' /\ pc' = "wait" /\ UNCHANGED <<token, data, xfrlen, caller>>
  BY <1>1, <1>2, <1>3, ReceiveExact
<1>5. caller = "poll"
  BY <1>2 DEF TransferInv, StageOfCall
<1> QED BY <1>2, <1>4, <1>5 DEF ExactInv, DescriptorRead, Reads

\* Steps outside the transfer.
LEMMA OutsideExact ==
  ASSUME TransferInv, ExactInv, MakeReport \/ Replug \/ Tick \/ UNCHANGED vars
  PROVE  ExactInv'
<1>1. CASE Replug
  <2>1. pc = "idle" /\ pc' = "idle" /\ UNCHANGED <<busy, hxfrdn, fifo>>
    BY <1>1 DEF Replug, chipVars
  <2>2. busy = "none" /\ hxfrdn = FALSE /\ fifo = <<>>
    BY <2>1 DEF ExactInv, InStep, OnePacket, Got
  <2> QED BY <2>1, <2>2, CallEnds
<1>2. CASE MakeReport \/ Tick \/ UNCHANGED vars
  <2>1. UNCHANGED <<pc, ctl, rcvtog, data, xfrlen, caller, token, fifo, busy, hxfrdn, hrsl>>
    BY <1>2 DEF MakeReport, Tick, vars, dispVars, callVars, chipVars, devVars
  <2>2. hxfrdn => UNCHANGED <<now, deadline>>
    BY <1>2 DEF MakeReport, Tick, vars, dispVars, ExactInv
  <2>3. InStep' /\ (Got' <=> Got) /\ OnePacket'
    BY <2>1, <2>2 DEF ExactInv, InStep, InTime, Got, OnePacket
  <2>4. DescriptorRead'
    BY <2>1, <2>3, PacketsStay DEF ExactInv, Succeeded, InDispatch
  <2> QED BY <2>3, <2>4 DEF ExactInv
<1> QED BY <1>1, <1>2

LEMMA ExactInit == Init /\ ~LateAnswers => ExactInv
BY DEF Init, ExactInv, InStep, OnePacket, Got, DescriptorRead, InDispatch, InStage

LEMMA ExactStep == TransferInv /\ ExactInv /\ [Next]_vars => ExactInv'
BY ReadDoneExact, ResendExact, StartPollExact, StartControlExact, SetupDoneExact, InDoneExact,
   HandshakeDoneExact, DispatchFailsExact, GiveUpExact, CollectExact, SaveExact,
   PacketLostExact, RefusedExact, SetupArrivesExact, StatusArrivesExact,
   DescriptorArrivesExact, ReportArrivesExact, OutsideExact DEF Next, Program, Chip

\* A control read that is given its bytes has them whole and in order, whatever was lost,
\* repeated or acknowledged in vain, for every size of packets and descriptors, unless a
\* transfer given up completes later (XferCtrlData, XferInTransfer).
THEOREM ReadsAreExact == ~LateAnswers /\ Spec => []ReadIsExact
<1>1. TransferInv /\ ExactInv => ReadIsExact
  BY DEF ExactInv, DescriptorRead, InSequence, ReadIsExact
<1>2. ~LateAnswers /\ Spec => []ExactInv
  BY ExactInit, ExactStep, TransferInvariant, PTL DEF Spec
<1> QED BY <1>1, <1>2, TransferInvariant, PTL
-----------------------------------------------------------------------------
\* Reports, where a packet holds a whole one and a poll ends with it, as with a boot
\* keyboard's.
OneReportPerPacket ==
  /\ ReportLen <= MaxPkt
  /\ ReportLen < MaxPkt \/ PollLen <= ReportLen

Polling == pc # "idle" /\ caller = "poll"
Taken == Polling /\ (Got \/ pc = "save")

\* The report the host has last, and the toggle it expects with the next.
LastGot == IF Taken THEN delivered + 1 ELSE delivered
Expected == IF Polling THEN rcvtog ELSE rcvToggle

Unconfigured == done = {} /\ devtog = 0 /\ made = delivered /\ at = ReportLen

\* Host and device agree on the toggle unless the acknowledgement of the last report was lost.
Agree ==
  IF devtog = Expected
  THEN (at = ReportLen /\ made = LastGot) \/ (at = 0 /\ made = LastGot + 1)
  ELSE at = 0 /\ made = LastGot

ReportsInv ==
  /\ OneReportPerPacket
  /\ caller \in Reads \/ (caller = "setconf" /\ pc = "idle") => Unconfigured
  /\ caller = "setconf" /\ pc # "idle" => rcvToggle = 0 /\ devtog = 0 /\ Agree
  /\ caller \in {"setproto", "poll"} => Agree
  /\ Polling => /\ token = "POLL"
                /\ ~Taken => rcvtog = rcvToggle
                /\ Got => fifo[1].id = delivered + 1 /\ fifo[1].len = ReportLen
                /\ pc = "save" => data[Len(data)].id = delivered + 1
                /\ pc # "save" => data = <<>> /\ xfrlen = 0

AllInv == TransferInv /\ ExactInv /\ ReportsInv

\* Steps that leave host and device with the same report and toggle.
LEMMA AgreeStays ==
  ASSUME UNCHANGED <<devtog, at, made>>, Expected' = Expected, LastGot' = LastGot
  PROVE  Agree' <=> Agree
BY DEF Agree

\* The program's steps inside a call, and the chip's, that move no report.
LEMMA InCallReports ==
  ASSUME ReportsInv, pc # "idle", pc' \notin {"idle", "save"}, pc # "save",
         UNCHANGED <<caller, devtog, at, made, delivered, rcvToggle, rcvtog, data, xfrlen, fifo>>,
         token' = token \/ caller # "poll", Got' <=> Got, "poll" \notin Reads,
         done' = done \/ caller \notin Reads
  PROVE  ReportsInv'
<1>1. (Polling' <=> Polling) /\ (Taken' <=> Taken)
  BY DEF Polling, Taken
<1>2. Expected' = Expected /\ LastGot' = LastGot
  BY <1>1 DEF Expected, LastGot
<1>3. Agree' <=> Agree
  BY <1>2, AgreeStays
<1>4. caller \in Reads => (Unconfigured' <=> Unconfigured)
  BY DEF Unconfigured
<1> QED BY <1>1, <1>3, <1>4 DEF ReportsInv, Polling

\* A call that gives no report ends.
LEMMA CallEndsReports ==
  ASSUME ReportsInv, pc # "idle", ~Taken, pc' = "idle",
         UNCHANGED <<devtog, at, made, delivered, rcvToggle, done>>,
         caller' = caller \/ caller' = "failed" \/ (caller \in Reads /\ caller' \in Reads),
         caller # "setconf" \/ caller' = "failed",
         "setconf" \notin Reads, "setproto" \notin Reads, "poll" \notin Reads, "failed" \notin Reads
  PROVE  ReportsInv'
<1>1. ~Polling' /\ ~Taken' /\ LastGot' = LastGot
  BY DEF Polling, Taken, LastGot
<1>2. Expected' = Expected
  BY <1>1 DEF ReportsInv, Polling, Expected
<1>3. (Agree' <=> Agree) /\ (Unconfigured' <=> Unconfigured)
  BY <1>1, <1>2, AgreeStays DEF Unconfigured
<1> QED BY <1>1, <1>3 DEF ReportsInv

LEMMA CallFailsReports ==
  ASSUME ReportsInv, pc # "idle", ~Taken, NEW r, CallFails(r),
         UNCHANGED <<devtog, at, made, rcvToggle, done>>
  PROVE  ReportsInv'
<1>1. pc' = "idle" /\ delivered' = delivered
      /\ (caller' = caller \/ caller' = "failed" \/ (caller \in Reads /\ caller' \in Reads))
      /\ (caller # "setconf" \/ caller' = "failed")
  BY DEF CallFails, Reads
<1>2. "setconf" \notin Reads /\ "setproto" \notin Reads /\ "poll" \notin Reads /\ "failed" \notin Reads
  BY DEF Reads
<1> QED BY <1>1, <1>2, CallEndsReports

LEMMA ReadDoneReports ==
  ASSUME AllInv, ReadDone
  PROVE  ReportsInv'
<1>1. /\ pc = "wait" /\ pc' = "answer" /\ hxfrdn /\ hxfrdn' = FALSE
      /\ UNCHANGED <<caller, devtog, at, made, delivered, rcvToggle, rcvtog, data, xfrlen, fifo>>
      /\ UNCHANGED <<token, hrsl, done>>
  BY DEF ReadDone, dispVars, callVars, togVars, devVars
<1>2. (Got' <=> Got) /\ "poll" \notin Reads
  BY <1>1 DEF Got, Reads
<1> QED BY <1>1, <1>2, InCallReports DEF AllInv

LEMMA ResendReports ==
  ASSUME AllInv, Resend
  PROVE  ReportsInv'
<1>1. /\ pc = "answer" /\ pc' = "wait" /\ Answer \in {"NAK", "TIMEOUT"}
      /\ UNCHANGED <<caller, devtog, at, made, delivered, rcvToggle, rcvtog, data, xfrlen, fifo>>
      /\ UNCHANGED <<token, hrsl, hxfrdn, done>>
  BY DEF Resend, callVars, togVars, devVars
<1>2. ~Got /\ ~Got' /\ "poll" \notin Reads
  BY <1>1, AnswerIs DEF AllInv, Got, Reads
<1> QED BY <1>1, <1>2, InCallReports DEF AllInv

\* A poll starts from the toggle that the last one saved.
LEMMA StartPollReports ==
  ASSUME AllInv, StartPoll
  PROVE  ReportsInv'
<1>1. /\ pc = "idle" /\ caller = "poll" /\ pc' = "wait" /\ token' = "POLL" /\ data' = <<>> /\ xfrlen' = 0
      /\ rcvtog' = rcvToggle
      /\ UNCHANGED <<caller, devtog, at, made, delivered, rcvToggle, fifo, hxfrdn, done>>
  BY DEF StartPoll, Dispatch, togVars, devVars
<1>2. hxfrdn = FALSE
  BY <1>1 DEF AllInv, ExactInv, InStep
<1>3. ~Got' /\ Polling' /\ ~Taken' /\ ~Polling /\ ~Taken
  BY <1>1, <1>2 DEF Got, Polling, Taken
<1>4. Expected' = Expected /\ LastGot' = LastGot
  BY <1>1, <1>3 DEF Expected, LastGot
<1>5. Agree'
  BY <1>1, <1>4, AgreeStays DEF AllInv, ReportsInv
<1>6. "poll" \notin Reads
  BY DEF Reads
<1> QED BY <1>1, <1>3, <1>5, <1>6 DEF AllInv, ReportsInv

\* A control request starts; HID_init has cleared the toggle when it configures the device.
LEMMA StartControlReports ==
  ASSUME AllInv, StartControl
  PROVE  ReportsInv'
<1>1. /\ pc = "idle" /\ caller # "poll" /\ pc' = "wait"
      /\ rcvToggle' = HidInit(caller)
      /\ UNCHANGED <<caller, devtog, at, made, delivered, fifo, hxfrdn, done>>
  BY DEF StartControl, Dispatch, Reads, Writes, devVars
<1>2. ~Polling' /\ ~Taken' /\ ~Polling /\ ~Taken
  BY <1>1 DEF Polling, Taken
<1>3. LastGot' = delivered /\ LastGot = delivered /\ Expected' = rcvToggle' /\ Expected = rcvToggle
  BY <1>1, <1>2 DEF LastGot, Expected
<1>4. "setconf" \notin Reads
  BY DEF Reads
<1>5. Unconfigured' <=> Unconfigured
  BY <1>1 DEF Unconfigured
<1>6. CASE caller = "setconf"
  <2>1. rcvToggle' = 0 /\ Unconfigured
    BY <1>1, <1>6 DEF AllInv, ReportsInv, HidInit
  <2>2. Agree'
    BY <1>1, <1>3, <2>1 DEF Agree, Unconfigured
  <2> QED BY <1>1, <1>2, <1>4, <1>6, <2>1, <2>2 DEF AllInv, ReportsInv, Unconfigured
<1>7. CASE caller # "setconf"
  <2>1. rcvToggle' = rcvToggle
    BY <1>1, <1>7 DEF HidInit
  <2>2. Agree' <=> Agree
    BY <1>1, <1>3, <2>1, AgreeStays
  <2> QED BY <1>1, <1>2, <1>5, <1>7, <2>2 DEF AllInv, ReportsInv
<1> QED BY <1>6, <1>7

LEMMA SetupDoneReports ==
  ASSUME AllInv, SetupDone
  PROVE  ReportsInv'
<1>1. /\ pc = "answer" /\ token = "SETUP" /\ pc' = "wait" /\ token' \in {"IN", "INHS"}
      /\ UNCHANGED <<caller, devtog, at, made, delivered, rcvToggle, fifo, hxfrdn, done>>
  BY DEF SetupDone, Dispatch, callVars, devVars
<1>2. caller # "poll" /\ ~Polling /\ ~Polling' /\ ~Taken /\ ~Taken'
  BY <1>1 DEF AllInv, ReportsInv, Polling, Taken
<1>3. Expected' = Expected /\ LastGot' = LastGot
  BY <1>1, <1>2 DEF Expected, LastGot
<1>4. (Agree' <=> Agree) /\ (Unconfigured' <=> Unconfigured)
  BY <1>1, <1>3, AgreeStays DEF Unconfigured
<1> QED BY <1>1, <1>2, <1>4 DEF AllInv, ReportsInv

LEMMA InDoneReports ==
  ASSUME AllInv, InDone
  PROVE  ReportsInv'
<1>1. pc = "answer" /\ Answer = "SUCCESS" /\ token \in {"IN", "POLL"} /\ pc' = "collect"
  BY InDoneExact DEF AllInv, InDone, Result
<1>2. Got /\ Got' /\ "poll" \notin Reads
  BY <1>1, AnswerIs DEF AllInv, Got, Reads
<1>3. /\ UNCHANGED <<caller, devtog, at, made, delivered, rcvToggle, rcvtog, data, xfrlen, fifo>>
      /\ UNCHANGED <<token, done>>
  BY <1>1 DEF InDone, CallFails, dispVars, callVars, togVars, chipVars, devVars
<1> QED BY <1>1, <1>2, <1>3, InCallReports DEF AllInv

\* A control request is answered: what was read is known, what was written is done.
LEMMA HandshakeDoneReports ==
  ASSUME AllInv, HandshakeDone
  PROVE  ReportsInv'
<1>1. /\ pc = "answer" /\ token \in {"INHS", "OUTHS"} /\ pc' = "idle" /\ CallReturns
      /\ UNCHANGED <<devtog, at, made, rcvToggle, done>>
  BY DEF HandshakeDone, CallReturns, togVars, devVars
<1>2. caller \in Reads \union Writes /\ caller # "poll" /\ caller' = NextCall(caller) /\ delivered' = delivered
  BY <1>1 DEF AllInv, TransferInv, StageOfCall, CallReturns, Reads, Writes
<1>3. ~Polling /\ ~Polling' /\ ~Taken /\ ~Taken'
  BY <1>1, <1>2 DEF Polling, Taken
<1>4. Expected' = Expected /\ LastGot' = LastGot
  BY <1>1, <1>2, <1>3 DEF Expected, LastGot
<1>5. (Agree' <=> Agree) /\ (Unconfigured' <=> Unconfigured)
  BY <1>1, <1>2, <1>4, AgreeStays DEF Unconfigured
<1>6. CASE caller \in Reads
  <2>1. Unconfigured' /\ caller' \in {"conf", "setconf"}
    BY <1>2, <1>5, <1>6 DEF AllInv, ReportsInv, NextCall, Reads
  <2> QED BY <1>1, <1>3, <2>1 DEF AllInv, ReportsInv
<1>7. CASE caller \in Writes
  <2>1. Agree' /\ caller' \in {"setproto", "poll"}
    BY <1>1, <1>2, <1>5, <1>7 DEF AllInv, ReportsInv, NextCall, Writes
  <2>2. "setproto" \notin Reads /\ "poll" \notin Reads
    BY DEF Reads
  <2> QED BY <1>1, <1>3, <2>1, <2>2 DEF AllInv, ReportsInv
<1> QED BY <1>2, <1>6, <1>7

LEMMA DispatchFailsReports ==
  ASSUME AllInv, DispatchFails
  PROVE  ReportsInv'
<1>1. PICK r : CallFails(r)
  BY DEF DispatchFails
<1>2. pc = "answer" /\ UNCHANGED <<devtog, at, made, rcvToggle, done>>
  BY DEF DispatchFails, togVars, devVars
<1>3. ~Taken
  BY <1>2, DispatchFailsExact DEF AllInv, Taken
<1> QED BY <1>1, <1>2, <1>3, CallFailsReports DEF AllInv

LEMMA GiveUpReports ==
  ASSUME AllInv, GiveUp
  PROVE  ReportsInv'
<1>1. CallFails("0xff") /\ pc = "wait" /\ UNCHANGED <<devtog, at, made, rcvToggle, done>>
  BY DEF GiveUp, togVars, devVars
<1>2. ~Taken
  BY <1>1, GiveUpExact DEF AllInv, Taken
<1> QED BY <1>1, <1>2, CallFailsReports DEF AllInv

\* The packet of a poll ends it; the packet of a descriptor is none of a report's.
LEMMA CollectReports ==
  ASSUME AllInv, Collect
  PROVE  ReportsInv'
<1> DEFINE p == Head(fifo)
<1>1. /\ pc = "collect" /\ data' = Append(data, p) /\ pc' \in {"save", "wait"}
      /\ UNCHANGED <<caller, devtog, at, made, delivered, rcvToggle, hxfrdn, rcvtog, hrsl, done>>
      /\ InComplete(p.len, xfrlen + p.len) => pc' = "save" /\ token' = token
  BY DEF Collect, KeepToggle, Dispatch, dispVars, togVars, devVars
<1>2. Got /\ fifo[1] = p
  BY <1>1 DEF Got
<1>3. CASE caller # "poll"
  <2>1. ~Polling /\ ~Polling' /\ ~Taken /\ ~Taken'
    BY <1>1, <1>3 DEF Polling, Taken
  <2>2. Expected' = Expected /\ LastGot' = LastGot
    BY <1>1, <2>1 DEF Expected, LastGot
  <2>3. (Agree' <=> Agree) /\ (Unconfigured' <=> Unconfigured)
    BY <1>1, <2>2, AgreeStays DEF Unconfigured
  <2> QED BY <1>1, <1>3, <2>1, <2>3 DEF AllInv, ReportsInv
<1>4. CASE caller = "poll"
  <2>1. /\ p.id = delivered + 1 /\ p.len = ReportLen /\ data = <<>> /\ xfrlen = 0
        /\ token = "POLL" /\ Agree
    BY <1>1, <1>2, <1>4 DEF AllInv, ReportsInv, Polling
  <2>2. InComplete(p.len, xfrlen + p.len)
    <3>1. Maxpktsize(caller) = MaxPkt /\ Nbytes(caller) = PollLen
      BY <1>4 DEF Maxpktsize, Nbytes
    <3>2. ReportLen < MaxPkt \/ 0 + ReportLen >= PollLen
      BY TransferAssumption DEF AllInv, ReportsInv, OneReportPerPacket
    <3> QED BY <2>1, <3>1, <3>2 DEF InComplete
  <2>3. pc' = "save" /\ token' = "POLL" /\ Len(data') = 1 /\ data'[Len(data')] = p
    BY <1>1, <2>1, <2>2
  <2>4. Polling /\ Polling' /\ Taken /\ Taken'
    BY <1>1, <1>2, <1>4, <2>3 DEF Polling, Taken
  <2>5. Expected' = Expected /\ LastGot' = LastGot
    BY <1>1, <2>4 DEF Expected, LastGot
  <2>6. Agree'
    BY <1>1, <2>1, <2>5, AgreeStays
  <2>7. ~Got'
    BY <2>3 DEF Got
  <2>8. "poll" \notin Reads
    BY DEF Reads
  <2> QED BY <1>1, <1>4, <2>1, <2>3, <2>4, <2>6, <2>7, <2>8 DEF AllInv, ReportsInv
<1> QED BY <1>3, <1>4

\* A poll gives main the report after the last; the toggle saved is the one expected next.
LEMMA SaveReports ==
  ASSUME AllInv, Save
  PROVE  ReportsInv' /\ (caller = "poll" => delivered' = delivered + 1)
<1>1. /\ pc = "save" /\ SaveToggle /\ UNCHANGED <<devtog, at, made, rcvtog, done, hxfrdn>>
      /\ IF caller = "poll" THEN CallReturns ELSE Dispatch("OUTHS") /\ UNCHANGED callVars
  BY DEF Save, devVars
<1>2. CASE caller = "poll"
  <2>1. Polling /\ Taken /\ Agree /\ data[Len(data)].id = delivered + 1
    BY <1>1, <1>2 DEF AllInv, ReportsInv, Polling, Taken
  <2>2. /\ pc' = "idle" /\ caller' = "poll" /\ delivered' = delivered + 1 /\ rcvToggle' = rcvtog
    BY <1>1, <1>2, <2>1 DEF CallReturns, NextCall, SaveToggle
  <2>3. ~Polling' /\ ~Taken'
    BY <2>2 DEF Polling, Taken
  <2>4. Expected' = Expected /\ LastGot' = LastGot
    BY <2>1, <2>2, <2>3 DEF Expected, LastGot
  <2>5. Agree'
    BY <1>1, <2>1, <2>4, AgreeStays
  <2>6. "poll" \notin Reads
    BY DEF Reads
  <2> QED BY <2>2, <2>3, <2>5, <2>6 DEF AllInv, ReportsInv
<1>3. CASE caller # "poll"
  <2>1. pc' = "wait" /\ UNCHANGED <<caller, delivered, rcvToggle>>
    BY <1>1, <1>3 DEF Dispatch, callVars, SaveToggle
  <2>2. ~Polling /\ ~Polling' /\ ~Taken /\ ~Taken'
    BY <1>3, <2>1 DEF Polling, Taken
  <2>3. Expected' = Expected /\ LastGot' = LastGot
    BY <2>1, <2>2 DEF Expected, LastGot
  <2>4. (Agree' <=> Agree) /\ (Unconfigured' <=> Unconfigured)
    BY <1>1, <2>1, <2>3, AgreeStays DEF Unconfigured
  <2> QED BY <1>1, <1>3, <2>1, <2>2, <2>4 DEF AllInv, ReportsInv
<1> QED BY <1>2, <1>3

\* A transfer ends without a packet, and the device's reports are as before.
LEMMA NoPacketReports ==
  ASSUME AllInv, Open, NEW r, Completes(r), r # "SUCCESS" \/ token \notin {"IN", "POLL"},
         UNCHANGED <<fifo, rcvtog, at, made, devtog>>, done' = done \/ caller \notin Reads
  PROVE  ReportsInv'
<1>1. pc = "wait" /\ ~Got /\ pc' = "wait" /\ ~Got'
      /\ UNCHANGED <<token, data, xfrlen, caller>>
  BY OpenIs, CompletesSteps DEF AllInv
<1>2. UNCHANGED <<delivered, rcvToggle>> /\ "poll" \notin Reads
  BY DEF Completes, callVars, togVars, Reads
<1> QED BY <1>1, <1>2, InCallReports DEF AllInv

LEMMA PacketLostReports ==
  ASSUME AllInv, PacketLost
  PROVE  ReportsInv'
<1>1. PICK r \in {"TIMEOUT", "ERROR"} : Completes(r)
  BY DEF PacketLost
<1> QED BY <1>1, NoPacketReports DEF PacketLost

LEMMA RefusedReports ==
  ASSUME AllInv, Refused
  PROVE  ReportsInv'
<1>1. Completes("NAK") /\ Open /\ UNCHANGED <<fifo, rcvtog, done, devtog, made, at>>
  BY DEF Refused
<1> QED BY <1>1, NoPacketReports

LEMMA SetupArrivesReports ==
  ASSUME AllInv, SetupArrives
  PROVE  ReportsInv'
<1>1. PICK r \in {"SUCCESS", "TIMEOUT"} : Completes(r)
  BY DEF SetupArrives
<1>2. Open /\ busy = "SETUP" /\ UNCHANGED <<fifo, rcvtog, done, devtog, made, at>>
  BY DEF SetupArrives
<1>3. token = "SETUP"
  BY <1>2, OpenIs DEF AllInv
<1> QED BY <1>1, <1>2, <1>3, NoPacketReports

\* The device's toggle is cleared only while the host's is clear.
LEMMA StatusArrivesReports ==
  ASSUME AllInv, StatusArrives
  PROVE  ReportsInv'
<1>1. PICK r \in {"SUCCESS", "TIMEOUT"} : Completes(r)
  BY DEF StatusArrives
<1>2. Open /\ busy \in {"OUTHS", "INHS"} /\ UNCHANGED <<fifo, rcvtog, ctl, made, at>>
  BY DEF StatusArrives
<1>3. token \in {"OUTHS", "INHS"} /\ token = busy /\ pc = "wait"
  BY <1>2, OpenIs DEF AllInv
<1>4. CASE busy = "OUTHS"
  <2>1. UNCHANGED <<done, devtog>>
    BY <1>4 DEF StatusArrives
  <2> QED BY <1>1, <1>2, <1>3, <2>1, NoPacketReports
<1>5. CASE busy = "INHS"
  <2>1. /\ caller \in Writes /\ ctl.req = caller
    BY <1>3, <1>5 DEF AllInv, TransferInv, StageOfCall
  <2>2. devtog' = IF caller = "setconf" THEN 0 ELSE devtog
    BY <1>5, <2>1 DEF StatusArrives
  <2>3. devtog' = devtog
    BY <1>3, <2>2 DEF AllInv, ReportsInv
  <2>4. caller \notin Reads
    BY <2>1 DEF Reads, Writes
  <2> QED BY <1>1, <1>2, <1>3, <2>3, <2>4, NoPacketReports
<1> QED BY <1>2, <1>4, <1>5

LEMMA DescriptorArrivesReports ==
  ASSUME AllInv, DescriptorArrives
  PROVE  ReportsInv'
<1>1. /\ Open /\ busy = "IN" /\ ctl.req \in Reads /\ Receive(DescriptorPacket, ctl.tog)
      /\ UNCHANGED <<done, devtog, made, at>>
  BY DEF DescriptorArrives
<1>2. pc = "wait" /\ token = "IN"
  BY <1>1, OpenIs DEF AllInv
<1>3. DescriptorPacket \in Packet
  BY <1>1, DescriptorPacketType DEF AllInv, TransferInv
<1>4. pc' = "wait" /\ UNCHANGED <<token, data, xfrlen, caller>>
  BY <1>1, <1>2, <1>3, ReceiveExact DEF AllInv
<1>5. caller \in Reads /\ caller \notin {"setconf", "setproto", "poll"}
  BY <1>2 DEF AllInv, TransferInv, StageOfCall, Reads
<1>6. UNCHANGED <<delivered, rcvToggle>>
  BY <1>1 DEF Receive, Completes, callVars, togVars
<1>7. ~Polling /\ ~Polling' /\ ~Taken /\ ~Taken'
  BY <1>4, <1>5 DEF Polling, Taken
<1>8. Expected' = Expected /\ LastGot' = LastGot
  BY <1>6, <1>7 DEF Expected, LastGot
<1>9. (Agree' <=> Agree) /\ (Unconfigured' <=> Unconfigured)
  BY <1>1, <1>6, <1>8, AgreeStays DEF Unconfigured
<1> QED BY <1>2, <1>4, <1>5, <1>7, <1>9 DEF AllInv, ReportsInv

\* A report comes, or one that the host has is repeated; the device may not learn of it.
LEMMA ReportArrivesReports ==
  ASSUME AllInv, ReportArrives
  PROVE  ReportsInv'
<1> DEFINE p == ReportPacket
<1>1. /\ Open /\ busy = "POLL" /\ at < ReportLen /\ Receive(p, devtog)
      /\ (at' = at + p.len /\ devtog' = 1 - devtog) \/ UNCHANGED <<at, devtog>>
      /\ UNCHANGED <<ctl, done, made>>
  BY DEF ReportArrives
<1>2. pc = "wait" /\ token = "POLL" /\ ~Got
  BY <1>1, OpenIs DEF AllInv
<1>3. p \in Packet
  BY ReportPacketType DEF AllInv, TransferInv
<1>4. /\ pc' = "wait" /\ UNCHANGED <<token, data, xfrlen, caller>>
      /\ (Got' <=> devtog = rcvtog)
      /\ devtog = rcvtog => fifo' = <<p>> /\ rcvtog' = 1 - rcvtog
      /\ devtog # rcvtog => UNCHANGED <<fifo, rcvtog>>
  BY <1>1, <1>2, <1>3, ReceiveExact DEF AllInv
<1>5. caller = "poll" /\ "poll" \notin Reads
  BY <1>2 DEF AllInv, TransferInv, StageOfCall, Reads
<1>6. UNCHANGED <<delivered, rcvToggle>>
  BY <1>1 DEF Receive, Completes, callVars, togVars
<1>7. Polling /\ ~Taken /\ Polling' /\ (Taken' <=> Got')
  BY <1>2, <1>4, <1>5 DEF Polling, Taken
<1>8. /\ Agree /\ data = <<>> /\ xfrlen = 0 /\ rcvtog = rcvToggle
      /\ LastGot = delivered /\ Expected = rcvtog
      /\ LastGot' = (IF Got' THEN delivered + 1 ELSE delivered) /\ Expected' = rcvtog'
  BY <1>2, <1>5, <1>6, <1>7 DEF AllInv, ReportsInv, LastGot, Expected
<1>9. /\ ReportLen \in Nat \ {0} /\ ReportLen <= MaxPkt /\ MaxPkt \in Nat /\ at \in 0 .. ReportLen
      /\ devtog \in {0, 1} /\ rcvtog \in {0, 1} /\ made \in Nat /\ delivered \in Nat
  BY TransferAssumption
     DEF AllInv, ReportsInv, OneReportPerPacket, TransferInv, DeviceTypes, ChipTypes, DataTypes
<1>10. at = 0
  BY <1>1, <1>8, <1>9 DEF Agree
<1>11. p.len = ReportLen /\ p.id = made
  BY <1>9, <1>10 DEF ReportPacket, Smaller
<1> HIDE DEF p
<1>12. \/ at' = ReportLen /\ devtog' = 1 - devtog
       \/ at' = 0 /\ devtog' = devtog
  BY <1>1, <1>9, <1>10, <1>11
<1>13. CASE devtog = rcvtog
  <2>1. made = delivered + 1
    BY <1>8, <1>9, <1>10, <1>13 DEF Agree
  <2>2. Agree'
    BY <1>1, <1>4, <1>8, <1>9, <1>12, <1>13, <2>1 DEF Agree
  <2>3. fifo'[1].id = delivered' + 1 /\ fifo'[1].len = ReportLen
    BY <1>4, <1>6, <1>11, <1>13, <2>1
  <2> QED BY <1>2, <1>4, <1>5, <1>7, <1>8, <1>13, <2>2, <2>3 DEF AllInv, ReportsInv
<1>14. CASE devtog # rcvtog
  <2>1. made = delivered
    BY <1>8, <1>9, <1>10, <1>14 DEF Agree
  <2>2. Agree'
    BY <1>1, <1>4, <1>8, <1>9, <1>12, <1>14, <2>1 DEF Agree
  <2> QED BY <1>2, <1>4, <1>5, <1>6, <1>7, <1>8, <1>14, <2>2 DEF AllInv, ReportsInv
<1> QED BY <1>13, <1>14

LEMMA MakeReportReports ==
  ASSUME AllInv, MakeReport
  PROVE  ReportsInv'
<1>1. /\ "setconf" \in done /\ at = ReportLen /\ made' = made + 1 /\ at' = 0
      /\ UNCHANGED <<pc, caller, token, delivered, rcvToggle, rcvtog, data, xfrlen, fifo>>
      /\ UNCHANGED <<done, devtog, hxfrdn, hrsl>>
  BY DEF MakeReport, dispVars, callVars, togVars, chipVars
<1>2. (Polling' <=> Polling) /\ (Got' <=> Got) /\ (Taken' <=> Taken)
  BY <1>1 DEF Polling, Got, Taken
<1>3. Expected' = Expected /\ LastGot' = LastGot
  BY <1>1, <1>2 DEF Expected, LastGot
<1>4. ReportLen # 0
  BY TransferAssumption
<1>5. Agree => Agree'
  BY <1>1, <1>3, <1>4 DEF Agree
<1>6. ~Unconfigured
  BY <1>1 DEF Unconfigured
<1> QED BY <1>1, <1>2, <1>5, <1>6 DEF AllInv, ReportsInv

LEMMA ReplugReports ==
  ASSUME AllInv, Replug
  PROVE  ReportsInv'
<1>1. pc' = "idle" /\ caller' = "header" /\ Unconfigured'
  BY DEF Replug, Unconfigured
<1> QED BY <1>1 DEF AllInv, ReportsInv, Polling

LEMMA TimeReports ==
  ASSUME AllInv, Tick \/ UNCHANGED vars
  PROVE  ReportsInv'
<1>1. /\ UNCHANGED <<pc, caller, token, delivered, rcvToggle, rcvtog, data, xfrlen, fifo>>
      /\ UNCHANGED <<done, devtog, hxfrdn, hrsl, at, made>>
  BY DEF Tick, vars, dispVars, callVars, togVars, chipVars, devVars
<1>2. (Polling' <=> Polling) /\ (Got' <=> Got) /\ (Taken' <=> Taken)
  BY <1>1 DEF Polling, Got, Taken
<1>3. Expected' = Expected /\ LastGot' = LastGot
  BY <1>1, <1>2 DEF Expected, LastGot
<1>4. (Agree' <=> Agree) /\ (Unconfigured' <=> Unconfigured)
  BY <1>1, <1>3, AgreeStays DEF Unconfigured
<1> QED BY <1>1, <1>2, <1>4 DEF AllInv, ReportsInv

LEMMA ReportsInit == Init /\ OneReportPerPacket => ReportsInv
BY DEF Init, ReportsInv, Reads, Polling, Unconfigured

LEMMA ReportsStep == AllInv /\ [Next]_vars => ReportsInv'
BY ReadDoneReports, ResendReports, StartPollReports, StartControlReports, SetupDoneReports,
   InDoneReports, HandshakeDoneReports, DispatchFailsReports, GiveUpReports, CollectReports,
   SaveReports, PacketLostReports, RefusedReports, SetupArrivesReports, StatusArrivesReports,
   DescriptorArrivesReports, ReportArrivesReports, MakeReportReports, ReplugReports, TimeReports
   DEF Next, Program, Chip

\* main is given every report once and in turn, whatever packets and acknowledgements are
\* lost: the toggle that XferInTransfer saves and HID_init clears tells a new report from a
\* repeated one.  For reports of one packet, and unless a transfer given up completes later.
THEOREM ReportsComeOnce == ~LateAnswers /\ OneReportPerPacket /\ Spec => EachReportOnce
<1>1. AllInv /\ [Next]_vars =>
        [pc = "save" /\ caller = "poll" /\ pc' = "idle" => delivered' = delivered + 1]_vars
  <2>1. SUFFICES ASSUME AllInv, Next, pc = "save", caller = "poll", pc' = "idle"
                 PROVE  delivered' = delivered + 1
    OBVIOUS
  <2>2. CASE Save
    BY <2>1, <2>2, SaveReports
  <2>3. CASE ~Save
    <3>1. ~Program
      BY <2>1, <2>3 DEF Program, StartPoll, StartControl, ReadDone, Resend, SetupDone, InDone,
                        HandshakeDone, DispatchFails, GiveUp, Collect
    <3>2. ~Chip
      <4>1. ~Open
        BY <2>1, OpenIs DEF AllInv
      <4> QED BY <4>1 DEF Chip, PacketLost, Refused, SetupArrives, StatusArrives,
                          DescriptorArrives, ReportArrives
    <3> QED BY <2>1, <3>1, <3>2 DEF Next, MakeReport, Replug, Tick
  <2> QED BY <2>2, <2>3
<1>2. Init /\ ~LateAnswers /\ OneReportPerPacket => AllInv
  BY InvInit, ExactInit, ReportsInit DEF AllInv
<1>3. AllInv /\ [Next]_vars => AllInv'
  BY InvStep, ExactStep, ReportsStep DEF AllInv
<1> QED BY <1>1, <1>2, <1>3, PTL DEF Spec, EachReportOnce
=============================================================================
