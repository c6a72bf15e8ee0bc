------------------------------ MODULE Transfer ------------------------------
(***************************************************************************)
(* The transfers of the USB host (transfer.c): control requests made of a  *)
(* SETUP packet, an optional IN stage and a handshake, polls of the        *)
(* device's interrupt endpoint, and the dispatcher under both, with its    *)
(* retries, NAK limit, time limit and data toggles, against the registers  *)
(* of the MAX3421E and a device on a bus that loses packets and answers.   *)
(*                                                                         *)
(* The program makes its calls in the order of the probe of HID.c and then *)
(* of main's loop.  A step of the program lies between two accesses to the *)
(* chip that the chip can get in between.                                  *)
(***************************************************************************)
EXTENDS Integers, Sequences

CONSTANTS NakLimit, RetryLimit, \* USB_NAK_LIMIT (200) and USB_RETRY_LIMIT (3)
          Timeout,              \* USB_XFER_TIMEOUT (5000 ms)
          Wrap,                 \* the millisecond count wraps (4294967 in the code)
          MaxPkt0, MaxPkt,      \* largest packets of the control and interrupt endpoints
          HeaderLen, DescLen,   \* bytes of the first and of the second descriptor read
          PollLen, ReportLen,   \* bytes a poll asks for (8), bytes of a report
          LateAnswers,          \* whether a transfer given up can still complete
          MaxReports            \* bound: reports in a behaviour

ASSUME TransferAssumption ==
  /\ NakLimit \in Nat \ {0} /\ RetryLimit \in Nat \ {0}
  /\ Timeout \in Nat /\ Wrap \in Nat \ {0}
  /\ MaxPkt0 \in Nat \ {0} /\ MaxPkt \in Nat \ {0}
  /\ HeaderLen \in Nat \ {0} /\ DescLen \in Nat \ {0}
  /\ PollLen \in Nat \ {0} /\ ReportLen \in Nat \ {0}
  /\ LateAnswers \in BOOLEAN
  /\ MaxReports \in Nat

Reads  == {"header", "conf"}            \* XferGetConfDescr, twice
Writes == {"setconf", "setproto"}       \* XferSetConf, XferSetProto
Calls  == Reads \union Writes \union {"poll"}
Tokens == {"SETUP", "IN", "POLL", "INHS", "OUTHS"}      \* POLL: tokIN to endpoint 1
Results == {"SUCCESS", "BUSY", "NAK", "TIMEOUT", "TOGERR", "ERROR"}     \* HRSLT
Packet == [id : 0 .. MaxReports, from : Nat, len : Nat]

VARIABLES
  pc,                   \* "idle", or where the program is in a call
  caller,               \* the call in progress, or the next one
  rcode,                \* what the last call returned; "0xff", "0xf0" besides Results
  token, nak_count, retry_count, now, deadline, \* XferDispatchPkt
  data, xfrlen,         \* XferInTransfer: packets stored in this call, their bytes
  toggle0, rcvToggle,   \* epinfo[ 0 ].rcvToggle and epinfo[ 1 ].rcvToggle
  busy,                 \* chip: the token in transfer, or "none"
  sudfifo,              \* chip: the request loaded for SETUP
  hrsl, hxfrdn,         \* chip: result of the last transfer; HXFRDNIRQ
  rcvtog, fifo,         \* chip: toggle expected next; packets received, RCVDAVIRQ if any
  ctl,                  \* device: the control request it serves
  done,                 \* device: the writes it has carried out
  devtog, made, at,     \* device: interrupt toggle, reports made, bytes of the last one acked
  delivered             \* the report main was given last

dispVars == <<token, nak_count, retry_count, now, deadline>>
callVars == <<caller, rcode, data, xfrlen, delivered>>
togVars  == <<toggle0, rcvToggle>>
chipVars == <<busy, sudfifo, hrsl, hxfrdn, rcvtog, fifo>>
devVars  == <<ctl, done, devtog, made, at>>
vars == <<pc, dispVars, callVars, togVars, chipVars, devVars>>

Init ==
  /\ pc = "idle" /\ caller = "header" /\ rcode = "SUCCESS"
  /\ token = "SETUP" /\ nak_count = 0 /\ retry_count = 0 /\ now = 0 /\ deadline = 0
  /\ data = <<>> /\ xfrlen = 0 /\ toggle0 = 0 /\ rcvToggle = 0 /\ delivered = 0
  /\ busy = "none" /\ sudfifo = "none" /\ hrsl = "SUCCESS" /\ hxfrdn = FALSE
  /\ rcvtog = 0 /\ fifo = <<>>
  /\ ctl = [req |-> "none", at |-> 0, tog |-> 0]
  /\ done = {} /\ devtog = 0 /\ made = 0 /\ at = ReportLen

Nbytes(c)     == CASE c = "header" -> HeaderLen [] c = "conf" -> DescLen [] OTHER -> PollLen
Maxpktsize(c) == IF c = "poll" THEN MaxPkt ELSE MaxPkt0
-----------------------------------------------------------------------------
(* The dispatcher, XferDispatchPkt. *)

\* Entry: the deadline is set and the packet launched.  The clock reads anything.
Dispatch(t) ==
  /\ token' = t /\ nak_count' = 0 /\ retry_count' = 0
  /\ now' \in 0 .. Wrap - 1 /\ deadline' = now' + Timeout
  /\ busy' = t
  /\ pc' = "wait"

InTime == now < deadline

ReadDone ==
  /\ pc = "wait" /\ InTime /\ hxfrdn
  /\ hxfrdn' = FALSE
  /\ pc' = "answer"
  /\ UNCHANGED <<dispVars, callVars, togVars, busy, sudfifo, hrsl, rcvtog, fifo, devVars>>

\* What rHRSL shows: a transfer under way has no result yet.
Answer == IF busy = "none" THEN hrsl ELSE "BUSY"

Again(n, limit) == n + 1 < limit

CountedNot(n) == n              \* mutant: refused attempts are not counted
Counted(n) == n + 1

Resend ==
  /\ pc = "answer"
  /\ \/ /\ Answer = "NAK" /\ Again(nak_count, NakLimit)
        /\ nak_count' = Counted(nak_count) /\ UNCHANGED retry_count
     \/ /\ Answer = "TIMEOUT" /\ Again(retry_count, RetryLimit)
        /\ retry_count' = Counted(retry_count) /\ UNCHANGED nak_count
  /\ busy' = token
  /\ pc' = "wait"
  /\ UNCHANGED <<token, now, deadline, callVars, togVars>>
  /\ UNCHANGED <<sudfifo, hrsl, hxfrdn, rcvtog, fifo, devVars>>

\* The code XferDispatchPkt ends with, when it does not resend.
ResultSparingTimeouts(r) ==     \* mutant: running out of retries leaves no error code
  /\ Answer \in (IF r = "SUCCESS" THEN {r, "TIMEOUT"} ELSE {r})
  /\ Answer = "NAK" => ~Again(nak_count, NakLimit)
  /\ Answer = "TIMEOUT" => ~Again(retry_count, RetryLimit)

Result(r) ==
  /\ Answer = r
  /\ r = "NAK" => ~Again(nak_count, NakLimit)
  /\ r = "TIMEOUT" => ~Again(retry_count, RetryLimit)
-----------------------------------------------------------------------------
(* The calls. *)

NextCall(c) ==
  CASE c = "header" -> "conf" [] c = "conf" -> "setconf"
    [] c = "setconf" -> "setproto" [] OTHER -> "poll"

\* A poll goes on after any result.  A failed probe can be followed by the next one,
\* unless the device had been recognised by then.
CallFails(r) ==
  /\ pc' = "idle" /\ now' = 0 /\ deadline' = 0
  /\ rcode' = r
  /\ caller' \in CASE caller = "poll" -> {"poll"}
                   [] caller \in Reads -> {"header", "failed"}
                   [] OTHER -> {"failed"}
  /\ UNCHANGED <<token, nak_count, retry_count, data, xfrlen, delivered>>

CallReturns ==
  /\ pc' = "idle" /\ now' = 0 /\ deadline' = 0
  /\ rcode' = "SUCCESS"
  /\ caller' = NextCall(caller)
  /\ delivered' = IF caller = "poll" THEN data[Len(data)].id ELSE delivered
  /\ data' = <<>> /\ xfrlen' = 0
  /\ UNCHANGED <<token, nak_count, retry_count>>

\* kbdPoll: XferInTransfer on endpoint 1 starts from the toggle saved there.
StartPoll ==
  /\ pc = "idle" /\ caller = "poll"
  /\ Dispatch("POLL")
  /\ data' = <<>> /\ xfrlen' = 0
  /\ rcvtog' = rcvToggle
  /\ UNCHANGED <<caller, rcode, delivered, togVars, sudfifo, hrsl, hxfrdn, fifo, devVars>>

HidInitNot(c) == rcvToggle              \* mutant: the probe does not reset the toggle

\* HID_init, which the probe calls before it configures the device.
HidInit(c) == IF c = "setconf" THEN 0 ELSE rcvToggle

\* XferCtrlReq: load the request and dispatch the SETUP packet.
StartControl ==
  /\ pc = "idle" /\ caller \in Reads \union Writes
  /\ Dispatch("SETUP")
  /\ sudfifo' = caller
  /\ data' = <<>> /\ xfrlen' = 0
  /\ rcvToggle' = HidInit(caller)
  /\ UNCHANGED <<caller, rcode, delivered, toggle0, hrsl, hxfrdn, rcvtog, fifo, devVars>>

\* XferCtrlData: the data stage starts from DATA1.
SetupDone ==
  /\ pc = "answer" /\ Result("SUCCESS") /\ token = "SETUP"
  /\ IF caller \in Reads
     THEN Dispatch("IN") /\ toggle0' = 1 /\ rcvtog' = 1
     ELSE Dispatch("INHS") /\ UNCHANGED <<toggle0, rcvtog>>
  /\ UNCHANGED <<callVars, rcvToggle, sudfifo, hrsl, hxfrdn, fifo, devVars>>

InDone ==
  /\ pc = "answer" /\ Result("SUCCESS") /\ token \in {"IN", "POLL"}
  /\ IF fifo = <<>> THEN CallFails("0xf0")
     ELSE pc' = "collect" /\ UNCHANGED <<dispVars, callVars>>
  /\ UNCHANGED <<togVars, chipVars, devVars>>

HandshakeDone ==
  /\ pc = "answer" /\ Result("SUCCESS") /\ token \in {"INHS", "OUTHS"}
  /\ CallReturns
  /\ UNCHANGED <<togVars, chipVars, devVars>>

DispatchFails ==
  /\ pc = "answer"
  /\ \E r \in Results \ {"SUCCESS"} : Result(r) /\ CallFails(r)
  /\ UNCHANGED <<togVars, chipVars, devVars>>

\* The time limit.  Unless LateAnswers, the transfer given up never happens.
GiveUp ==
  /\ pc = "wait" /\ ~InTime
  /\ CallFails("0xff")
  /\ busy' = IF LateAnswers THEN busy ELSE "none"
  /\ UNCHANGED <<togVars, sudfifo, hrsl, hxfrdn, rcvtog, fifo, devVars>>

\* XferInTransfer's end: a short packet, or all bytes.
InComplete(len, total) == len < Maxpktsize(caller) \/ total >= Nbytes(caller)

RetoggleEach ==                 \* mutant: the toggle is written before every packet
  rcvtog' = IF caller = "poll" THEN rcvToggle ELSE toggle0

\* The toggle register while a transfer goes on: nothing but the chip changes it.
KeepToggle == UNCHANGED rcvtog

\* A packet is stored; then more are asked for, or the transfer is complete.
Collect ==
  /\ pc = "collect"
  /\ LET p == Head(fifo) IN
     /\ data' = Append(data, p) /\ xfrlen' = xfrlen + p.len
     /\ IF InComplete(p.len, xfrlen + p.len)
        THEN pc' = "save" /\ UNCHANGED <<dispVars, busy, rcvtog>>
        ELSE Dispatch(token) /\ KeepToggle
  /\ fifo' = Tail(fifo)
  /\ UNCHANGED <<caller, rcode, delivered, togVars, sudfifo, hrsl, hxfrdn, devVars>>

SaveToggle ==
  IF caller = "poll" THEN rcvToggle' = rcvtog /\ UNCHANGED toggle0
  ELSE toggle0' = rcvtog /\ UNCHANGED rcvToggle

\* XferInTransfer returns 0: to a poll, or to the status stage of XferCtrlData.
Save ==
  /\ pc = "save"
  /\ SaveToggle
  /\ IF caller = "poll" THEN CallReturns /\ UNCHANGED busy
     ELSE Dispatch("OUTHS") /\ UNCHANGED callVars
  /\ UNCHANGED <<sudfifo, hrsl, hxfrdn, rcvtog, fifo, devVars>>

Program ==
  \/ StartPoll \/ StartControl \/ ReadDone \/ Resend \/ SetupDone \/ InDone
  \/ HandshakeDone \/ DispatchFails \/ GiveUp \/ Collect \/ Save
-----------------------------------------------------------------------------
(* The chip and the device.  An answer the chip does not see is a TIMEOUT. *)

Open == busy # "none" /\ (LateAnswers \/ InTime)

Completes(r) ==
  /\ busy' = "none" /\ hrsl' = r /\ hxfrdn' = TRUE
  /\ UNCHANGED <<pc, dispVars, callVars, togVars, sudfifo>>

PacketLost ==
  /\ Open /\ \E r \in {"TIMEOUT", "ERROR"} : Completes(r)
  /\ UNCHANGED <<rcvtog, fifo, ctl, done, devtog, made, at>>

\* A device refuses no SETUP; its interrupt endpoint refuses when there is no report.
Refused ==
  /\ Open /\ busy # "SETUP" /\ (busy = "POLL" => at = ReportLen)
  /\ Completes("NAK")
  /\ UNCHANGED <<rcvtog, fifo, ctl, done, devtog, made, at>>

SetupArrives ==
  /\ Open /\ busy = "SETUP"
  /\ ctl' = [req |-> sudfifo, at |-> 0, tog |-> 1]
  /\ \E r \in {"SUCCESS", "TIMEOUT"} : Completes(r)
  /\ UNCHANGED <<rcvtog, fifo, done, devtog, made, at>>

StatusArrives ==
  /\ Open
  /\ \/ busy = "OUTHS" /\ ctl.req \in Reads /\ UNCHANGED <<done, devtog>>
     \/ /\ busy = "INHS" /\ ctl.req \in Writes
        /\ done' = done \union {ctl.req}
        /\ devtog' = IF ctl.req = "setconf" THEN 0 ELSE devtog
  /\ \E r \in {"SUCCESS", "TIMEOUT"} : Completes(r)
  /\ UNCHANGED <<rcvtog, fifo, ctl, made, at>>

Smaller(m, n) == IF m < n THEN m ELSE n

\* What the device sends next on each endpoint.
DescriptorPacket ==
  [id |-> 0, from |-> ctl.at, len |-> Smaller(MaxPkt0, Nbytes(ctl.req) - ctl.at)]
ReportPacket == [id |-> made, from |-> at, len |-> Smaller(MaxPkt, ReportLen - at)]

\* A data packet reaches the chip.  One with the wrong toggle is a repetition to it:
\* acknowledged and dropped.  The device goes on when the acknowledgement arrives.
Receive(p, tog) ==
  IF tog = rcvtog
  THEN Len(fifo) < 2 /\ fifo' = Append(fifo, p) /\ rcvtog' = 1 - rcvtog /\ Completes("SUCCESS")
  ELSE Completes("TOGERR") /\ UNCHANGED <<fifo, rcvtog>>

DescriptorArrives ==
  /\ Open /\ busy = "IN" /\ ctl.req \in Reads
  /\ Receive(DescriptorPacket, ctl.tog)
  /\ \E acked \in BOOLEAN :
       ctl' = IF acked THEN [ctl EXCEPT !.at = @ + DescriptorPacket.len, !.tog = 1 - @] ELSE ctl
  /\ UNCHANGED <<done, devtog, made, at>>

ReportArrives ==
  /\ Open /\ busy = "POLL" /\ at < ReportLen
  /\ Receive(ReportPacket, devtog)
  /\ \E acked \in BOOLEAN :
       IF acked THEN at' = at + ReportPacket.len /\ devtog' = 1 - devtog
       ELSE UNCHANGED <<at, devtog>>
  /\ UNCHANGED <<ctl, done, made>>

Chip == \/ PacketLost \/ Refused \/ SetupArrives \/ StatusArrives
        \/ DescriptorArrives \/ ReportArrives

\* A configured device has something new to report, once the last report is acknowledged.
MakeReport ==
  /\ "setconf" \in done /\ at = ReportLen /\ made < MaxReports
  /\ made' = made + 1 /\ at' = 0
  /\ UNCHANGED <<pc, dispVars, callVars, togVars, chipVars, ctl, done, devtog>>

\* The device is exchanged; the program starts over.  Unread reports are gone.
Replug ==
  /\ pc = "idle"
  /\ ctl' = [req |-> "none", at |-> 0, tog |-> 0]
  /\ done' = {} /\ devtog' = 0 /\ made' = delivered /\ at' = ReportLen
  /\ caller' = "header"
  /\ UNCHANGED <<pc, dispVars, rcode, data, xfrlen, delivered, togVars, chipVars>>

\* Time passes.  The loop looks at the clock many times in a millisecond, so it never
\* misses the deadline; and without late answers it is never reached over a completion.
Tick ==
  /\ pc = "wait" /\ InTime /\ (LateAnswers \/ ~hxfrdn)
  /\ now' = (now + 1) % Wrap
  /\ UNCHANGED <<pc, token, nak_count, retry_count, deadline>>
  /\ UNCHANGED <<callVars, togVars, chipVars, devVars>>

Next == Program \/ Chip \/ MakeReport \/ Replug \/ Tick

Spec == Init /\ [][Next]_vars
\* The loop runs, and the chip ends every transfer it is given.
FairSpec == Spec /\ WF_vars(Program) /\ WF_vars(Chip)
-----------------------------------------------------------------------------
TypeOK ==
  /\ pc \in {"idle", "wait", "answer", "collect", "save"}
  /\ caller \in Calls \union {"failed"}
  /\ rcode \in Results \union {"0xff", "0xf0"}
  /\ token \in Tokens /\ now \in 0 .. Wrap - 1 /\ deadline \in 0 .. Wrap - 1 + Timeout
  /\ nak_count \in 0 .. NakLimit - 1 /\ retry_count \in 0 .. RetryLimit - 1
  /\ data \in Seq(Packet) /\ xfrlen \in Nat
  /\ toggle0 \in {0, 1} /\ rcvToggle \in {0, 1}
  /\ busy \in Tokens \union {"none"} /\ sudfifo \in Reads \union Writes \union {"none"}
  /\ hrsl \in Results /\ hxfrdn \in BOOLEAN
  /\ rcvtog \in {0, 1} /\ fifo \in Seq(Packet)
  /\ ctl \in [req : Reads \union Writes \union {"none"}, at : Nat, tog : {0, 1}]
  /\ done \subseteq Writes /\ devtog \in {0, 1}
  /\ made \in 0 .. MaxReports /\ at \in 0 .. ReportLen
  /\ delivered \in 0 .. MaxReports

\* A control read that is given its bytes has them whole and in order, whatever was
\* lost, repeated or acknowledged in vain (XferCtrlData, XferInTransfer).
ReadIsExact ==
  pc # "idle" /\ caller \in Reads =>
    /\ \A i \in DOMAIN data : data[i].from = (i - 1) * MaxPkt0
    /\ token = "OUTHS" => xfrlen = Nbytes(caller)

\* A write that returned 0 has been carried out by the device: the return codes of
\* XferCtrlReq and XferDispatchPkt (transfer.c 75, 138).
ConfirmedIsDone ==
  /\ caller = "setproto" => "setconf" \in done
  /\ caller = "poll" => Writes \subseteq done

\* main is given every report once and in turn: none is taken for a repetition, no
\* repetition for a report (the toggle of XferInTransfer and HID_init).
EachReportOnce ==
  [][pc = "save" /\ caller = "poll" /\ pc' = "idle" => delivered' = delivered + 1]_vars

\* Every call returns: NAKs and timeouts are limited (XferDispatchPkt), packets are counted.
CallsReturn == pc # "idle" ~> pc = "idle"
=============================================================================
