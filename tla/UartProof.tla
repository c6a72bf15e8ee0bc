------------------------------ MODULE UartProof ------------------------------
(***************************************************************************)
(* Proofs about JtagUart: its types, the interrupts that are never left    *)
(* off while somebody waits for them, and that each direction is a         *)
(* ByteStream, for rings and FIFOs of every size.                          *)
(***************************************************************************)
EXTENDS JtagUart, SequenceTheorems, TLAPS

\* The number of characters in a ring.
Occ(in, out) == IF in >= out THEN in - out ELSE in - out + BufLen

\* What is left of the space the routine read fits into the FIFO, which only the host
\* touches besides it.
SpaceFits == isr \in {"rx", "tx"} => space <= Depth - Len(txfifo)

\* The index that a copy read before may have moved since, but only so that there is more
\* room in the transmit ring, or more to read in the receive ring.
Looks ==
  /\ pc = "wput" => /\ count > 0 /\ Room(tx_in, seen) > 0
                    /\ Occ(tx_in, tx_out) <= Occ(tx_in, seen)
  /\ pc = "rget" => /\ Held(seen, rx_out) > 0
                    /\ Occ(seen, rx_out) <= Occ(rx_in, rx_out)
  /\ pc \in {"rcopy", "rget", "rwait", "rtest"} => count > 0

\* TypeOK, by the groups of variables that a step may leave alone.
CallTypes ==
  /\ pc \in {"idle", "wcopy", "wput", "kick", "wwait", "wtest",
             "rcopy", "rget", "rwait", "rtest", "renable", "close"}
  /\ count \in 0 .. MaxCount /\ moved \in BOOLEAN /\ nonblock \in BOOLEAN
  /\ seen \in 0 .. BufLen - 1
  /\ ret \in {"none", "0", "count", "EWOULDBLOCK", "EIO"}
HostTypes ==
  /\ program \in Programs /\ timeout \in 2 .. IntMax - 1 /\ host_inactive \in 0 .. IntMax - 2
  /\ ac \in BOOLEAN
TxTypes ==
  /\ tx_in \in 0 .. BufLen - 1 /\ tx_out \in 0 .. BufLen - 1
  /\ tx_buf \in [0 .. BufLen - 1 -> 0 .. Chars - 1]
  /\ txfifo \in Seq(0 .. Chars - 1) /\ Len(txfifo) <= Depth
  /\ put \in 0 .. Chars - 1 /\ got \in Seq(0 .. Chars - 1)
RxTypes ==
  /\ rx_in \in 0 .. BufLen - 1 /\ rx_out \in 0 .. BufLen - 1
  /\ rx_buf \in [0 .. BufLen - 1 -> 0 .. Chars - 1]
  /\ rxfifo \in Seq(0 .. Chars - 1) /\ Len(rxfifo) <= Depth
  /\ sent \in 0 .. Chars - 1 /\ read \in Seq(0 .. Chars - 1)
IsrTypes ==
  /\ isr \in {"off", "loop", "rx", "tx", "alarm"}
  /\ control \subseteq {"RI", "WI"} /\ space \in 0 .. Depth /\ avail \in BOOLEAN
  /\ irq_enable \subseteq {"RE", "WE"}

UartInv ==
  /\ CallTypes /\ HostTypes /\ TxTypes /\ RxTypes /\ IsrTypes
  /\ SpaceFits /\ Looks /\ PendingMeansEnabled /\ ReceiveOffMeansFull
-----------------------------------------------------------------------------
(* The rings. *)

\* Indices go round the ring.
LEMMA AfterIs ==
  ASSUME NEW i \in 0 .. BufLen - 1, NEW n \in 0 .. BufLen
  PROVE  /\ After(i, n) \in 0 .. BufLen - 1
         /\ After(i, n) = IF i + n < BufLen THEN i + n ELSE i + n - BufLen
BY UartAssumption, SMTT(30) DEF After

\* The length of InRing.
LEMMA OccIs ==
  ASSUME NEW in \in 0 .. BufLen - 1, NEW out \in 0 .. BufLen - 1
  PROVE  /\ (in - out) % BufLen = Occ(in, out)
         /\ Occ(in, out) \in 0 .. BufLen - 1
         /\ Occ(in, out) = 0 <=> in = out
BY UartAssumption, SMTT(30) DEF Occ

\* A function on 1 .. n is a sequence of length n.
LEMMA FunctionIsSeq ==
  ASSUME NEW S, NEW n \in Nat, NEW f \in [1 .. n -> S]
  PROVE  f \in Seq(S) /\ Len(f) = n
<1>1. f \in Seq(S)
  BY SeqDef, Zenon
<1>2. Len(f) \in Nat /\ DOMAIN f = 1 .. Len(f)
  BY <1>1, LenProperties
<1>3. DOMAIN f = 1 .. n
  OBVIOUS
<1>4. 1 .. Len(f) = 1 .. n
  BY <1>2, <1>3
<1> QED BY <1>1, <1>2, <1>4

\* What is in a ring is a sequence of characters.
LEMMA RingIsSeq ==
  ASSUME NEW in \in 0 .. BufLen - 1, NEW out \in 0 .. BufLen - 1,
         NEW buf \in [0 .. BufLen - 1 -> 0 .. Chars - 1]
  PROVE  /\ InRing(buf, in, out) = [i \in 1 .. Occ(in, out) |-> buf[After(out, i - 1)]]
         /\ InRing(buf, in, out) \in Seq(0 .. Chars - 1)
         /\ Len(InRing(buf, in, out)) = Occ(in, out)
         /\ \A i \in 1 .. Occ(in, out) : InRing(buf, in, out)[i] = buf[After(out, i - 1)]
<1> DEFINE ring == [i \in 1 .. Occ(in, out) |-> buf[After(out, i - 1)]]
<1>1. Occ(in, out) \in 0 .. BufLen - 1
  BY OccIs
<1>2. InRing(buf, in, out) = ring
  BY OccIs DEF InRing
<1>3. ASSUME NEW i \in 1 .. Occ(in, out) PROVE After(out, i - 1) \in 0 .. BufLen - 1
  <2>1. i - 1 \in 0 .. BufLen
    BY <1>1, UartAssumption
  <2> QED BY <2>1, AfterIs
<1>4. \A i \in 1 .. Occ(in, out) : buf[After(out, i - 1)] \in 0 .. Chars - 1
  BY <1>3
<1>5. ring \in [1 .. Occ(in, out) -> 0 .. Chars - 1]
  BY <1>4
<1>6. Occ(in, out) \in Nat
  BY <1>1, UartAssumption
<1>7. ring \in Seq(0 .. Chars - 1) /\ Len(ring) = Occ(in, out)
  BY <1>5, <1>6, FunctionIsSeq
<1> QED BY <1>2, <1>7

\* Where n more characters go, and which places they leave alone.
LEMMA PutPlaces ==
  ASSUME NEW in \in 0 .. BufLen - 1, NEW out \in 0 .. BufLen - 1,
         NEW n \in 0 .. BufLen - 1 - Occ(in, out), in + n <= BufLen
  PROVE  /\ After(in, n) \in 0 .. BufLen - 1
         /\ Occ(After(in, n), out) = Occ(in, out) + n
         /\ \A i \in 1 .. Occ(in, out) : After(out, i - 1) \notin in .. in + n - 1
         /\ \A i \in 1 .. n : After(out, Occ(in, out) + i - 1) = in + i - 1
<1>1. BufLen \in Nat \ {0, 1}
  BY UartAssumption
<1>2. Occ(in, out) \in 0 .. BufLen - 1
  BY OccIs
<1>3. n \in 0 .. BufLen
  BY <1>1, <1>2
<1>4. /\ After(in, n) \in 0 .. BufLen - 1
      /\ After(in, n) = IF in + n < BufLen THEN in + n ELSE in + n - BufLen
  BY <1>3, AfterIs
<1>5. Occ(After(in, n), out) = Occ(in, out) + n
  BY <1>1, <1>2, <1>4, SMTT(30) DEF Occ
<1>6. ASSUME NEW i \in 1 .. Occ(in, out)
      PROVE  After(out, i - 1) \notin in .. in + n - 1
  <2>1. i - 1 \in 0 .. BufLen
    BY <1>1, <1>2
  <2>2. After(out, i - 1) = IF out + (i - 1) < BufLen THEN out + (i - 1) ELSE out + (i - 1) - BufLen
    BY <2>1, AfterIs
  <2> QED BY <1>1, <1>2, <2>2, SMTT(30) DEF Occ
<1>7. ASSUME NEW i \in 1 .. n
      PROVE  After(out, Occ(in, out) + i - 1) = in + i - 1
  <2> DEFINE k == Occ(in, out) + i - 1
  <2>1. k \in 0 .. BufLen
    BY <1>1, <1>2
  <2>2. After(out, k) = IF out + k < BufLen THEN out + k ELSE out + k - BufLen
    BY <2>1, AfterIs
  <2> QED BY <1>1, <1>2, <2>2, SMTT(30) DEF Occ
<1> QED BY <1>4, <1>5, <1>6, <1>7

\* What the rest of a sequence is.
LEMMA Rest ==
  ASSUME NEW S, NEW s \in Seq(S), NEW m \in Nat, Len(s) = m,
         NEW n \in 0 .. m, NEW rest \in Seq(S), Len(rest) = m - n,
         \A i \in 1 .. m - n : rest[i] = s[n + i]
  PROVE  rest = SubSeq(s, n + 1, m)
<1>1. n + 1 \in Int /\ m \in Int
  OBVIOUS
<1>2. \A i \in n + 1 .. m : s[i] \in S
  <2>1. \A i \in n + 1 .. m : i \in 1 .. m
    OBVIOUS
  <2> QED BY <2>1, ElementOfSeq, Zenon
<1>3. /\ SubSeq(s, n + 1, m) \in Seq(S)
      /\ Len(SubSeq(s, n + 1, m)) = IF n + 1 <= m THEN m - (n + 1) + 1 ELSE 0
      /\ \A i \in 1 .. m - (n + 1) + 1 : SubSeq(s, n + 1, m)[i] = s[n + 1 + i - 1]
  BY <1>1, <1>2, SubSeqProperties
<1>4. Len(SubSeq(s, n + 1, m)) = Len(rest)
  <2>1. (IF n + 1 <= m THEN m - (n + 1) + 1 ELSE 0) = m - n
    OBVIOUS
  <2> QED BY <1>3, <2>1, Zenon
<1>5. ASSUME NEW i \in 1 .. m - n
      PROVE  rest[i] = SubSeq(s, n + 1, m)[i]
  <2>1. i \in 1 .. m - (n + 1) + 1 /\ n + 1 + i - 1 = n + i
    OBVIOUS
  <2> QED BY <1>3, <2>1, Zenon
<1> QED BY <1>3, <1>4, <1>5, SeqEqual, Zenon

\* A ring into which characters have been copied from an index on.
Copied(buf, in, s) ==
  [i \in 0 .. BufLen - 1 |-> IF i \in in .. in + Len(s) - 1 THEN s[i - in + 1] ELSE buf[i]]

\* One stretch of characters behind another.
Behind(both, old, s) == both = old \o s

\* Characters put into the ring where it has room, without a wrap, follow the ones it holds.
LEMMA RingPut ==
  ASSUME NEW in, NEW out, NEW buf, NEW s
  PROVE  /\ in \in 0 .. BufLen - 1 /\ out \in 0 .. BufLen - 1
         /\ buf \in [0 .. BufLen - 1 -> 0 .. Chars - 1] /\ s \in Seq(0 .. Chars - 1)
         /\ Len(s) <= BufLen - 1 - Occ(in, out) /\ in + Len(s) <= BufLen
         => /\ Copied(buf, in, s) \in [0 .. BufLen - 1 -> 0 .. Chars - 1]
            /\ Behind(InRing(Copied(buf, in, s), After(in, Len(s)), out), InRing(buf, in, out), s)
<1> DEFINE new == Copied(buf, in, s)
           old == InRing(buf, in, out)
           ring == InRing(new, After(in, Len(s)), out)
           m == Occ(in, out)
           n == Len(s)
<1>1. SUFFICES ASSUME in \in 0 .. BufLen - 1, out \in 0 .. BufLen - 1,
                      buf \in [0 .. BufLen - 1 -> 0 .. Chars - 1], s \in Seq(0 .. Chars - 1),
                      Len(s) <= BufLen - 1 - Occ(in, out), in + Len(s) <= BufLen
               PROVE  new \in [0 .. BufLen - 1 -> 0 .. Chars - 1] /\ Behind(ring, old, s)
  OBVIOUS
<1>2. BufLen \in Nat \ {0, 1} /\ m \in Nat /\ n \in Nat /\ m <= BufLen - 1
  BY <1>1, OccIs, LenProperties, UartAssumption
<1>3. ASSUME NEW i \in 0 .. BufLen - 1, i \in in .. in + n - 1
      PROVE  s[i - in + 1] \in 0 .. Chars - 1
  <2>1. i - in + 1 \in 1 .. n
    BY <1>1, <1>2, <1>3
  <2> QED BY <1>1, <2>1, ElementOfSeq, Zenon
<1>4. new \in [0 .. BufLen - 1 -> 0 .. Chars - 1]
  BY <1>1, <1>3, Zenon DEF Copied
<1>5. \A i \in 1 .. n : new[in + i - 1] = s[i]
  <2>1. ASSUME NEW i \in 1 .. n
        PROVE  /\ in + i - 1 \in 0 .. BufLen - 1 /\ in + i - 1 \in in .. in + n - 1
               /\ (in + i - 1) - in + 1 = i
    BY <1>1, <1>2
  <2> QED BY <2>1, Zenon DEF Copied
<1>6. \A i \in 0 .. BufLen - 1 : i \notin in .. in + n - 1 => new[i] = buf[i]
  BY Zenon DEF Copied
<1>7. /\ After(in, n) \in 0 .. BufLen - 1
      /\ Occ(After(in, n), out) = m + n
      /\ \A i \in 1 .. m : After(out, i - 1) \notin in .. in + n - 1
      /\ \A i \in 1 .. n : After(out, m + i - 1) = in + i - 1
  <2>1. n \in 0 .. BufLen - 1 - m
    BY <1>1, <1>2
  <2> QED BY <1>1, <2>1, PutPlaces
<1>8. old \in Seq(0 .. Chars - 1) /\ Len(old) = m
  BY <1>1, RingIsSeq, Zenon
<1>9. \A i \in 1 .. m : old[i] = buf[After(out, i - 1)]
  BY <1>1, RingIsSeq, Zenon
<1> HIDE DEF new
<1>10. /\ ring \in Seq(0 .. Chars - 1) /\ Len(ring) = Occ(After(in, n), out)
       /\ \A i \in 1 .. Occ(After(in, n), out) : ring[i] = new[After(out, i - 1)]
  <2>1. After(in, n) \in 0 .. BufLen - 1 /\ out \in 0 .. BufLen - 1
    BY <1>1, <1>7, Zenon
  <2> QED BY <1>4, <2>1, RingIsSeq, Zenon
<1>11. Occ(After(in, n), out) = m + n
  BY <1>7, Zenon
<1> HIDE DEF ring, old, m, n
<1>12. /\ ring \in Seq(0 .. Chars - 1) /\ Len(ring) = m + n
       /\ \A i \in 1 .. m + n : ring[i] = new[After(out, i - 1)]
  BY <1>10, <1>11, Zenon
<1>13. ASSUME NEW i \in 1 .. m
       PROVE  ring[i] = old[i]
  <2>1. i \in 1 .. m + n /\ i - 1 \in 0 .. BufLen
    BY <1>2
  <2>2. After(out, i - 1) \in 0 .. BufLen - 1
    BY <1>1, <2>1, AfterIs
  <2>3. new[After(out, i - 1)] = buf[After(out, i - 1)]
    BY <1>6, <1>7, <2>2, Zenon
  <2> QED BY <1>9, <1>12, <2>1, <2>3, Zenon
<1>14. ASSUME NEW i \in 1 .. n
       PROVE  ring[m + i] = s[i]
  <2>1. m + i \in 1 .. m + n
    BY <1>2
  <2>2. ring[m + i] = new[After(out, m + i - 1)]
    <3>1. PICK k : k = m + i
      OBVIOUS
    <3>2. ring[k] = new[After(out, k - 1)]
      BY <1>12, <2>1, <3>1, Zenon
    <3> QED BY <3>1, <3>2, <1>2
  <2>3. new[After(out, m + i - 1)] = s[i]
    BY <1>5, <1>7, Zenon
  <2> QED BY <2>2, <2>3, Zenon
<1>15. /\ old \o s \in Seq(0 .. Chars - 1)
       /\ Len(old \o s) = Len(old) + Len(s)
       /\ \A i \in 1 .. Len(old) + Len(s) :
            (old \o s)[i] = IF i <= Len(old) THEN old[i] ELSE s[i - Len(old)]
  BY <1>1, <1>8, ConcatProperties, Zenon
<1>16. Len(old \o s) = m + n
  BY <1>8, <1>15, Zenon DEF n
<1>17. \A i \in 1 .. m + n : (old \o s)[i] = IF i <= m THEN old[i] ELSE s[i - m]
  BY <1>8, <1>15, Zenon DEF n
<1>18. ASSUME NEW i \in 1 .. m + n
       PROVE  ring[i] = (old \o s)[i]
  <2>1. CASE i <= m
    <3>1. i \in 1 .. m
      BY <1>2, <2>1
    <3> QED BY <1>13, <1>17, <2>1, <3>1, Zenon
  <2>2. CASE ~(i <= m)
    <3>1. i - m \in 1 .. n /\ i = m + (i - m)
      BY <1>2, <2>2
    <3>2. ring[m + (i - m)] = s[i - m]
      BY <1>14, <3>1, Zenon
    <3> QED BY <1>17, <2>2, <3>1, <3>2, Zenon
  <2> QED BY <2>1, <2>2
<1>19. ring = old \o s
  BY <1>12, <1>15, <1>16, <1>18, SeqEqual, Zenon
<1> QED BY <1>4, <1>19, Zenon DEF Behind

\* Where the output index goes, and what is left there.
LEMMA TakePlaces ==
  ASSUME NEW in \in 0 .. BufLen - 1, NEW out \in 0 .. BufLen - 1, NEW n \in 0 .. Occ(in, out)
  PROVE  /\ After(out, n) \in 0 .. BufLen - 1
         /\ Occ(in, After(out, n)) = Occ(in, out) - n
         /\ \A i \in 1 .. Occ(in, out) - n : After(After(out, n), i - 1) = After(out, n + i - 1)
<1>1. BufLen \in Nat \ {0, 1}
  BY UartAssumption
<1>2. Occ(in, out) \in 0 .. BufLen - 1
  BY OccIs
<1>3. n \in 0 .. BufLen
  BY <1>1, <1>2
<1>4. /\ After(out, n) \in 0 .. BufLen - 1
      /\ After(out, n) = IF out + n < BufLen THEN out + n ELSE out + n - BufLen
  BY <1>3, AfterIs
<1>5. Occ(in, After(out, n)) = Occ(in, out) - n
  BY <1>1, <1>2, <1>4, SMTT(30) DEF Occ
<1>6. ASSUME NEW i \in 1 .. Occ(in, out) - n
      PROVE  After(After(out, n), i - 1) = After(out, n + i - 1)
  <2>1. i - 1 \in 0 .. BufLen /\ n + i - 1 \in 0 .. BufLen
    BY <1>1, <1>2
  <2>2. After(out, n + i - 1) = IF out + (n + i - 1) < BufLen THEN out + (n + i - 1)
                                ELSE out + (n + i - 1) - BufLen
    BY <2>1, AfterIs
  <2>3. After(After(out, n), i - 1) = IF After(out, n) + (i - 1) < BufLen
                                      THEN After(out, n) + (i - 1)
                                      ELSE After(out, n) + (i - 1) - BufLen
    BY <1>4, <2>1, AfterIs
  <2> QED BY <1>1, <1>2, <1>4, <2>2, <2>3, SMTT(30)
<1> QED BY <1>4, <1>5, <1>6

\* Characters taken out of the ring are its first.
LEMMA RingTake ==
  ASSUME NEW in \in 0 .. BufLen - 1, NEW out \in 0 .. BufLen - 1,
         NEW buf \in [0 .. BufLen - 1 -> 0 .. Chars - 1],
         NEW n \in 0 .. Occ(in, out)
  PROVE  InRing(buf, in, After(out, n)) = SubSeq(InRing(buf, in, out), n + 1, Occ(in, out))
<1>1. Occ(in, out) \in 0 .. BufLen - 1 /\ BufLen \in Nat \ {0, 1} /\ Occ(in, out) \in Nat
  BY OccIs, UartAssumption
<1>2. /\ After(out, n) \in 0 .. BufLen - 1
      /\ Occ(in, After(out, n)) = Occ(in, out) - n
      /\ \A i \in 1 .. Occ(in, out) - n : After(After(out, n), i - 1) = After(out, n + i - 1)
  BY TakePlaces, Zenon
<1>3. /\ InRing(buf, in, out) \in Seq(0 .. Chars - 1)
      /\ Len(InRing(buf, in, out)) = Occ(in, out)
      /\ \A i \in 1 .. Occ(in, out) : InRing(buf, in, out)[i] = buf[After(out, i - 1)]
  BY RingIsSeq, Zenon
<1> DEFINE ring == InRing(buf, in, After(out, n))
<1>4. /\ ring \in Seq(0 .. Chars - 1)
      /\ Len(ring) = Occ(in, After(out, n))
      /\ \A i \in 1 .. Occ(in, After(out, n)) : ring[i] = buf[After(After(out, n), i - 1)]
  BY <1>2, RingIsSeq, Zenon
<1> HIDE DEF ring
<1>5. ASSUME NEW i \in 1 .. Occ(in, out) - n
      PROVE  ring[i] = InRing(buf, in, out)[n + i]
  <2>1. n + i \in 1 .. Occ(in, out)
    BY <1>1
  <2>2. InRing(buf, in, out)[n + i] = buf[After(out, n + i - 1)]
    BY <1>3, <2>1
  <2> QED BY <1>2, <1>4, <2>2, Zenon
<1>6. Len(ring) = Occ(in, out) - n
  BY <1>2, <1>4, Zenon
<1> QED BY <1>1, <1>3, <1>4, <1>5, <1>6, Rest DEF ring
-----------------------------------------------------------------------------
(* Two stretches of characters, one behind the other. *)

\* An element moves from the head of the second to the end of the first.
LEMMA MoveFirst ==
  ASSUME NEW S, NEW s \in Seq(S), NEW t \in Seq(S), t # <<>>
  PROVE  /\ t[1] \in S /\ SubSeq(t, 2, Len(t)) \in Seq(S)
         /\ Append(s, t[1]) \o SubSeq(t, 2, Len(t)) = s \o t
<1>1. Len(t) \in Nat \ {0}
  BY EmptySeq
<1>2. 1 \in 1 .. Len(t) /\ Len(t) \in 1 .. Len(t)
  BY <1>1
<1>3. t[1] \in S
  BY <1>2, ElementOfSeq, Zenon
<1>4. SubSeq(t, 1, Len(t)) = <<t[1]>> \o SubSeq(t, 1 + 1, Len(t))
  BY <1>2, SubSeqRecursiveFirst, Zenon
<1>5. 1 + 1 = 2
  OBVIOUS
<1>6. t = <<t[1]>> \o SubSeq(t, 2, Len(t))
  BY <1>4, <1>5, SubSeqFull, Zenon
<1>7. SubSeq(t, 2, Len(t)) = Tail(t)
  BY TailIsSubSeq, Zenon
<1>8. SubSeq(t, 2, Len(t)) \in Seq(S)
  BY <1>7, HeadTailProperties, Zenon
<1>9. <<t[1]>> \in Seq(S)
  BY <1>3
<1>10. (s \o <<t[1]>>) \o SubSeq(t, 2, Len(t)) = s \o (<<t[1]>> \o SubSeq(t, 2, Len(t)))
  <2> DEFINE head == <<t[1]>>
             tail == SubSeq(t, 2, Len(t))
  <2>1. head \in Seq(S) /\ tail \in Seq(S)
    BY <1>8, <1>9
  <2> HIDE DEF head, tail
  <2>2. (s \o head) \o tail = s \o (head \o tail)
    BY <2>1, ConcatAssociative, SMTT(30)
  <2> QED BY <2>2 DEF head, tail
<1>11. Append(s, t[1]) = s \o <<t[1]>>
  BY <1>3, AppendIsConcat, Zenon
<1> QED BY <1>3, <1>6, <1>8, <1>10, <1>11, Zenon

\* Elements taken from the first are taken from both.
LEMMA TakeFirst ==
  ASSUME NEW S, NEW s \in Seq(S), NEW t \in Seq(S), NEW n \in 1 .. Len(s)
  PROVE  /\ SubSeq(s, 1, n) = SubSeq(s \o t, 1, n)
         /\ SubSeq(s, n + 1, Len(s)) \o t = SubSeq(s \o t, n + 1, Len(s \o t))
         /\ n \in 1 .. Len(s \o t)
<1> DEFINE both == s \o t
           rest == SubSeq(s, n + 1, Len(s))
           left == rest \o t
           m == Len(s)
           k == Len(t)
<1>1. m \in Nat /\ k \in Nat /\ n \in Nat /\ n <= m
  BY LenProperties
<1>2. 1 \in 1 .. m
  BY <1>1
<1>3. SubSeq(s \o t, 1, n) = SubSeq(s, 1, n)
  BY <1>2, SubSeqOfConcat1, Zenon
<1>4. /\ both \in Seq(S) /\ Len(both) = m + k
      /\ \A i \in 1 .. m + k : both[i] = IF i <= m THEN s[i] ELSE t[i - m]
  BY ConcatProperties, Zenon
<1>5. rest \in Seq(S) /\ Len(rest) = m - n /\ \A i \in 1 .. m - n : rest[i] = s[n + i]
  <2>1. n + 1 \in Int /\ m \in Int
    BY <1>1
  <2>2. \A i \in n + 1 .. m : s[i] \in S
    <3>1. \A i \in n + 1 .. m : i \in 1 .. m
      BY <1>1
    <3> QED BY <3>1, ElementOfSeq, Zenon
  <2>3. /\ rest \in Seq(S)
        /\ Len(rest) = IF n + 1 <= m THEN m - (n + 1) + 1 ELSE 0
        /\ \A i \in 1 .. m - (n + 1) + 1 : rest[i] = s[n + 1 + i - 1]
    BY <2>1, <2>2, SubSeqProperties
  <2> HIDE DEF rest, m
  <2>4. m - (n + 1) + 1 = m - n /\ \A i \in 1 .. m - n : n + 1 + i - 1 = n + i
    BY <1>1
  <2>5. (IF n + 1 <= m THEN m - (n + 1) + 1 ELSE 0) = m - n
    BY <1>1
  <2> QED BY <2>3, <2>4, <2>5
<1>6. /\ left \in Seq(S) /\ Len(left) = Len(rest) + k
      /\ \A i \in 1 .. Len(rest) + k :
           left[i] = IF i <= Len(rest) THEN rest[i] ELSE t[i - Len(rest)]
  BY <1>5, ConcatProperties, Zenon
<1> HIDE DEF both, rest, left, m, k
<1>7. /\ Len(left) = m - n + k
      /\ \A i \in 1 .. m - n + k : left[i] = IF i <= m - n THEN rest[i] ELSE t[i - (m - n)]
  BY <1>5, <1>6, Zenon
<1>8. m + k \in Nat /\ n \in 0 .. m + k /\ m - n + k = m + k - n
  BY <1>1
<1>9. ASSUME NEW i \in 1 .. m + k - n
      PROVE  left[i] = both[n + i]
  <2>1. i \in 1 .. m - n + k /\ n + i \in 1 .. m + k
    BY <1>1
  <2>2. CASE i <= m - n
    <3>1. i \in 1 .. m - n /\ n + i <= m
      BY <1>1, <2>2
    <3> QED BY <1>4, <1>5, <1>7, <2>1, <2>2, <3>1, Zenon
  <2>3. CASE ~(i <= m - n)
    <3>1. ~(n + i <= m) /\ i - (m - n) = n + i - m
      BY <1>1, <2>3
    <3>2. both[n + i] = t[n + i - m]
      <4>1. PICK j \in 1 .. m + k : j = n + i
        BY <2>1
      <4>2. ~(j <= m)
        BY <3>1, <4>1
      <4>3. both[j] = t[j - m]
        BY <1>4, <4>2, Zenon
      <4> QED BY <1>1, <4>1, <4>3
    <3>3. left[i] = t[i - (m - n)]
      BY <1>7, <2>1, <2>3
    <3> QED BY <3>1, <3>2, <3>3
  <2> QED BY <2>2, <2>3
<1>10. left = SubSeq(both, n + 1, m + k)
  <2>0. PICK len \in Nat : len = m + k
    BY <1>8
  <2> DEFINE part == SubSeq(both, n + 1, len)
  <2>1. n + 1 \in Int /\ len \in Int
    BY <1>1
  <2>2. \A i \in n + 1 .. len : both[i] \in S
    <3>1. \A i \in n + 1 .. len : i \in 1 .. len
      BY <1>1
    <3> QED BY <1>4, <2>0, <3>1, ElementOfSeq, Zenon
  <2>3. /\ part \in Seq(S)
        /\ Len(part) = IF n + 1 <= len THEN len - (n + 1) + 1 ELSE 0
        /\ \A i \in 1 .. len - (n + 1) + 1 : part[i] = both[n + 1 + i - 1]
    BY <2>1, <2>2, SubSeqProperties
  <2> HIDE DEF part
  <2>4. len - (n + 1) + 1 = len - n /\ \A i \in 1 .. len - n : n + 1 + i - 1 = n + i
    BY <1>1, <2>0
  <2>5. (IF n + 1 <= len THEN len - (n + 1) + 1 ELSE 0) = len - n
    BY <1>1, <2>0
  <2>6. Len(part) = len - n /\ \A i \in 1 .. len - n : part[i] = both[n + i]
    BY <2>3, <2>4, <2>5
  <2>7. Len(left) = len - n
    <3>1. Len(left) = m - n + k
      BY <1>7, Zenon
    <3>2. m - n + k = len - n
      BY <1>1, <2>0
    <3> QED BY <3>1, <3>2, Zenon
  <2>8. ASSUME NEW i \in 1 .. Len(left)
        PROVE  left[i] = part[i]
    <3>0. i \in 1 .. len - n
      BY <2>7, Zenon
    <3>1. i \in 1 .. m + k - n
      BY <1>1, <2>0, <3>0
    <3>2. left[i] = both[n + i]
      BY <1>9, <3>1, Zenon
    <3>3. part[i] = both[n + i]
      BY <2>6, <3>0, Zenon
    <3> QED BY <3>2, <3>3, Zenon
  <2>9. left = part
    BY <1>6, <2>3, <2>6, <2>7, <2>8, SeqEqual
  <2> QED BY <2>0, <2>9 DEF part
<1>11. n \in 1 .. Len(both) /\ left = SubSeq(both, n + 1, Len(both))
  BY <1>1, <1>4, <1>10
<1> QED BY <1>3, <1>11, Zenon DEF both, rest, left, m
-----------------------------------------------------------------------------
(* The invariant. *)

LEMMA TypesAre == TypeOK <=> CallTypes /\ HostTypes /\ TxTypes /\ RxTypes /\ IsrTypes
BY DEF TypeOK, CallTypes, HostTypes, TxTypes, RxTypes, IsrTypes

LEMMA CallStays == CallTypes /\ UNCHANGED <<pc, callVars>> => CallTypes'
BY DEF CallTypes, callVars
LEMMA HostStays == HostTypes /\ UNCHANGED hostVars => HostTypes'
BY DEF HostTypes, hostVars
LEMMA TxStays == TxTypes /\ UNCHANGED txVars => TxTypes'
BY DEF TxTypes, txVars
LEMMA RxStays == RxTypes /\ UNCHANGED rxVars => RxTypes'
BY DEF RxTypes, rxVars
LEMMA IsrStays == IsrTypes /\ UNCHANGED <<isrVars, irq_enable>> => IsrTypes'
BY DEF IsrTypes, isrVars

\* Moving on inside a call, and returning from it.
PCs == {"idle", "wcopy", "wput", "kick", "wwait", "wtest",
        "rcopy", "rget", "rwait", "rtest", "renable", "close"}
LEMMA StayTypes ==
  ASSUME CallTypes, NEW p \in PCs, Stay(p), seen' \in 0 .. BufLen - 1
  PROVE  CallTypes'
<1>1. moved' \in BOOLEAN /\ nonblock' \in BOOLEAN
  BY Zenon DEF CallTypes, Stay
<1>2. count' \in 0 .. MaxCount /\ ret' \in {"none", "0", "count", "EWOULDBLOCK", "EIO"}
  BY Zenon DEF CallTypes, Stay
<1>3. pc' \in PCs
  BY Zenon DEF Stay
<1> QED BY <1>1, <1>2, <1>3, Zenon DEF CallTypes, PCs

LEMMA ReturnTypes ==
  ASSUME NEW code \in {"0", "count", "EWOULDBLOCK", "EIO"}, Return(code)
  PROVE  CallTypes'
<1>1. moved' \in BOOLEAN /\ nonblock' \in BOOLEAN
  BY Zenon DEF Return
<1>2. 0 \in 0 .. MaxCount /\ 0 \in 0 .. BufLen - 1
  BY UartAssumption
<1>3. count' \in 0 .. MaxCount /\ seen' \in 0 .. BufLen - 1
  BY <1>2, Zenon DEF Return
<1>4. ret' \in {"none", "0", "count", "EWOULDBLOCK", "EIO"}
  BY Zenon DEF Return
<1>5. pc' \in PCs
  BY Zenon DEF Return, PCs
<1> QED BY <1>1, <1>3, <1>4, <1>5, Zenon DEF CallTypes, PCs

LEMMA MovedIs == Moved \in {"0", "count", "EWOULDBLOCK", "EIO"}
BY DEF Moved

LEMMA InitHolds == Init => UartInv
<1> SUFFICES ASSUME Init PROVE UartInv
  OBVIOUS
<1> USE UartAssumption DEF Init
<1>1. <<>> \in Seq(0 .. Chars - 1) /\ Len(<<>>) = 0
  BY EmptySeq
<1>2. TxTypes
  BY <1>1 DEF TxTypes
<1>3. RxTypes
  BY <1>1 DEF RxTypes
<1>4. CallTypes /\ HostTypes /\ IsrTypes
  BY DEF CallTypes, HostTypes, IsrTypes
<1>5. SpaceFits /\ Looks /\ PendingMeansEnabled /\ ReceiveOffMeansFull
  BY DEF SpaceFits, Looks, PendingMeansEnabled, ReceiveOffMeansFull
<1> QED BY <1>2, <1>3, <1>4, <1>5 DEF UartInv

\* A call begins: it touches nothing that the interrupt routine shares.
LEMMA CallsKeep ==
  ASSUME UartInv, Calls
  PROVE  UartInv'
<1> USE UartAssumption DEF UartInv
<1>1. ASSUME NEW name, NEW entry \in {"wcopy", "rcopy", "close"}, NEW n \in 0 .. MaxCount,
             NEW nb \in BOOLEAN, Call(name, entry, n, nb), entry = "rcopy" => n > 0
      PROVE  UartInv'
  <2> USE <1>1 DEF Call
  <2>1. CallTypes'
    <3>1. moved' \in BOOLEAN /\ nonblock' \in BOOLEAN
      BY Zenon
    <3>2. count' \in 0 .. MaxCount /\ seen' \in 0 .. BufLen - 1 /\ ret' = "none"
      OBVIOUS
    <3>3. pc' \in PCs
      BY Zenon DEF PCs
    <3> QED BY <3>1, <3>2, <3>3, Zenon DEF CallTypes, PCs
  <2>2. HostTypes' /\ TxTypes' /\ RxTypes' /\ IsrTypes'
    BY HostStays, TxStays, RxStays, IsrStays
  <2>3. SpaceFits' /\ Looks' /\ PendingMeansEnabled' /\ ReceiveOffMeansFull'
    BY DEF SpaceFits, Looks, PendingMeansEnabled, ReceiveOffMeansFull, Full, txVars,
           rxVars, isrVars
  <2> QED BY <2>1, <2>2, <2>3
<1>2. CASE Write
  BY <1>1, <1>2 DEF Write
<1>3. CASE Read
  <2>1. \A n \in 1 .. MaxCount : n \in 0 .. MaxCount /\ n > 0
    OBVIOUS
  <2> QED BY <1>1, <1>3, <2>1 DEF Read
<1>4. CASE Close
  <2>1. 0 \in 0 .. MaxCount
    OBVIOUS
  <2> QED BY <1>1, <1>4, <2>1 DEF Close
<1>5. CASE SetTimeout
  <2> USE <1>5 DEF SetTimeout
  <2>1. CallTypes'
    BY CallStays DEF callVars
  <2>2. HostTypes'
    BY DEF HostTypes
  <2>3. TxTypes'
    BY TxStays
  <2>4. RxTypes'
    BY RxStays
  <2>5. IsrTypes'
    BY IsrStays
  <2>6. SpaceFits' /\ Looks' /\ PendingMeansEnabled' /\ ReceiveOffMeansFull'
    BY DEF SpaceFits, Looks, PendingMeansEnabled, ReceiveOffMeansFull, Full, callVars,
           txVars, rxVars, isrVars
  <2> QED BY <2>1, <2>2, <2>3, <2>4, <2>5, <2>6
<1> QED BY <1>2, <1>3, <1>4, <1>5 DEF Calls

\* The steps of write, close and read other than their copies.
LEMMA WriteKeeps ==
  ASSUME UartInv, WriteLook \/ WriteKick \/ WriteWait \/ WriteTest \/ CloseEnd
  PROVE  UartInv'
<1> USE UartAssumption DEF UartInv
<1>1. CASE WriteLook
  <2> USE <1>1 DEF WriteLook
  <2>1. CallTypes'
    <3>1. Stay(pc') /\ pc' \in PCs
      BY Zenon DEF Stay, PCs
    <3>2. seen' \in 0 .. BufLen - 1
      BY DEF CallTypes, TxTypes, RxTypes
    <3> QED BY <3>1, <3>2, StayTypes, Zenon
  <2>2. HostTypes'
    BY HostStays
  <2>3. TxTypes'
    BY TxStays
  <2>4. RxTypes'
    BY RxStays
  <2>5. IsrTypes'
    BY IsrStays
  <2>6. SpaceFits' /\ PendingMeansEnabled' /\ ReceiveOffMeansFull'
    BY DEF SpaceFits, PendingMeansEnabled, ReceiveOffMeansFull, Full, Stay, Return, Moved,
           callVars, txVars, rxVars, isrVars
  <2>7. Looks'
    BY DEF Looks, Stay, Return, Moved, callVars, txVars, rxVars, CallTypes, TxTypes,
           RxTypes, Occ, Room, Held
  <2> QED BY <2>1, <2>2, <2>3, <2>4, <2>5, <2>6, <2>7
<1>2. CASE WriteKick
  <2> USE <1>2 DEF WriteKick
  <2>1. CallTypes'
    <3>1. CASE Stay("wwait") /\ UNCHANGED seen
      <4>1. seen' \in 0 .. BufLen - 1 /\ "wwait" \in PCs
        BY <3>1, Zenon DEF CallTypes, PCs
      <4> QED BY <3>1, <4>1, StayTypes, Zenon
    <3>2. CASE Return(Moved)
      BY <3>2, MovedIs, ReturnTypes, Zenon
    <3> QED BY <3>1, <3>2, Zenon
  <2>2. HostTypes'
    BY HostStays
  <2>3. TxTypes'
    BY TxStays
  <2>4. RxTypes'
    BY RxStays
  <2>5. IsrTypes'
    BY DEF IsrTypes, isrVars
  <2>6. SpaceFits' /\ PendingMeansEnabled' /\ ReceiveOffMeansFull'
    BY DEF SpaceFits, PendingMeansEnabled, ReceiveOffMeansFull, Full, Stay, Return, Moved,
           callVars, txVars, rxVars, isrVars
  <2>7. Looks'
    BY DEF Looks, Stay, Return, Moved, callVars, txVars, rxVars, CallTypes, TxTypes,
           RxTypes, Occ, Room, Held
  <2> QED BY <2>1, <2>2, <2>3, <2>4, <2>5, <2>6, <2>7
<1>3. CASE WriteWait
  <2> USE <1>3 DEF WriteWait
  <2>1. CallTypes'
    <3>1. Stay("wtest") /\ "wtest" \in PCs
      BY Zenon DEF Stay, PCs, callVars
    <3>2. seen' \in 0 .. BufLen - 1
      BY DEF CallTypes, TxTypes, RxTypes, callVars
    <3> QED BY <3>1, <3>2, StayTypes, Zenon
  <2>2. HostTypes'
    BY HostStays
  <2>3. TxTypes'
    BY TxStays
  <2>4. RxTypes'
    BY RxStays
  <2>5. IsrTypes'
    BY IsrStays
  <2>6. SpaceFits' /\ PendingMeansEnabled' /\ ReceiveOffMeansFull'
    BY DEF SpaceFits, PendingMeansEnabled, ReceiveOffMeansFull, Full, Stay, Return, Moved,
           callVars, txVars, rxVars, isrVars
  <2>7. Looks'
    BY DEF Looks, Stay, Return, Moved, callVars, txVars, rxVars, CallTypes, TxTypes,
           RxTypes, Occ, Room, Held
  <2> QED BY <2>1, <2>2, <2>3, <2>4, <2>5, <2>6, <2>7
<1>4. CASE WriteTest
  <2> USE <1>4 DEF WriteTest
  <2>1. CallTypes'
    <3>1. CASE Stay("wcopy") /\ UNCHANGED seen
      <4>1. seen' \in 0 .. BufLen - 1 /\ "wcopy" \in PCs
        BY <3>1, Zenon DEF CallTypes, PCs
      <4> QED BY <3>1, <4>1, StayTypes, Zenon
    <3>2. CASE Return(Moved)
      BY <3>2, MovedIs, ReturnTypes, Zenon
    <3> QED BY <3>1, <3>2, Zenon
  <2>2. HostTypes'
    BY HostStays
  <2>3. TxTypes'
    BY TxStays
  <2>4. RxTypes'
    BY RxStays
  <2>5. IsrTypes'
    BY IsrStays
  <2>6. SpaceFits' /\ PendingMeansEnabled' /\ ReceiveOffMeansFull'
    BY DEF SpaceFits, PendingMeansEnabled, ReceiveOffMeansFull, Full, Stay, Return, Moved,
           callVars, txVars, rxVars, isrVars
  <2>7. Looks'
    BY DEF Looks, Stay, Return, Moved, callVars, txVars, rxVars, CallTypes, TxTypes,
           RxTypes, Occ, Room, Held
  <2> QED BY <2>1, <2>2, <2>3, <2>4, <2>5, <2>6, <2>7
<1>5. CASE CloseEnd
  <2> USE <1>5 DEF CloseEnd
  <2>1. CallTypes'
    BY ReturnTypes, Zenon
  <2>2. HostTypes'
    BY HostStays
  <2>3. TxTypes'
    BY TxStays
  <2>4. RxTypes'
    BY RxStays
  <2>5. IsrTypes'
    BY IsrStays
  <2>6. SpaceFits' /\ PendingMeansEnabled' /\ ReceiveOffMeansFull'
    BY DEF SpaceFits, PendingMeansEnabled, ReceiveOffMeansFull, Full, Stay, Return, Moved,
           callVars, txVars, rxVars, isrVars
  <2>7. Looks'
    BY DEF Looks, Stay, Return, Moved, callVars, txVars, rxVars, CallTypes, TxTypes,
           RxTypes, Occ, Room, Held
  <2> QED BY <2>1, <2>2, <2>3, <2>4, <2>5, <2>6, <2>7
<1> QED BY <1>1, <1>2, <1>3, <1>4, <1>5

LEMMA ReadKeeps ==
  ASSUME UartInv, ReadLook \/ ReadWait \/ ReadTest \/ ReadEnable
  PROVE  UartInv'
<1> USE UartAssumption DEF UartInv
<1>1. CASE ReadLook
  <2> USE <1>1 DEF ReadLook
  <2>1. CallTypes'
    <3>1. CASE Return(Moved)
      BY <3>1, MovedIs, ReturnTypes, Zenon
    <3>2. CASE \E p \in {"rget", "renable", "rwait"} : Stay(p) /\ seen' = rx_in
      <4>1. rx_in \in 0 .. BufLen - 1
        BY Zenon DEF RxTypes
      <4> QED BY <3>2, <4>1, StayTypes, Zenon DEF PCs
    <3> QED BY <3>1, <3>2, Zenon
  <2>2. HostTypes'
    BY HostStays
  <2>3. TxTypes'
    BY TxStays
  <2>4. RxTypes'
    BY RxStays
  <2>5. IsrTypes'
    BY IsrStays
  <2>6. SpaceFits' /\ PendingMeansEnabled' /\ ReceiveOffMeansFull'
    BY DEF SpaceFits, PendingMeansEnabled, ReceiveOffMeansFull, Full, Stay, Return, Moved,
           callVars, txVars, rxVars, isrVars
  <2>7. Looks'
    <3>1. CASE Return(Moved)
      BY <3>1 DEF Looks, Return
    <3>2. CASE Held(rx_in, rx_out) > 0 /\ Stay("rget") /\ seen' = rx_in
      <4>1. Occ(rx_in, rx_out) \in 0 .. BufLen - 1
        BY OccIs DEF RxTypes
      <4>2. rx_in' = rx_in /\ rx_out' = rx_out /\ count > 0 /\ count' = count /\ pc' = "rget"
        BY <3>2 DEF Looks, Stay, rxVars
      <4> QED BY <3>2, <4>1, <4>2 DEF Looks, Occ, Held
    <3>3. CASE \E p \in {"renable", "rwait"} : Stay(p) /\ seen' = rx_in
      BY <3>3 DEF Looks, Stay
    <3> QED BY <3>1, <3>2, <3>3, Zenon
  <2> QED BY <2>1, <2>2, <2>3, <2>4, <2>5, <2>6, <2>7
<1>2. CASE ReadWait
  <2> USE <1>2 DEF ReadWait
  <2>1. CallTypes'
    <3>1. Stay("rtest") /\ "rtest" \in PCs
      BY Zenon DEF Stay, PCs, callVars
    <3>2. seen' \in 0 .. BufLen - 1
      BY DEF CallTypes, TxTypes, RxTypes, callVars
    <3> QED BY <3>1, <3>2, StayTypes, Zenon
  <2>2. HostTypes'
    BY HostStays
  <2>3. TxTypes'
    BY TxStays
  <2>4. RxTypes'
    BY RxStays
  <2>5. IsrTypes'
    BY IsrStays
  <2>6. SpaceFits' /\ PendingMeansEnabled' /\ ReceiveOffMeansFull'
    BY DEF SpaceFits, PendingMeansEnabled, ReceiveOffMeansFull, Full, Stay, Return, Moved,
           callVars, txVars, rxVars, isrVars
  <2>7. Looks'
    BY DEF Looks, Stay, Return, Moved, callVars, txVars, rxVars, CallTypes, TxTypes,
           RxTypes, Occ, Room, Held
  <2> QED BY <2>1, <2>2, <2>3, <2>4, <2>5, <2>6, <2>7
<1>3. CASE ReadTest
  <2> USE <1>3 DEF ReadTest
  <2>1. CallTypes'
    <3>1. CASE Stay("rcopy") /\ UNCHANGED seen
      <4>1. seen' \in 0 .. BufLen - 1 /\ "rcopy" \in PCs
        BY <3>1, Zenon DEF CallTypes, PCs
      <4> QED BY <3>1, <4>1, StayTypes, Zenon
    <3>2. CASE Return(Moved)
      BY <3>2, MovedIs, ReturnTypes, Zenon
    <3> QED BY <3>1, <3>2, Zenon
  <2>2. HostTypes'
    BY HostStays
  <2>3. TxTypes'
    BY TxStays
  <2>4. RxTypes'
    BY RxStays
  <2>5. IsrTypes'
    BY IsrStays
  <2>6. SpaceFits' /\ PendingMeansEnabled' /\ ReceiveOffMeansFull'
    BY DEF SpaceFits, PendingMeansEnabled, ReceiveOffMeansFull, Full, Stay, Return, Moved,
           callVars, txVars, rxVars, isrVars
  <2>7. Looks'
    BY DEF Looks, Stay, Return, Moved, callVars, txVars, rxVars, CallTypes, TxTypes,
           RxTypes, Occ, Room, Held
  <2> QED BY <2>1, <2>2, <2>3, <2>4, <2>5, <2>6, <2>7
<1>4. CASE ReadEnable
  <2> USE <1>4 DEF ReadEnable
  <2>1. CallTypes'
    BY MovedIs, ReturnTypes, Zenon
  <2>2. HostTypes'
    BY HostStays
  <2>3. TxTypes'
    BY TxStays
  <2>4. RxTypes'
    BY RxStays
  <2>5. IsrTypes'
    BY DEF IsrTypes, isrVars, EnableReceive
  <2>6. SpaceFits' /\ PendingMeansEnabled' /\ ReceiveOffMeansFull'
    BY DEF SpaceFits, PendingMeansEnabled, ReceiveOffMeansFull, Full, Stay, Return, Moved,
           callVars, txVars, rxVars, isrVars, EnableReceive
  <2>7. Looks'
    BY DEF Looks, Stay, Return, Moved, callVars, txVars, rxVars, CallTypes, TxTypes,
           RxTypes, Occ, Room, Held
  <2> QED BY <2>1, <2>2, <2>3, <2>4, <2>5, <2>6, <2>7
<1> QED BY <1>1, <1>2, <1>3, <1>4

-----------------------------------------------------------------------------
(* The steps that move characters. *)

\* The characters that write numbers on the way into the ring.
LEMMA RunIs ==
  ASSUME NEW c \in 0 .. Chars - 1, NEW n \in Nat
  PROVE  /\ Tx!Run(c, n) \in Seq(0 .. Chars - 1) /\ Len(Tx!Run(c, n)) = n
         /\ \A i \in 1 .. n : Tx!Run(c, n)[i] = (c + (i - 1)) % Chars
         /\ Tx!After(c, n) \in 0 .. Chars - 1
<1>1. \A k \in Nat : (c + k) % Chars \in 0 .. Chars - 1
  BY UartAssumption
<1>2. \A i \in 1 .. n : i - 1 \in Nat
  OBVIOUS
<1>3. \A i \in 1 .. n : (c + (i - 1)) % Chars \in 0 .. Chars - 1
  BY <1>1, <1>2, Zenon
<1> DEFINE run == [i \in 1 .. n |-> (c + (i - 1)) % Chars]
<1>4. Tx!Run(c, n) = run
  BY DEF Tx!Run, Tx!After
<1>5. run \in [1 .. n -> 0 .. Chars - 1]
  BY <1>3, Zenon
<1>6. \A i \in 1 .. n : run[i] = (c + (i - 1)) % Chars
  BY Zenon
<1> HIDE DEF run
<1>7. run \in Seq(0 .. Chars - 1) /\ Len(run) = n
  BY <1>5, FunctionIsSeq, Zenon
<1> QED BY <1>1, <1>4, <1>6, <1>7, Zenon DEF Tx!After

\* write's copy, made with an index that may be old: the room it saw is there, and the
\* characters go behind those in the ring.
LEMMA WriteCopyIs ==
  ASSUME UartInv, WriteCopy
  PROVE  /\ tx_in' \in 0 .. BufLen - 1 /\ tx_buf' \in [0 .. BufLen - 1 -> 0 .. Chars - 1]
         /\ count' \in 0 .. MaxCount
         /\ \E n \in 1 .. Chars :
              /\ put' = Tx!After(put, n)
              /\ put' \in 0 .. Chars - 1
              /\ Tx!Run(put, n) \in Seq(0 .. Chars - 1)
              /\ InRing(tx_buf', tx_in', tx_out) = InRing(tx_buf, tx_in, tx_out) \o Tx!Run(put, n)
<1>1. /\ tx_in \in 0 .. BufLen - 1 /\ tx_out \in 0 .. BufLen - 1
      /\ tx_buf \in [0 .. BufLen - 1 -> 0 .. Chars - 1] /\ put \in 0 .. Chars - 1
  BY DEF UartInv, TxTypes
<1>2. /\ seen \in 0 .. BufLen - 1 /\ count \in 0 .. MaxCount /\ count > 0
      /\ Room(tx_in, seen) > 0 /\ Occ(tx_in, tx_out) <= Occ(tx_in, seen)
  BY DEF UartInv, CallTypes, Looks, WriteCopy
<1>3. PICK n \in Nat : n = Smaller(Room(tx_in, seen), count)
  <2>1. Room(tx_in, seen) \in Int /\ count \in Int
    BY <1>1, <1>2, UartAssumption DEF Room
  <2>2. Smaller(Room(tx_in, seen), count) \in Nat
    BY <1>2, <2>1 DEF Smaller
  <2> QED BY <2>2, Zenon
<1>4. /\ n >= 1 /\ n <= count /\ n <= BufLen - 1 /\ tx_in + n <= BufLen
      /\ n <= BufLen - 1 - Occ(tx_in, seen)
  BY <1>1, <1>2, <1>3, UartAssumption DEF Room, Smaller, Occ
<1>5. n <= BufLen - 1 - Occ(tx_in, tx_out)
  <2>1. Occ(tx_in, tx_out) \in 0 .. BufLen - 1 /\ Occ(tx_in, seen) \in 0 .. BufLen - 1
    BY <1>1, <1>2, OccIs
  <2> QED BY <1>2, <1>4, <2>1, UartAssumption
<1>6. n \in 1 .. Chars
  BY <1>4, UartAssumption
<1>7. PICK run :
        /\ run \in Seq(0 .. Chars - 1) /\ run = Tx!Run(put, n) /\ Len(run) = n
        /\ \A i \in 1 .. n : run[i] = (put + (i - 1)) % Chars
  BY <1>1, RunIs, Zenon
<1>8. tx_buf' = Copied(tx_buf, tx_in, run)
  <2>1. tx_buf' = [i \in 0 .. BufLen - 1 |->
                     IF i \in tx_in .. tx_in + n - 1 THEN (put + i - tx_in) % Chars ELSE tx_buf[i]]
    BY <1>3, Zenon DEF WriteCopy
  <2>2. ASSUME NEW i \in 0 .. BufLen - 1, i \in tx_in .. tx_in + n - 1
        PROVE  run[i - tx_in + 1] = (put + i - tx_in) % Chars
    <3>1. i - tx_in + 1 \in 1 .. n /\ put + ((i - tx_in + 1) - 1) = put + i - tx_in
      BY <1>1, <2>2, UartAssumption
    <3>2. run[i - tx_in + 1] = (put + ((i - tx_in + 1) - 1)) % Chars
      BY <1>7, <3>1
    <3> QED BY <3>1, <3>2, Zenon
  <2>3. Copied(tx_buf, tx_in, run) =
          [i \in 0 .. BufLen - 1 |->
             IF i \in tx_in .. tx_in + n - 1 THEN run[i - tx_in + 1] ELSE tx_buf[i]]
    BY <1>7, Zenon DEF Copied
  <2> QED BY <2>1, <2>2, <2>3, Zenon
<1>9. tx_in' = After(tx_in, Len(run)) /\ put' = (put + n) % Chars /\ count' = count - n
  BY <1>3, <1>7, Zenon DEF WriteCopy
<1>10. /\ tx_buf' \in [0 .. BufLen - 1 -> 0 .. Chars - 1]
       /\ InRing(tx_buf', tx_in', tx_out) = InRing(tx_buf, tx_in, tx_out) \o run
  <2>1. Len(run) <= BufLen - 1 - Occ(tx_in, tx_out) /\ tx_in + Len(run) <= BufLen
    BY <1>4, <1>5, <1>7
  <2>2. /\ tx_in \in 0 .. BufLen - 1 /\ tx_out \in 0 .. BufLen - 1
        /\ tx_buf \in [0 .. BufLen - 1 -> 0 .. Chars - 1] /\ run \in Seq(0 .. Chars - 1)
        /\ Len(run) <= BufLen - 1 - Occ(tx_in, tx_out) /\ tx_in + Len(run) <= BufLen
    BY <1>1, <1>7, <2>1, Zenon
  <2>3. /\ Copied(tx_buf, tx_in, run) \in [0 .. BufLen - 1 -> 0 .. Chars - 1]
        /\ Behind(InRing(Copied(tx_buf, tx_in, run), After(tx_in, Len(run)), tx_out),
                  InRing(tx_buf, tx_in, tx_out), run)
    BY <2>2, RingPut, Zenon
  <2>4. tx_in' = After(tx_in, Len(run))
    BY <1>9, Zenon
  <2> QED BY <1>8, <2>3, <2>4, Zenon DEF Behind
<1>11. tx_in' \in 0 .. BufLen - 1
  <2>1. n \in 0 .. BufLen
    BY <1>4, UartAssumption
  <2> QED BY <1>1, <1>7, <1>9, <2>1, AfterIs, Zenon
<1>12. count' \in 0 .. MaxCount
  BY <1>2, <1>4, <1>9, UartAssumption
<1>13. put' = Tx!After(put, n) /\ put' \in 0 .. Chars - 1
  BY <1>1, <1>9, RunIs, Zenon DEF Tx!After
<1> QED BY <1>6, <1>7, <1>10, <1>11, <1>12, <1>13, Zenon

\* read's copy takes the first characters of the ring: its index may be old, but what it
\* saw is still there.
LEMMA ReadCopyIs ==
  ASSUME UartInv, ReadCopy
  PROVE  \E n \in 1 .. Occ(rx_in, rx_out) :
           /\ n <= count /\ count' = count - n
           /\ pc' = IF n < count THEN "rcopy" ELSE "renable"
           /\ rx_out' = After(rx_out, n) /\ rx_out' \in 0 .. BufLen - 1
           /\ read' = SubSeq(InRing(rx_buf, rx_in, rx_out), 1, n)
           /\ InRing(rx_buf, rx_in, rx_out') =
                SubSeq(InRing(rx_buf, rx_in, rx_out), n + 1, Occ(rx_in, rx_out))
<1> DEFINE ring == InRing(rx_buf, rx_in, rx_out)
<1>1. /\ rx_in \in 0 .. BufLen - 1 /\ rx_out \in 0 .. BufLen - 1
      /\ rx_buf \in [0 .. BufLen - 1 -> 0 .. Chars - 1]
  BY DEF UartInv, RxTypes
<1>2. /\ seen \in 0 .. BufLen - 1 /\ count \in 0 .. MaxCount /\ count > 0
      /\ Held(seen, rx_out) > 0 /\ Occ(seen, rx_out) <= Occ(rx_in, rx_out)
  BY DEF UartInv, CallTypes, Looks, ReadCopy
<1>3. PICK n \in Nat : n = Smaller(Held(seen, rx_out), count)
  <2>1. Held(seen, rx_out) \in Int /\ count \in Int
    BY <1>1, <1>2, UartAssumption DEF Held
  <2>2. Smaller(Held(seen, rx_out), count) \in Nat
    BY <1>2, <2>1 DEF Smaller
  <2> QED BY <2>2, Zenon
<1>4. n >= 1 /\ n <= count /\ rx_out + n <= BufLen /\ n <= Occ(seen, rx_out)
  BY <1>1, <1>2, <1>3, UartAssumption DEF Held, Smaller, Occ
<1>5. n \in 1 .. Occ(rx_in, rx_out) /\ n \in 0 .. BufLen
  <2>1. Occ(rx_in, rx_out) \in 0 .. BufLen - 1 /\ Occ(seen, rx_out) \in 0 .. BufLen - 1
    BY <1>1, <1>2, OccIs
  <2> QED BY <1>2, <1>4, <2>1, UartAssumption
<1>6. /\ read' = [i \in 1 .. n |-> rx_buf[rx_out + i - 1]]
      /\ rx_out' = After(rx_out, n) /\ count' = count - n
      /\ pc' = IF n < count THEN "rcopy" ELSE "renable"
  BY <1>3, Zenon DEF ReadCopy
<1>7. rx_out' \in 0 .. BufLen - 1
  BY <1>1, <1>5, <1>6, AfterIs, Zenon
<1>8. /\ ring \in Seq(0 .. Chars - 1) /\ Len(ring) = Occ(rx_in, rx_out)
      /\ \A i \in 1 .. Occ(rx_in, rx_out) : ring[i] = rx_buf[After(rx_out, i - 1)]
  BY <1>1, RingIsSeq, Zenon
<1> HIDE DEF ring
<1>9. read' = SubSeq(ring, 1, n)
  <2>1. \A i \in 1 .. n : rx_buf[rx_out + i - 1] = ring[i]
    <3> SUFFICES ASSUME NEW i \in 1 .. n PROVE rx_buf[rx_out + i - 1] = ring[i]
      OBVIOUS
    <3>0. BufLen \in Nat /\ rx_out \in Nat /\ Occ(rx_in, rx_out) \in Nat
          /\ n <= Occ(rx_in, rx_out) /\ n <= BufLen /\ rx_out + n <= BufLen
      BY <1>1, <1>4, <1>5, OccIs, UartAssumption
    <3>1. i \in 1 .. Occ(rx_in, rx_out) /\ i - 1 \in 0 .. BufLen /\ rx_out + (i - 1) < BufLen
          /\ rx_out + (i - 1) = rx_out + i - 1
      BY <3>0
    <3>2. After(rx_out, i - 1) = rx_out + i - 1
      BY <1>1, <3>1, AfterIs
    <3> QED BY <1>8, <3>1, <3>2, Zenon
  <2>2. [i \in 1 .. n |-> rx_buf[rx_out + i - 1]] = [i \in 1 .. n |-> ring[i]]
    BY <2>1, Zenon
  <2>3. SubSeq(ring, 1, n) = [i \in 1 .. n |-> ring[i]]
    BY <1>5, <1>8, UartAssumption
  <2> QED BY <1>6, <2>2, <2>3, Zenon
<1>10. InRing(rx_buf, rx_in, rx_out') = SubSeq(ring, n + 1, Occ(rx_in, rx_out))
  <2>1. n \in 0 .. Occ(rx_in, rx_out)
    BY <1>5
  <2>2. InRing(rx_buf, rx_in, After(rx_out, n)) = SubSeq(ring, n + 1, Occ(rx_in, rx_out))
    BY <1>1, <2>1, RingTake, Zenon DEF ring
  <2> QED BY <1>6, <2>2, Zenon
<1> QED BY <1>4, <1>5, <1>6, <1>7, <1>9, <1>10, Zenon DEF ring

\* The routine moves a character from the FIFO to the end of the ring, where there is room.
LEMMA IsrReceiveIs ==
  ASSUME UartInv, IsrReceive, rxfifo # <<>>
  PROVE  /\ rx_in' \in 0 .. BufLen - 1 /\ rx_buf' \in [0 .. BufLen - 1 -> 0 .. Chars - 1]
         /\ Occ(rx_in', rx_out) = Occ(rx_in, rx_out) + 1
         /\ rxfifo' \in Seq(0 .. Chars - 1) /\ Len(rxfifo') <= Depth
         /\ InRing(rx_buf', rx_in', rx_out) \o rxfifo' = InRing(rx_buf, rx_in, rx_out) \o rxfifo
<1>1. /\ rx_in \in 0 .. BufLen - 1 /\ rx_out \in 0 .. BufLen - 1
      /\ rx_buf \in [0 .. BufLen - 1 -> 0 .. Chars - 1]
      /\ rxfifo \in Seq(0 .. Chars - 1) /\ Len(rxfifo) <= Depth
  BY DEF UartInv, RxTypes
<1>2. /\ rx_buf' = [rx_buf EXCEPT ![rx_in] = Head(rxfifo)]
      /\ rx_in' = After(rx_in, 1) /\ rxfifo' = Tail(rxfifo)
  BY DEF IsrReceive
<1>3. /\ 1 \in 0 .. BufLen /\ rx_in + 1 <= BufLen
      /\ After(rx_in, 1) \in 0 .. BufLen - 1
      /\ After(rx_in, 1) = IF rx_in + 1 < BufLen THEN rx_in + 1 ELSE rx_in + 1 - BufLen
  <2>1. 1 \in 0 .. BufLen /\ rx_in + 1 <= BufLen
    BY <1>1, UartAssumption
  <2> QED BY <1>1, <2>1, AfterIs
<1>4. After(rx_in, 1) # rx_out
  BY DEF IsrReceive, Full
<1>5. /\ Occ(rx_in, rx_out) + 1 <= BufLen - 1
      /\ Occ(After(rx_in, 1), rx_out) = Occ(rx_in, rx_out) + 1
  <2>1. PICK next : next = After(rx_in, 1)
    OBVIOUS
  <2>2. BufLen \in Nat \ {0, 1} /\ rx_in \in 0 .. BufLen - 1 /\ rx_out \in 0 .. BufLen - 1
    BY <1>1, UartAssumption
  <2>3. /\ next = IF rx_in + 1 < BufLen THEN rx_in + 1 ELSE rx_in + 1 - BufLen
        /\ next # rx_out
    BY <1>3, <1>4, <2>1, Zenon
  <2>4. Occ(rx_in, rx_out) + 1 <= BufLen - 1 /\ Occ(next, rx_out) = Occ(rx_in, rx_out) + 1
    BY <2>2, <2>3, SMTT(30) DEF Occ
  <2> QED BY <2>1, <2>4, Zenon
<1>6. /\ Head(rxfifo) = rxfifo[1] /\ Tail(rxfifo) = SubSeq(rxfifo, 2, Len(rxfifo))
      /\ Tail(rxfifo) \in Seq(0 .. Chars - 1) /\ Len(Tail(rxfifo)) = Len(rxfifo) - 1
  BY <1>1, HeadTailProperties, TailIsSubSeq
<1>7. rxfifo[1] \in 0 .. Chars - 1
  BY <1>1, MoveFirst, Zenon
<1>8. PICK s : s = <<rxfifo[1]>>
  OBVIOUS
<1>9. s \in Seq(0 .. Chars - 1) /\ Len(s) = 1 /\ s[1] = rxfifo[1]
  BY <1>7, <1>8
<1>10. rx_buf' = Copied(rx_buf, rx_in, s)
  <2>1. rx_in .. rx_in + Len(s) - 1 = {rx_in} /\ rx_in - rx_in + 1 = 1
    BY <1>1, <1>9, UartAssumption
  <2>2. Copied(rx_buf, rx_in, s) =
          [i \in 0 .. BufLen - 1 |-> IF i = rx_in THEN s[1] ELSE rx_buf[i]]
    BY <2>1, Zenon DEF Copied
  <2>3. [rx_buf EXCEPT ![rx_in] = rxfifo[1]] =
          [i \in 0 .. BufLen - 1 |-> IF i = rx_in THEN rxfifo[1] ELSE rx_buf[i]]
    BY <1>1
  <2> QED BY <1>2, <1>6, <1>9, <2>2, <2>3, Zenon
<1>11. rx_in' = After(rx_in, Len(s))
  BY <1>2, <1>9
<1>12. /\ rx_buf' \in [0 .. BufLen - 1 -> 0 .. Chars - 1]
       /\ InRing(rx_buf', rx_in', rx_out) = InRing(rx_buf, rx_in, rx_out) \o s
  <2>1. Len(s) <= BufLen - 1 - Occ(rx_in, rx_out) /\ rx_in + Len(s) <= BufLen
    <3>1. Occ(rx_in, rx_out) \in 0 .. BufLen - 1 /\ BufLen \in Nat
      BY <1>1, OccIs, UartAssumption
    <3>2. 1 <= BufLen - 1 - Occ(rx_in, rx_out)
      BY <1>5, <3>1
    <3> QED BY <1>3, <1>9, <3>2, Zenon
  <2>2. /\ rx_in \in 0 .. BufLen - 1 /\ rx_out \in 0 .. BufLen - 1
        /\ rx_buf \in [0 .. BufLen - 1 -> 0 .. Chars - 1] /\ s \in Seq(0 .. Chars - 1)
        /\ Len(s) <= BufLen - 1 - Occ(rx_in, rx_out) /\ rx_in + Len(s) <= BufLen
    BY <1>1, <1>9, <2>1, Zenon
  <2>3. /\ Copied(rx_buf, rx_in, s) \in [0 .. BufLen - 1 -> 0 .. Chars - 1]
        /\ Behind(InRing(Copied(rx_buf, rx_in, s), After(rx_in, Len(s)), rx_out),
                  InRing(rx_buf, rx_in, rx_out), s)
    BY <2>2, RingPut, Zenon
  <2> QED BY <1>10, <1>11, <2>3, Zenon DEF Behind
<1>13. PICK ring : ring = InRing(rx_buf, rx_in, rx_out)
  OBVIOUS
<1>14. ring \in Seq(0 .. Chars - 1)
  BY <1>1, <1>13, RingIsSeq, Zenon
<1>15. ring \o s = Append(ring, rxfifo[1])
  BY <1>7, <1>8, <1>14, AppendIsConcat, Zenon
<1>16. Append(ring, rxfifo[1]) \o SubSeq(rxfifo, 2, Len(rxfifo)) = ring \o rxfifo
  BY <1>1, <1>14, MoveFirst, Zenon
<1>17. Len(rxfifo') <= Depth
  BY <1>1, <1>2, <1>6, LenProperties, UartAssumption
<1>18. InRing(rx_buf', rx_in', rx_out) \o rxfifo' = ring \o rxfifo
  BY <1>2, <1>6, <1>12, <1>13, <1>15, <1>16, Zenon
<1> QED BY <1>2, <1>3, <1>5, <1>6, <1>12, <1>13, <1>17, <1>18

\* And the first of the other ring to the end of the other FIFO, which has the space.
LEMMA IsrTransmitIs ==
  ASSUME UartInv, IsrTransmit
  PROVE  /\ tx_out' \in 0 .. BufLen - 1
         /\ Occ(tx_in, tx_out') = Occ(tx_in, tx_out) - 1
         /\ txfifo' \in Seq(0 .. Chars - 1) /\ Len(txfifo') = Len(txfifo) + 1
         /\ Len(txfifo') <= Depth
         /\ txfifo' \o InRing(tx_buf, tx_in, tx_out') = txfifo \o InRing(tx_buf, tx_in, tx_out)
<1>1. /\ tx_in \in 0 .. BufLen - 1 /\ tx_out \in 0 .. BufLen - 1
      /\ tx_buf \in [0 .. BufLen - 1 -> 0 .. Chars - 1]
      /\ txfifo \in Seq(0 .. Chars - 1) /\ Len(txfifo) <= Depth
  BY DEF UartInv, TxTypes
<1>2. space \in 0 .. Depth /\ space > 0 /\ space <= Depth - Len(txfifo)
  BY DEF UartInv, IsrTypes, SpaceFits, IsrTransmit
<1>3. Len(txfifo) \in Nat /\ Len(txfifo) < Depth
  BY <1>1, <1>2, LenProperties, UartAssumption
<1>4. tx_out' = After(tx_out, 1) /\ txfifo' = Append(txfifo, tx_buf[tx_out]) /\ tx_out # tx_in
  BY <1>3 DEF IsrTransmit
<1>5. Occ(tx_in, tx_out) \in 1 .. BufLen - 1
  BY <1>1, <1>4, OccIs
<1>6. 1 \in 0 .. Occ(tx_in, tx_out) /\ 1 \in 1 .. Occ(tx_in, tx_out)
  BY <1>5, UartAssumption
<1>7. After(tx_out, 1) \in 0 .. BufLen - 1 /\ Occ(tx_in, After(tx_out, 1)) = Occ(tx_in, tx_out) - 1
  BY <1>1, <1>6, TakePlaces, Zenon
<1>8. PICK ring : ring = InRing(tx_buf, tx_in, tx_out)
  OBVIOUS
<1>9. /\ ring \in Seq(0 .. Chars - 1) /\ Len(ring) = Occ(tx_in, tx_out)
      /\ ring[1] = tx_buf[After(tx_out, 1 - 1)]
  BY <1>1, <1>6, <1>8, RingIsSeq, Zenon
<1>10. After(tx_out, 1 - 1) = tx_out
  BY <1>1, AfterIs, UartAssumption
<1>11. ring[1] = tx_buf[tx_out]
  BY <1>9, <1>10, Zenon
<1>12. ring # <<>>
  BY <1>5, <1>9
<1>13. InRing(tx_buf, tx_in, After(tx_out, 1)) = SubSeq(ring, 1 + 1, Occ(tx_in, tx_out))
  BY <1>1, <1>6, <1>8, RingTake, Zenon
<1>14. InRing(tx_buf, tx_in, After(tx_out, 1)) = SubSeq(ring, 2, Len(ring))
  <2>1. 1 + 1 = 2
    OBVIOUS
  <2> QED BY <1>9, <1>13, <2>1, Zenon
<1>15. /\ ring[1] \in 0 .. Chars - 1
       /\ Append(txfifo, ring[1]) \o SubSeq(ring, 2, Len(ring)) = txfifo \o ring
  BY <1>1, <1>9, <1>12, MoveFirst, Zenon
<1>16. txfifo' \o InRing(tx_buf, tx_in, tx_out') = txfifo \o ring
  BY <1>4, <1>11, <1>14, <1>15, Zenon
<1>17. txfifo' \in Seq(0 .. Chars - 1) /\ Len(txfifo') = Len(txfifo) + 1
  BY <1>1, <1>4, <1>11, <1>15, AppendProperties
<1>18. Len(txfifo') <= Depth
  BY <1>3, <1>17, UartAssumption
<1> QED BY <1>4, <1>7, <1>8, <1>16, <1>17, <1>18, Zenon
-----------------------------------------------------------------------------
(* The invariant, through these steps and the rest of the routine's, the   *)
(* alarm's and the host's.                                                 *)

LEMMA CopiesKeep ==
  ASSUME UartInv, WriteCopy \/ ReadCopy
  PROVE  UartInv'
<1> USE UartAssumption DEF UartInv
<1>1. CASE WriteCopy
  <2>1. /\ tx_in' \in 0 .. BufLen - 1 /\ tx_buf' \in [0 .. BufLen - 1 -> 0 .. Chars - 1]
        /\ count' \in 0 .. MaxCount /\ put' \in 0 .. Chars - 1
    BY <1>1, WriteCopyIs, Zenon
  <2> USE <1>1 DEF WriteCopy
  <2>2. CallTypes'
    <3>1. moved' \in BOOLEAN /\ nonblock' \in BOOLEAN
      BY Zenon DEF CallTypes
    <3>2. pc' \in PCs
      BY Zenon DEF PCs
    <3>3. seen' \in 0 .. BufLen - 1 /\ ret' \in {"none", "0", "count", "EWOULDBLOCK", "EIO"}
      BY Zenon DEF CallTypes
    <3> QED BY <2>1, <3>1, <3>2, <3>3, Zenon DEF CallTypes, PCs
  <2>3. TxTypes'
    BY <2>1, Zenon DEF TxTypes
  <2>4. HostTypes'
    BY HostStays
  <2>5. RxTypes'
    BY RxStays
  <2>6. IsrTypes'
    BY IsrStays
  <2>7. SpaceFits' /\ Looks' /\ PendingMeansEnabled'
    BY DEF SpaceFits, Looks, PendingMeansEnabled, isrVars
  <2>8. ReceiveOffMeansFull'
    BY DEF ReceiveOffMeansFull, Full, rxVars
  <2> QED BY <2>2, <2>3, <2>4, <2>5, <2>6, <2>7, <2>8
<1>2. CASE ReadCopy
  <2>1. PICK n \in 1 .. Occ(rx_in, rx_out) :
          /\ n <= count /\ count' = count - n
          /\ pc' = IF n < count THEN "rcopy" ELSE "renable"
          /\ rx_out' \in 0 .. BufLen - 1
          /\ read' = SubSeq(InRing(rx_buf, rx_in, rx_out), 1, n)
    BY <1>2, ReadCopyIs, Zenon
  <2>2. Occ(rx_in, rx_out) \in 0 .. BufLen - 1
    BY OccIs DEF RxTypes
  <2>3. n \in Nat /\ n > 0 /\ count \in 0 .. MaxCount
    BY <2>2 DEF CallTypes
  <2>4. read' \in Seq(0 .. Chars - 1)
    <3>1. PICK ring : ring = InRing(rx_buf, rx_in, rx_out)
      OBVIOUS
    <3>2. ring \in Seq(0 .. Chars - 1) /\ Len(ring) = Occ(rx_in, rx_out)
      BY <3>1, RingIsSeq, Zenon DEF RxTypes
    <3>3. 1 \in Int /\ n \in Int
      BY <2>3
    <3>4. \A i \in 1 .. n : ring[i] \in 0 .. Chars - 1
      <4>1. \A i \in 1 .. n : i \in 1 .. Len(ring)
        BY <2>2, <2>3, <3>2
      <4> QED BY <3>2, <4>1, ElementOfSeq, Zenon
    <3>5. SubSeq(ring, 1, n) \in Seq(0 .. Chars - 1)
      BY <3>3, <3>4, SubSeqProperties, Zenon
    <3> QED BY <2>1, <3>1, <3>5, Zenon
  <2> USE <1>2 DEF ReadCopy
  <2>5. CallTypes'
    <3>1. moved' \in BOOLEAN /\ nonblock' \in BOOLEAN
      BY Zenon DEF CallTypes
    <3>2. pc' \in PCs
      BY <2>1, Zenon DEF PCs
    <3>3. seen' \in 0 .. BufLen - 1 /\ ret' \in {"none", "0", "count", "EWOULDBLOCK", "EIO"}
      BY Zenon DEF CallTypes
    <3>4. count' \in 0 .. MaxCount
      BY <2>1, <2>3
    <3> QED BY <3>1, <3>2, <3>3, <3>4, Zenon DEF CallTypes, PCs
  <2>6. RxTypes'
    BY <2>1, <2>4, Zenon DEF RxTypes
  <2>7. HostTypes'
    BY HostStays
  <2>8. TxTypes'
    BY TxStays
  <2>9. IsrTypes'
    BY IsrStays
  <2>10. SpaceFits'
    BY DEF SpaceFits, isrVars
  <2>11. Looks'
    BY <2>1, <2>3 DEF Looks
  <2>12. PendingMeansEnabled' /\ ReceiveOffMeansFull'
    BY <2>1 DEF PendingMeansEnabled, ReceiveOffMeansFull, txVars
  <2> QED BY <2>5, <2>6, <2>7, <2>8, <2>9, <2>10, <2>11, <2>12
<1> QED BY <1>1, <1>2

LEMMA ReceiveKeeps ==
  ASSUME UartInv, IsrControl \/ IsrReceive \/ IsrReceiveFull
  PROVE  UartInv'
<1> USE UartAssumption DEF UartInv
<1>1. CASE IsrControl
  <2> USE <1>1 DEF IsrControl
  <2>1. CallTypes' /\ HostTypes' /\ TxTypes' /\ RxTypes'
    BY CallStays, HostStays, TxStays, RxStays, Zenon DEF callVars
  <2>2. Len(txfifo) \in 0 .. Depth
    BY LenProperties DEF TxTypes
  <2>3. space' \in 0 .. Depth /\ space' <= Depth - Len(txfifo)
    BY <2>2
  <2>4. Raised \subseteq {"RI", "WI"}
    BY Zenon DEF Raised
  <2>5. avail' \in BOOLEAN
    <3>1. ("RI" \in Raised) \in BOOLEAN
      OBVIOUS
    <3> QED BY <3>1, Zenon
  <2>6. isr' \in {"off", "loop", "rx", "tx", "alarm"} /\ irq_enable' \subseteq {"RE", "WE"}
    BY DEF IsrTypes
  <2>7. IsrTypes'
    BY <2>3, <2>4, <2>5, <2>6, Zenon DEF IsrTypes
  <2>8. SpaceFits'
    BY <2>3 DEF SpaceFits, txVars
  <2>9. Looks' /\ PendingMeansEnabled' /\ ReceiveOffMeansFull'
    BY DEF Looks, PendingMeansEnabled, ReceiveOffMeansFull, Full, callVars, txVars, rxVars
  <2> QED BY <2>1, <2>7, <2>8, <2>9
<1>2. CASE IsrReceive /\ rxfifo = <<>>
  <2> USE <1>2 DEF IsrReceive
  <2>1. CallTypes' /\ HostTypes' /\ TxTypes'
    BY CallStays, HostStays, TxStays, Zenon DEF callVars
  <2>2. RxTypes'
    BY RxStays DEF rxVars
  <2>3. avail' \in BOOLEAN
    BY Zenon
  <2>4. isr' \in {"off", "loop", "rx", "tx", "alarm"}
    BY DEF AfterReceive
  <2>5. IsrTypes'
    BY <2>3, <2>4, Zenon DEF IsrTypes
  <2>6. SpaceFits'
    BY DEF SpaceFits, txVars
  <2>7. Looks' /\ PendingMeansEnabled' /\ ReceiveOffMeansFull'
    BY DEF Looks, PendingMeansEnabled, ReceiveOffMeansFull, Full, callVars, txVars
  <2> QED BY <2>1, <2>2, <2>5, <2>6, <2>7
<1>3. CASE IsrReceive /\ rxfifo # <<>>
  <2>1. /\ rx_in' \in 0 .. BufLen - 1 /\ rx_buf' \in [0 .. BufLen - 1 -> 0 .. Chars - 1]
        /\ Occ(rx_in', rx_out) = Occ(rx_in, rx_out) + 1
        /\ rxfifo' \in Seq(0 .. Chars - 1) /\ Len(rxfifo') <= Depth
    BY <1>3, IsrReceiveIs, Zenon
  <2> USE <1>3 DEF IsrReceive
  <2>2. CallTypes' /\ HostTypes' /\ TxTypes'
    BY CallStays, HostStays, TxStays, Zenon DEF callVars
  <2>3. RxTypes'
    BY <2>1, Zenon DEF RxTypes
  <2>4. avail' \in BOOLEAN
    BY Zenon
  <2>5. IsrTypes'
    BY <2>4, Zenon DEF IsrTypes
  <2>6. SpaceFits'
    BY DEF SpaceFits, txVars
  <2>7. PendingMeansEnabled' /\ ReceiveOffMeansFull'
    BY DEF PendingMeansEnabled, ReceiveOffMeansFull, callVars, txVars
  <2>8. Looks'
    <3>1. /\ Occ(rx_in, rx_out) \in 0 .. BufLen - 1
          /\ pc = "rget" => Occ(seen, rx_out) \in 0 .. BufLen - 1
      BY OccIs DEF CallTypes, RxTypes
    <3>2. /\ pc' = pc /\ count' = count /\ seen' = seen /\ tx_in' = tx_in /\ tx_out' = tx_out
          /\ rx_out' = rx_out
      BY DEF callVars, txVars
    <3>3. pc = "rget" => Occ(seen, rx_out) <= Occ(rx_in', rx_out)
      BY <2>1, <3>1 DEF Looks
    <3> QED BY <3>2, <3>3, Zenon DEF Looks
  <2> QED BY <2>2, <2>3, <2>5, <2>6, <2>7, <2>8
<1>4. CASE IsrReceiveFull
  <2> USE <1>4 DEF IsrReceiveFull
  <2>1. CallTypes' /\ HostTypes' /\ TxTypes' /\ RxTypes'
    BY CallStays, HostStays, TxStays, RxStays, Zenon DEF callVars
  <2>2. IsrTypes'
    <3>1. irq_enable' \subseteq {"RE", "WE"} /\ isr' \in {"off", "loop", "rx", "tx", "alarm"}
      BY DEF IsrTypes, AfterReceive
    <3> QED BY <3>1, Zenon DEF IsrTypes
  <2>3. SpaceFits'
    BY DEF SpaceFits, txVars
  <2>4. Looks' /\ PendingMeansEnabled' /\ ReceiveOffMeansFull'
    BY DEF Looks, PendingMeansEnabled, ReceiveOffMeansFull, Full, callVars, txVars, rxVars
  <2> QED BY <2>1, <2>2, <2>3, <2>4
<1> QED BY <1>1, <1>2, <1>3, <1>4, Zenon

LEMMA TransmitKeeps ==
  ASSUME UartInv, IsrTransmit \/ IsrTransmitEnd
  PROVE  UartInv'
<1> USE UartAssumption DEF UartInv
<1>1. CASE IsrTransmit
  <2>1. /\ tx_out' \in 0 .. BufLen - 1 /\ Occ(tx_in, tx_out') = Occ(tx_in, tx_out) - 1
        /\ txfifo' \in Seq(0 .. Chars - 1) /\ Len(txfifo') = Len(txfifo) + 1
        /\ Len(txfifo') <= Depth
    BY <1>1, IsrTransmitIs, Zenon
  <2> USE <1>1 DEF IsrTransmit
  <2>2. CallTypes' /\ HostTypes' /\ RxTypes'
    BY CallStays, HostStays, RxStays, Zenon DEF callVars
  <2>3. TxTypes'
    BY <2>1, Zenon DEF TxTypes
  <2>4. IsrTypes'
    <3>1. space' \in 0 .. Depth
      BY DEF IsrTypes
    <3> QED BY <3>1, Zenon DEF IsrTypes
  <2>5. SpaceFits'
    <3>1. Len(txfifo) \in Nat /\ space \in Nat /\ space <= Depth - Len(txfifo)
      BY LenProperties DEF SpaceFits, TxTypes, IsrTypes
    <3> QED BY <2>1, <3>1 DEF SpaceFits
  <2>6. PendingMeansEnabled' /\ ReceiveOffMeansFull'
    BY DEF PendingMeansEnabled, ReceiveOffMeansFull, Full, callVars, rxVars
  <2>7. Looks'
    <3>1. /\ Occ(tx_in, tx_out) \in 0 .. BufLen - 1
          /\ pc = "wput" => Occ(tx_in, seen) \in 0 .. BufLen - 1
      BY OccIs DEF CallTypes, TxTypes
    <3>2. /\ pc' = pc /\ count' = count /\ seen' = seen /\ tx_in' = tx_in
          /\ rx_in' = rx_in /\ rx_out' = rx_out
      BY DEF callVars, rxVars
    <3>3. pc = "wput" => Occ(tx_in, tx_out') <= Occ(tx_in, seen)
      BY <2>1, <3>1 DEF Looks
    <3> QED BY <3>2, <3>3, Zenon DEF Looks
  <2> QED BY <2>2, <2>3, <2>4, <2>5, <2>6, <2>7
<1>2. CASE IsrTransmitEnd
  <2> USE <1>2 DEF IsrTransmitEnd
  <2>1. CallTypes' /\ HostTypes' /\ TxTypes' /\ RxTypes'
    BY CallStays, HostStays, TxStays, RxStays, Zenon DEF callVars
  <2>2. IsrTypes'
    <3>1. irq_enable' \subseteq {"RE", "WE"}
      BY DEF IsrTypes
    <3> QED BY <3>1, Zenon DEF IsrTypes
  <2>3. SpaceFits'
    BY DEF SpaceFits
  <2>4. PendingMeansEnabled'
    BY DEF PendingMeansEnabled, NothingLeft, IsrTypes, callVars, txVars
  <2>5. Looks' /\ ReceiveOffMeansFull'
    BY DEF Looks, ReceiveOffMeansFull, Full, callVars, txVars, rxVars
  <2> QED BY <2>1, <2>2, <2>3, <2>4, <2>5
<1> QED BY <1>1, <1>2

LEMMA OthersKeep ==
  ASSUME UartInv, Alarm \/ AlarmClear \/ HostTake \/ HostSend \/ HostPoll \/ UNCHANGED vars
  PROVE  UartInv'
<1> USE UartAssumption DEF UartInv
<1>1. CASE Alarm
  <2> USE <1>1 DEF Alarm
  <2>1. CallTypes' /\ TxTypes' /\ RxTypes'
    BY CallStays, TxStays, RxStays, Zenon DEF callVars
  <2>2. HostTypes'
    <3>1. host_inactive' \in 0 .. IntMax - 2
      BY DEF HostTypes, Counted
    <3> QED BY <3>1, Zenon DEF HostTypes
  <2>3. IsrTypes'
    <3>1. isr' \in {"off", "loop", "rx", "tx", "alarm"}
      BY DEF IsrTypes
    <3> QED BY <3>1, Zenon DEF IsrTypes
  <2>4. SpaceFits' /\ Looks' /\ PendingMeansEnabled' /\ ReceiveOffMeansFull'
    BY DEF SpaceFits, Looks, PendingMeansEnabled, ReceiveOffMeansFull, Full, callVars,
           txVars, rxVars
  <2> QED BY <2>1, <2>2, <2>3, <2>4
<1>2. CASE AlarmClear
  <2> USE <1>2 DEF AlarmClear
  <2>1. CallTypes' /\ TxTypes' /\ RxTypes'
    BY CallStays, TxStays, RxStays, Zenon DEF callVars
  <2>2. HostTypes'
    <3>1. 0 \in 0 .. IntMax - 2
      OBVIOUS
    <3>2. ac' \in BOOLEAN
      BY Zenon
    <3> QED BY <3>1, <3>2, Zenon DEF HostTypes
  <2>3. IsrTypes'
    BY Zenon DEF IsrTypes
  <2>4. SpaceFits' /\ Looks' /\ PendingMeansEnabled' /\ ReceiveOffMeansFull'
    BY DEF SpaceFits, Looks, PendingMeansEnabled, ReceiveOffMeansFull, Full, callVars,
           txVars, rxVars
  <2> QED BY <2>1, <2>2, <2>3, <2>4
<1>3. CASE HostTake
  <2> USE <1>3 DEF HostTake
  <2>1. CallTypes' /\ RxTypes' /\ IsrTypes'
    BY CallStays, RxStays, IsrStays, Zenon DEF callVars
  <2>2. HostTypes'
    <3>1. ac' \in BOOLEAN
      BY Zenon
    <3> QED BY <3>1, Zenon DEF HostTypes
  <2>3. /\ Head(txfifo) \in 0 .. Chars - 1 /\ Tail(txfifo) \in Seq(0 .. Chars - 1)
        /\ Len(Tail(txfifo)) = Len(txfifo) - 1 /\ Len(txfifo) \in Nat
    BY HeadTailProperties, LenProperties DEF TxTypes
  <2>4. TxTypes'
    <3>1. Len(txfifo') <= Depth
      BY <2>3 DEF TxTypes
    <3>2. got' \in Seq(0 .. Chars - 1)
      BY <2>3
    <3> QED BY <2>3, <3>1, <3>2, Zenon DEF TxTypes
  <2>5. SpaceFits'
    BY <2>3 DEF SpaceFits, TxTypes, IsrTypes, isrVars
  <2>6. Looks' /\ PendingMeansEnabled' /\ ReceiveOffMeansFull'
    BY DEF Looks, PendingMeansEnabled, ReceiveOffMeansFull, Full, callVars, rxVars
  <2> QED BY <2>1, <2>2, <2>4, <2>5, <2>6
<1>4. CASE HostSend
  <2> USE <1>4 DEF HostSend
  <2>1. CallTypes' /\ TxTypes' /\ IsrTypes'
    BY CallStays, TxStays, IsrStays, Zenon DEF callVars
  <2>2. HostTypes'
    <3>1. ac' \in BOOLEAN
      BY Zenon
    <3> QED BY <3>1, Zenon DEF HostTypes
  <2>3. /\ rxfifo' \in Seq(0 .. Chars - 1) /\ Len(rxfifo') = Len(rxfifo) + 1 /\ Len(rxfifo) \in Nat
    BY AppendProperties, LenProperties DEF RxTypes
  <2>4. RxTypes'
    <3>1. Len(rxfifo') <= Depth
      BY <2>3
    <3>2. sent' \in 0 .. Chars - 1
      BY DEF RxTypes
    <3> QED BY <2>3, <3>1, <3>2, Zenon DEF RxTypes
  <2>5. SpaceFits' /\ Looks' /\ PendingMeansEnabled' /\ ReceiveOffMeansFull'
    BY DEF SpaceFits, Looks, PendingMeansEnabled, ReceiveOffMeansFull, Full, callVars,
           txVars, isrVars
  <2> QED BY <2>1, <2>2, <2>4, <2>5
<1>5. CASE HostPoll
  <2> USE <1>5 DEF HostPoll
  <2>1. CallTypes' /\ TxTypes' /\ RxTypes' /\ IsrTypes'
    BY CallStays, TxStays, RxStays, IsrStays, Zenon DEF callVars
  <2>2. HostTypes'
    <3>1. ac' \in BOOLEAN
      BY Zenon
    <3> QED BY <3>1, Zenon DEF HostTypes
  <2>3. SpaceFits' /\ Looks' /\ PendingMeansEnabled' /\ ReceiveOffMeansFull'
    BY DEF SpaceFits, Looks, PendingMeansEnabled, ReceiveOffMeansFull, Full, callVars,
           txVars, rxVars, isrVars
  <2> QED BY <2>1, <2>2, <2>3
<1>6. CASE UNCHANGED vars
  <2> USE <1>6 DEF vars
  <2>1. CallTypes' /\ HostTypes' /\ TxTypes' /\ RxTypes' /\ IsrTypes'
    BY CallStays, HostStays, TxStays, RxStays, IsrStays, Zenon DEF callVars
  <2>2. SpaceFits' /\ Looks' /\ PendingMeansEnabled' /\ ReceiveOffMeansFull'
    BY DEF SpaceFits, Looks, PendingMeansEnabled, ReceiveOffMeansFull, Full, callVars,
           txVars, rxVars, isrVars
  <2> QED BY <2>1, <2>2
<1> QED BY <1>1, <1>2, <1>3, <1>4, <1>5, <1>6

LEMMA NextKeeps == UartInv /\ [Next]_vars => UartInv'
<1> SUFFICES ASSUME UartInv, [Next]_vars
             PROVE  UartInv'
  OBVIOUS
<1>1. CASE Calls
  BY <1>1, CallsKeep
<1>2. CASE Program
  BY <1>2, WriteKeeps, ReadKeeps, CopiesKeep DEF Program
<1>3. CASE Isr
  BY <1>3, ReceiveKeeps, TransmitKeeps DEF Isr
<1>4. CASE Alarm \/ AlarmClear \/ HostTake \/ HostSend \/ HostPoll \/ UNCHANGED vars
  BY <1>4, OthersKeep
<1> QED BY <1>1, <1>2, <1>3, <1>4 DEF Next

LEMMA InvHolds == Spec => []UartInv
BY InitHolds, NextKeeps, PTL DEF Spec

\* The driver's variables keep their types: no index leaves its ring and no FIFO its depth.
THEOREM UartTypes == Spec => []TypeOK
<1>1. UartInv => TypeOK
  BY TypesAre DEF UartInv
<1> QED BY <1>1, InvHolds, PTL

\* Whatever the routine does between write's steps, characters in the transmit ring never
\* wait with the transmit interrupt off.
THEOREM PendingEnabled == Spec => []PendingMeansEnabled
<1>1. UartInv => PendingMeansEnabled
  BY DEF UartInv
<1> QED BY <1>1, InvHolds, PTL

\* Receiving is off only while the receive ring is full, or until the read that makes room
\* returns.
THEOREM ReceiveOff == Spec => []ReceiveOffMeansFull
<1>1. UartInv => ReceiveOffMeansFull
  BY DEF UartInv
<1> QED BY <1>1, InvHolds, PTL
-----------------------------------------------------------------------------
(* Each direction is a ByteStream. *)

\* What is on the way to the host: the FIFO, and the ring behind it.
LEMMA TxParts ==
  ASSUME UartInv
  PROVE  txfifo \in Seq(0 .. Chars - 1) /\ InRing(tx_buf, tx_in, tx_out) \in Seq(0 .. Chars - 1)
<1>1. /\ tx_in \in 0 .. BufLen - 1 /\ tx_out \in 0 .. BufLen - 1
      /\ tx_buf \in [0 .. BufLen - 1 -> 0 .. Chars - 1] /\ txfifo \in Seq(0 .. Chars - 1)
  BY DEF UartInv, TxTypes
<1> QED BY <1>1, RingIsSeq, Zenon

\* A copy by write accepts characters.
LEMMA WriteAccepts ==
  ASSUME UartInv, WriteCopy
  PROVE  \E n \in 1 .. Chars : Tx!Accept(n)
<1>1. PICK n \in 1 .. Chars :
        /\ put' = Tx!After(put, n)
        /\ Tx!Run(put, n) \in Seq(0 .. Chars - 1)
        /\ InRing(tx_buf', tx_in', tx_out) = InRing(tx_buf, tx_in, tx_out) \o Tx!Run(put, n)
  BY WriteCopyIs, Zenon
<1>2. txfifo' = txfifo /\ tx_out' = tx_out /\ got' = got
  BY DEF WriteCopy
<1>3. PICK ring, run : ring = InRing(tx_buf, tx_in, tx_out) /\ run = Tx!Run(put, n)
  OBVIOUS
<1>4. txfifo \in Seq(0 .. Chars - 1) /\ ring \in Seq(0 .. Chars - 1) /\ run \in Seq(0 .. Chars - 1)
  BY <1>1, <1>3, TxParts, Zenon
<1>5. (txfifo \o ring) \o run = txfifo \o (ring \o run)
  BY <1>4, ConcatAssociative, SMTT(30)
<1>6. txfifo' \o InRing(tx_buf', tx_in', tx_out') = (txfifo \o ring) \o run
  BY <1>1, <1>2, <1>3, <1>5, Zenon
<1>7. Tx!Accept(n)
  BY <1>1, <1>2, <1>3, <1>6, Zenon DEF Tx!Accept
<1> QED BY <1>7, Zenon

\* The host takes the first character on the way to it.
LEMMA TakeDelivers ==
  ASSUME UartInv, HostTake
  PROVE  \E n \in 1 .. Len(txfifo \o InRing(tx_buf, tx_in, tx_out)) : Tx!Deliver(n)
<1>1. PICK ring : ring = InRing(tx_buf, tx_in, tx_out)
  OBVIOUS
<1>2. txfifo \in Seq(0 .. Chars - 1) /\ ring \in Seq(0 .. Chars - 1)
  BY <1>1, TxParts, Zenon
<1>3. txfifo # <<>> /\ got' = <<Head(txfifo)>> /\ txfifo' = Tail(txfifo) /\ put' = put
  BY DEF HostTake
<1>4. InRing(tx_buf', tx_in', tx_out') = ring
  BY <1>1 DEF HostTake
<1>5. Len(txfifo) \in Nat /\ Len(txfifo) # 0
  BY <1>2, <1>3, EmptySeq, LenProperties
<1>6. 1 \in 1 .. Len(txfifo)
  BY <1>5
<1>7. /\ SubSeq(txfifo, 1, 1) = SubSeq(txfifo \o ring, 1, 1)
      /\ SubSeq(txfifo, 1 + 1, Len(txfifo)) \o ring
           = SubSeq(txfifo \o ring, 1 + 1, Len(txfifo \o ring))
      /\ 1 \in 1 .. Len(txfifo \o ring)
  BY <1>2, <1>6, TakeFirst, Zenon
<1>8. got' = SubSeq(txfifo, 1, 1)
  <2>1. SubSeq(txfifo, 1, 1) = <<txfifo[1]>>
    <3>1. txfifo[1] \in 0 .. Chars - 1
      BY <1>2, <1>6, ElementOfSeq, Zenon
    <3>2. \A i \in 1 .. 1 : txfifo[i] \in 0 .. Chars - 1
      BY <3>1
    <3>3. /\ SubSeq(txfifo, 1, 1) \in Seq(0 .. Chars - 1)
          /\ Len(SubSeq(txfifo, 1, 1)) = 1 /\ SubSeq(txfifo, 1, 1)[1] = txfifo[1]
      BY <3>2, SubSeqProperties
    <3>4. PICK s, c : s = SubSeq(txfifo, 1, 1) /\ c = txfifo[1]
      OBVIOUS
    <3>5. s \in Seq(0 .. Chars - 1) /\ Len(s) = 1 /\ s[1] = c
      BY <3>3, <3>4, Zenon
    <3>6. s = <<c>>
      BY <3>5
    <3> QED BY <3>4, <3>6, Zenon
  <2>2. Head(txfifo) = txfifo[1]
    BY <1>2, <1>3, HeadTailProperties
  <2> QED BY <1>3, <2>1, <2>2, Zenon
<1>9. txfifo' = SubSeq(txfifo, 1 + 1, Len(txfifo))
  <2>1. 1 + 1 = 2
    OBVIOUS
  <2>2. Tail(txfifo) = SubSeq(txfifo, 2, Len(txfifo))
    BY <1>2, <1>3, TailIsSubSeq, Zenon
  <2> QED BY <1>3, <2>1, <2>2, Zenon
<1>10. /\ got' = SubSeq(txfifo \o ring, 1, 1)
       /\ txfifo' \o InRing(tx_buf', tx_in', tx_out')
            = SubSeq(txfifo \o ring, 1 + 1, Len(txfifo \o ring))
  BY <1>4, <1>7, <1>8, <1>9, Zenon
<1>11. Tx!Deliver(1)
  BY <1>1, <1>3, <1>10, Zenon DEF Tx!Deliver
<1> QED BY <1>1, <1>7, <1>11, Zenon

LEMMA TxStep == UartInv /\ [Next]_vars => [Tx!Next]_(Tx!vars)
<1> SUFFICES ASSUME UartInv, [Next]_vars
             PROVE  Tx!Next \/ UNCHANGED Tx!vars
  BY Zenon
<1>1. CASE WriteCopy
  BY <1>1, WriteAccepts, Zenon DEF Tx!Next
<1>2. CASE HostTake
  BY <1>2, TakeDelivers, Zenon DEF Tx!Next
<1>3. CASE IsrTransmit
  <2>1. put' = put /\ got' = got
    BY <1>3 DEF IsrTransmit
  <2>2. txfifo' \o InRing(tx_buf', tx_in', tx_out') = txfifo \o InRing(tx_buf, tx_in, tx_out)
    <3>1. tx_buf' = tx_buf /\ tx_in' = tx_in
      BY <1>3 DEF IsrTransmit
    <3> QED BY <1>3, <3>1, IsrTransmitIs, Zenon
  <2> QED BY <2>1, <2>2, Zenon DEF Tx!vars
<1>4. CASE UNCHANGED txVars
  <2>1. /\ put' = put /\ got' = got /\ txfifo' = txfifo
        /\ tx_buf' = tx_buf /\ tx_in' = tx_in /\ tx_out' = tx_out
    BY <1>4 DEF txVars
  <2> QED BY <2>1, Zenon DEF Tx!vars
<1>5. WriteCopy \/ HostTake \/ IsrTransmit \/ UNCHANGED txVars
  <2>1. Calls => UNCHANGED txVars
    BY DEF Calls, Write, Read, Close, SetTimeout, Call
  <2>2. Program => WriteCopy \/ UNCHANGED txVars
    BY DEF Program, WriteLook, WriteKick, WriteWait, WriteTest, ReadLook, ReadCopy, ReadWait,
           ReadTest, ReadEnable, CloseEnd, txVars
  <2>3. Isr => IsrTransmit \/ UNCHANGED txVars
    BY DEF Isr, IsrControl, IsrReceive, IsrReceiveFull, IsrTransmitEnd
  <2>4. Alarm \/ AlarmClear \/ HostSend \/ HostPoll \/ UNCHANGED vars => UNCHANGED txVars
    BY DEF Alarm, AlarmClear, HostSend, HostPoll, vars
  <2> QED BY <2>1, <2>2, <2>3, <2>4 DEF Next
<1> QED BY <1>1, <1>2, <1>3, <1>4, <1>5

\* What write accepts reaches the host in order and once each, for rings and FIFOs of every
\* size: the driver's way out implements a byte stream.
THEOREM OutputIsKept == Spec => OutputKept
<1>1. Init => Tx!Init
  <2> SUFFICES ASSUME Init PROVE Tx!Init
    OBVIOUS
  <2>1. tx_in = 0 /\ tx_out = 0 /\ txfifo = <<>> /\ put = 0 /\ got = <<>>
    BY DEF Init
  <2>2. InRing(tx_buf, tx_in, tx_out) = <<>>
    <3>1. (tx_in - tx_out) % BufLen = 0 /\ 1 .. 0 = {}
      BY <2>1, UartAssumption
    <3> QED BY <3>1 DEF InRing
  <2> QED BY <2>1, <2>2 DEF Tx!Init
<1>2. UartInv /\ [Next]_vars => [Tx!Next]_(Tx!vars)
  BY TxStep
<1> QED BY <1>1, <1>2, InvHolds, PTL DEF Spec, OutputKept, Tx!Spec

\* What is on the way to the program: the ring, and the FIFO behind it.
LEMMA RxParts ==
  ASSUME UartInv
  PROVE  /\ rxfifo \in Seq(0 .. Chars - 1)
         /\ InRing(rx_buf, rx_in, rx_out) \in Seq(0 .. Chars - 1)
         /\ Len(InRing(rx_buf, rx_in, rx_out)) = Occ(rx_in, rx_out)
<1>1. /\ rx_in \in 0 .. BufLen - 1 /\ rx_out \in 0 .. BufLen - 1
      /\ rx_buf \in [0 .. BufLen - 1 -> 0 .. Chars - 1] /\ rxfifo \in Seq(0 .. Chars - 1)
  BY DEF UartInv, RxTypes
<1> QED BY <1>1, RingIsSeq, Zenon

\* The host's next character is accepted.
LEMMA SendAccepts ==
  ASSUME UartInv, HostSend
  PROVE  \E n \in 1 .. Chars : Rx!Accept(n)
<1>1. /\ rxfifo' = Append(rxfifo, sent) /\ sent' = (sent + 1) % Chars
      /\ rx_buf' = rx_buf /\ rx_in' = rx_in /\ rx_out' = rx_out /\ read' = read
  BY DEF HostSend
<1>2. sent \in 0 .. Chars - 1 /\ 1 \in 1 .. Chars
  BY UartAssumption DEF UartInv, RxTypes
<1>3. Rx!Run(sent, 1) = <<sent>>
  <2>1. \A i \in 1 .. 1 : (sent + (i - 1)) % Chars = sent
    BY <1>2, UartAssumption
  <2>2. Rx!Run(sent, 1) = [i \in 1 .. 1 |-> sent]
    BY <2>1, Zenon DEF Rx!Run, Rx!After
  <2> QED BY <2>2
<1>4. PICK ring, one : ring = InRing(rx_buf, rx_in, rx_out) /\ one = <<sent>>
  OBVIOUS
<1>5. rxfifo \in Seq(0 .. Chars - 1) /\ ring \in Seq(0 .. Chars - 1) /\ one \in Seq(0 .. Chars - 1)
  <2>1. <<sent>> \in Seq(0 .. Chars - 1)
    BY <1>2
  <2> QED BY <1>4, <2>1, RxParts, Zenon
<1>6. Append(rxfifo, sent) = rxfifo \o one
  BY <1>2, <1>4, <1>5, AppendIsConcat, Zenon
<1>7. (ring \o rxfifo) \o one = ring \o (rxfifo \o one)
  BY <1>5, ConcatAssociative, SMTT(30)
<1>8. InRing(rx_buf', rx_in', rx_out') \o rxfifo' = (ring \o rxfifo) \o Rx!Run(sent, 1)
  BY <1>1, <1>3, <1>4, <1>6, <1>7, Zenon
<1>9. Rx!Accept(1)
  BY <1>1, <1>4, <1>8, Zenon DEF Rx!Accept, Rx!After
<1> QED BY <1>2, <1>9, Zenon

\* A copy by read delivers the first characters on the way.
LEMMA ReadDelivers ==
  ASSUME UartInv, ReadCopy
  PROVE  \E n \in 1 .. Len(InRing(rx_buf, rx_in, rx_out) \o rxfifo) : Rx!Deliver(n)
<1>1. PICK ring : ring = InRing(rx_buf, rx_in, rx_out)
  OBVIOUS
<1>2. /\ rxfifo \in Seq(0 .. Chars - 1) /\ ring \in Seq(0 .. Chars - 1)
      /\ Len(ring) = Occ(rx_in, rx_out)
  BY <1>1, RxParts, Zenon
<1>3. PICK n \in 1 .. Len(ring) :
        /\ read' = SubSeq(ring, 1, n)
        /\ InRing(rx_buf, rx_in, rx_out') = SubSeq(ring, n + 1, Len(ring))
  BY <1>1, <1>2, ReadCopyIs, Zenon
<1>4. rx_buf' = rx_buf /\ rx_in' = rx_in /\ rxfifo' = rxfifo /\ sent' = sent
  BY DEF ReadCopy
<1>5. /\ SubSeq(ring, 1, n) = SubSeq(ring \o rxfifo, 1, n)
      /\ SubSeq(ring, n + 1, Len(ring)) \o rxfifo
           = SubSeq(ring \o rxfifo, n + 1, Len(ring \o rxfifo))
      /\ n \in 1 .. Len(ring \o rxfifo)
  BY <1>2, TakeFirst, Zenon
<1>6. /\ read' = SubSeq(ring \o rxfifo, 1, n)
      /\ InRing(rx_buf', rx_in', rx_out') \o rxfifo'
           = SubSeq(ring \o rxfifo, n + 1, Len(ring \o rxfifo))
  BY <1>3, <1>4, <1>5, Zenon
<1>7. Rx!Deliver(n)
  BY <1>1, <1>4, <1>6, Zenon DEF Rx!Deliver
<1> QED BY <1>1, <1>5, <1>7, Zenon

LEMMA RxStep == UartInv /\ [Next]_vars => [Rx!Next]_(Rx!vars)
<1> SUFFICES ASSUME UartInv, [Next]_vars
             PROVE  Rx!Next \/ UNCHANGED Rx!vars
  BY Zenon
<1>1. CASE ReadCopy
  BY <1>1, ReadDelivers, Zenon DEF Rx!Next
<1>2. CASE HostSend
  BY <1>2, SendAccepts, Zenon DEF Rx!Next
<1>3. CASE UNCHANGED rxVars
  <2>1. /\ sent' = sent /\ read' = read /\ rxfifo' = rxfifo
        /\ rx_buf' = rx_buf /\ rx_in' = rx_in /\ rx_out' = rx_out
    BY <1>3 DEF rxVars
  <2> QED BY <2>1, Zenon DEF Rx!vars
<1>4. CASE IsrReceive /\ rxfifo # <<>>
  <2>1. sent' = sent /\ read' = read /\ rx_out' = rx_out
    BY <1>4 DEF IsrReceive
  <2>2. InRing(rx_buf', rx_in', rx_out') \o rxfifo' = InRing(rx_buf, rx_in, rx_out) \o rxfifo
    BY <1>4, <2>1, IsrReceiveIs, Zenon
  <2> QED BY <2>1, <2>2, Zenon DEF Rx!vars
<1>5. CASE IsrReceive /\ rxfifo = <<>>
  BY <1>3, <1>5 DEF IsrReceive, rxVars
<1>6. ReadCopy \/ HostSend \/ IsrReceive \/ UNCHANGED rxVars
  <2>1. Calls => UNCHANGED rxVars
    BY DEF Calls, Write, Read, Close, SetTimeout, Call
  <2>2. Program => ReadCopy \/ UNCHANGED rxVars
    BY DEF Program, WriteLook, WriteCopy, WriteKick, WriteWait, WriteTest, ReadLook, ReadWait,
           ReadTest, ReadEnable, CloseEnd
  <2>3. Isr => IsrReceive \/ UNCHANGED rxVars
    BY DEF Isr, IsrControl, IsrReceiveFull, IsrTransmit, IsrTransmitEnd
  <2>4. Alarm \/ AlarmClear \/ HostTake \/ HostPoll \/ UNCHANGED vars => UNCHANGED rxVars
    BY DEF Alarm, AlarmClear, HostTake, HostPoll, vars
  <2> QED BY <2>1, <2>2, <2>3, <2>4 DEF Next
<1> QED BY <1>1, <1>2, <1>3, <1>4, <1>5, <1>6

\* What the host sends reaches read in order and once each, also when the ring is full: so
\* is the driver's way in.
THEOREM InputIsKept == Spec => InputKept
<1>1. Init => Rx!Init
  <2> SUFFICES ASSUME Init PROVE Rx!Init
    OBVIOUS
  <2>1. rx_in = 0 /\ rx_out = 0 /\ rxfifo = <<>> /\ sent = 0 /\ read = <<>>
    BY DEF Init
  <2>2. InRing(rx_buf, rx_in, rx_out) = <<>>
    <3>1. (rx_in - rx_out) % BufLen = 0 /\ 1 .. 0 = {}
      BY <2>1, UartAssumption
    <3> QED BY <3>1 DEF InRing
  <2> QED BY <2>1, <2>2 DEF Rx!Init
<1>2. UartInv /\ [Next]_vars => [Rx!Next]_(Rx!vars)
  BY RxStep
<1> QED BY <1>1, <1>2, InvHolds, PTL DEF Spec, InputKept, Rx!Spec
=============================================================================
