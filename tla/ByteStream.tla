------------------------------ MODULE ByteStream ------------------------------
(***************************************************************************)
(* What one direction of the JTAG UART promises: characters come out in    *)
(* the order in which they went in, each once, none lost on the way.       *)
(* Characters are numbered round a circle, so that neighbours differ.      *)
(***************************************************************************)
EXTENDS Integers, Sequences

CONSTANT Chars          \* length of the circle

VARIABLES next,         \* the character that goes in next
          stream,       \* those on the way
          got           \* those that came out in the last delivery

vars == <<next, stream, got>>

After(c, n) == (c + n) % Chars
Run(c, n)   == [i \in 1 .. n |-> After(c, i - 1)]

Init == next = 0 /\ stream = <<>> /\ got = <<>>

Accept(n) ==
  /\ stream' = stream \o Run(next, n)
  /\ next' = After(next, n)
  /\ UNCHANGED got

Deliver(n) ==
  /\ got' = SubSeq(stream, 1, n)
  /\ stream' = SubSeq(stream, n + 1, Len(stream))
  /\ UNCHANGED next

Next == \/ \E n \in 1 .. Chars : Accept(n)
        \/ \E n \in 1 .. Len(stream) : Deliver(n)

Spec == Init /\ [][Next]_vars
===============================================================================
