------------------------------- MODULE Signals -------------------------------
(***************************************************************************)
(* What the ports of the game's modules carry: the 10-bit unsigned words   *)
(* ("logic [9:0]") that hold every coordinate and every motion, and the    *)
(* keycode of the key that is down.                                        *)
(***************************************************************************)
EXTENDS Integers

CONSTANT Bar_Sizex              \* half the bar's width (30): the bar's output, the ball's input

W == 1024                       \* a 10-bit word wraps here
Word == 0 .. W - 1

\* Sums and differences of words keep 10 bits; -Step is Neg(Step).
Add(a, b) == IF a + b < W THEN a + b ELSE a + b - W
Sub(a, b) == IF b <= a THEN a - b ELSE a + W - b
Neg(a) == Sub(0, a)

\* The keycodes the game tells apart: 00, 04 (A), 07 (D), 2c (space) and the rest.
Keycode == {"none", "A", "D", "space", "other"}
==============================================================================
