--------------------------------- MODULE Bar ---------------------------------
(***************************************************************************)
(* The bar (bar.sv).  One action per branch of its clocked block; a tick   *)
(* of frame_clk takes the branch its inputs select.  The edge tests of     *)
(* lines 43-47 are left out: the case statement that follows assigns       *)
(* Bar_X_Motion on every path, and the last nonblocking assignment wins.   *)
(***************************************************************************)
EXTENDS Signals

CONSTANTS Bar_X_Begin,          \* where the bar starts (320)
          Bar_X_Min,            \* leftmost pixel of the bar (10)
          Bar_X_Max,            \* rightmost pixel of the bar (639)
          Bar_X_Step            \* pixels per frame (2)

\* The bar starts inside its track, and neither end of the track is within a
\* step of the place where a 10-bit word wraps.
ASSUME BarAssumption ==
  /\ Bar_X_Begin \in Word /\ Bar_X_Min \in Word /\ Bar_X_Max \in Word
  /\ Bar_X_Step \in Word /\ Bar_Sizex \in Word
  /\ Bar_X_Min + Bar_Sizex <= Bar_X_Begin
  /\ Bar_X_Begin + Bar_Sizex <= Bar_X_Max
  /\ Bar_X_Step <= Bar_X_Min
  /\ Bar_X_Max + Bar_X_Step < W

VARIABLES BarX,                 \* Bar_X_Pos: the bar's centre
          Bar_X_Motion          \* what the next tick with a key adds to it

barVars == <<BarX, Bar_X_Motion>>

BarInit == BarX = Bar_X_Begin /\ Bar_X_Motion = 0
------------------------------------------------------------------------------
\* Reset or the start screen: back to the middle, at rest.
BarBegin ==
  /\ BarX' = Bar_X_Begin
  /\ Bar_X_Motion' = 0

\* The ball module asks for a new start: the motion is kept.
BarRecentre ==
  /\ BarX' = Bar_X_Begin
  /\ UNCHANGED Bar_X_Motion

\* No key: stop, without taking the step that was pending.
BarIdle ==
  /\ Bar_X_Motion' = 0
  /\ UNCHANGED BarX

\* Ahead is where the pending step leads.
Ahead == Add(BarX, Bar_X_Motion)
FitsNow == Add(BarX, Bar_Sizex) <= Bar_X_Max /\ Sub(BarX, Bar_Sizex) >= Bar_X_Min  \* mutant
Fits == Add(Ahead, Bar_Sizex) <= Bar_X_Max /\ Sub(Ahead, Bar_Sizex) >= Bar_X_Min

\* A key: the motion follows the key, the position the motion of the last tick.
BarMove(keycode) ==
  /\ \/ keycode = "A" /\ Bar_X_Motion' = Neg(Bar_X_Step)
     \/ keycode = "D" /\ Bar_X_Motion' = Bar_X_Step
     \/ keycode \notin {"A", "D"} /\ Bar_X_Motion' = 0
  /\ BarX' = IF Fits THEN Ahead ELSE BarX

BarTick(Reset, start_menu, Bar_Reset, keycode) ==
  \/ (Reset \/ start_menu) /\ BarBegin
  \/ ~(Reset \/ start_menu) /\ Bar_Reset /\ BarRecentre
  \/ ~(Reset \/ start_menu \/ Bar_Reset) /\ keycode = "none" /\ BarIdle
  \/ ~(Reset \/ start_menu \/ Bar_Reset) /\ keycode # "none" /\ BarMove(keycode)

\* The bar alone, under every sequence of inputs.
BarNext ==
  \E Reset, start_menu, Bar_Reset \in BOOLEAN, keycode \in Keycode :
    BarTick(Reset, start_menu, Bar_Reset, keycode)

BarSpec == BarInit /\ [][BarNext]_barVars
------------------------------------------------------------------------------
\* The bar is always whole on its track: at every tick its two ends are
\* between Bar_X_Min and Bar_X_Max, although the test of bar.sv line 69 is
\* made on words that wrap and on the motion of the previous tick.
BarOnTrack == /\ BarX - Bar_Sizex >= Bar_X_Min
              /\ BarX + Bar_Sizex <= Bar_X_Max

\* The bar's registers: its motion is a step to one side or none.
BarTypeOK == /\ BarX \in Word
             /\ Bar_X_Motion \in {0, Bar_X_Step, Neg(Bar_X_Step)}
==============================================================================
