------------------------------ MODULE BallAlone ------------------------------
(***************************************************************************)
(* The ball without the rest of the game, over a bar that stays for the    *)
(* whole behaviour at one place of its track, or that roams: then it can   *)
(* be at any of a few places at every tick.                                *)
(***************************************************************************)
EXTENDS Ball

CONSTANTS Stride,               \* distance of the places where the bar may stay
          BarPlaces             \* the places of a bar that roams

StillPlaces == {b \in 40 .. 608 : b % Stride = 0}

Roams == 0                      \* no place of the track

VARIABLE StillX                 \* where the bar stays, or Roams; rigid

Places == IF StillX = Roams THEN BarPlaces ELSE {StillX}

AloneInit == BallInit /\ StillX \in StillPlaces \cup {Roams}

AloneNext == BallNext(Places) /\ UNCHANGED StillX

AloneSpec == AloneInit /\ [][AloneNext]_<<ballVars, StillX>>

\* A ball that comes down on a bar that stays is never lost, also where the branch of
\* a side wall goes before the branch of the bar (ball.sv 97-129): only within
\* two steps of either end of the bar may it slip.
CoveredNeverLost ==
  StillX # Roams /\ ~Ball_Reset /\ AtBottom =>
    \/ BallX > StillX + Bar_Sizex - 2 * Ball_X_Step
    \/ BallX < StillX - Bar_Sizex + 2 * Ball_X_Step
==============================================================================
