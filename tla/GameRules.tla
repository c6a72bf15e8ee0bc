------------------------------ MODULE GameRules ------------------------------
(***************************************************************************)
(* What the game promises its player (README.md lines 18-23), with no ball *)
(* and no geometry: the wall of blocks, the lives and the three phases of  *)
(* play.  Game implements it.  The rule of line 23 for the score, a point  *)
(* for every block, is not among these rules: the game breaks it, and      *)
(* PointPerBlock (module Ball) states it alone.                            *)
(***************************************************************************)
EXTENDS Integers, FiniteSets

CONSTANTS NumBlocks, MaxLives     \* those of Game

Wall == 0 .. NumBlocks - 1

VARIABLES phase,                \* "menu", "parked" or "flight"
          wall,                 \* the blocks that stand
          lives

rulesVars == <<phase, wall, lives>>

Init == phase = "menu" /\ wall = Wall /\ lives = MaxLives

StartAnew(p) == phase' = p /\ wall' = Wall /\ lives' = MaxLives
------------------------------------------------------------------------------
LeaveMenu ==
  /\ phase = "menu" /\ phase' = "parked"
  /\ UNCHANGED <<wall, lives>>

LaunchBall ==
  /\ phase = "parked" /\ phase' = "flight"
  /\ UNCHANGED <<wall, lives>>

\* Blocks are destroyed by a ball in flight only, and none comes back.
BreakSome ==
  /\ phase = "flight"
  /\ \E S \in (SUBSET wall) \ {{}} : wall' = wall \ S
  /\ UNCHANGED <<phase, lives>>

LoseBall ==
  /\ phase = "flight" /\ lives > 1
  /\ phase' = "parked" /\ lives' = lives - 1
  /\ UNCHANGED wall

\* With the last life the game starts over, without its start screen.
StartOver == phase = "flight" /\ lives = 1 /\ StartAnew("parked")

PressReset == StartAnew("menu")

Next == \/ LeaveMenu \/ LaunchBall \/ BreakSome
        \/ LoseBall \/ StartOver \/ PressReset

Spec == Init /\ [][Next]_rulesVars
==============================================================================
