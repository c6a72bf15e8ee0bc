-------------------------------- MODULE Game ---------------------------------
(***************************************************************************)
(* The game as lab62.sv wires it: bar and ball clocked by VGA_VS, the      *)
(* start screen's latch (Color_Mapper.sv) clocked by the 50 MHz clock, and *)
(* Reset_actual, which is KEY[0] or "no lives left".                       *)
(*                                                                         *)
(* A frame tick is one action: both clocked blocks sample the old values.  *)
(* Every reset also restarts the video timing: vs drops at once and rises  *)
(* again with the next pixel clock, which is one more frame tick before    *)
(* anything outside can change.  "restart" holds until that tick.          *)
(***************************************************************************)
EXTENDS Bar, Ball

\* Ball and bar start in the same column.
ASSUME GameAssumption == Ball_X_Start = Bar_X_Begin

VARIABLES start_menu,           \* the latch: the start screen is up
          start_menu_1,         \* its delayed copy, which bar and ball read
          restart               \* a reset has just restarted the video timing

menuVars == <<start_menu, start_menu_1>>
vars == <<barVars, ballVars, menuVars, restart>>

\* The state a press of KEY[0] on the start screen leaves.  (After power-up BarX
\* holds an arbitrary word until the first tick, which no one reads.)
Init ==
  /\ BarInit /\ BallInit
  /\ start_menu = TRUE /\ start_menu_1 = TRUE
  /\ restart = TRUE
------------------------------------------------------------------------------
Frame(keycode) ==
  /\ ~LastLife
  /\ BarTick(FALSE, start_menu_1, Bar_Reset, keycode)
  /\ BallTick(BarX, keycode, start_menu_1)
  /\ restart' = FALSE
  /\ UNCHANGED menuVars

\* The tick that takes the last life: lives is 0, lives_zero raises Reset_actual,
\* and the blocks with an asynchronous reset clear themselves, and with lives the
\* pulse.  It is over before any clock edge, so the latch never samples it.
GameOver(keycode) ==
  /\ LastLife
  /\ BarTick(FALSE, start_menu_1, Bar_Reset, keycode)
  /\ BallBegin
  /\ restart' = TRUE
  /\ UNCHANGED menuVars

\* KEY[0], held for many clock cycles.  vs stays low meanwhile, so the bar, which
\* tests Reset only at a frame tick, never sees it.
KeyReset ==
  /\ BallBegin
  /\ start_menu' = TRUE /\ start_menu_1' = TRUE
  /\ restart' = TRUE
  /\ UNCHANGED barVars

\* An edge of the 50 MHz clock: a key that does not play leaves the start screen.
MenuClock(keycode) ==
  /\ ~restart
  /\ start_menu' = (start_menu /\ keycode # "other")
  /\ start_menu_1' = start_menu
  /\ UNCHANGED <<barVars, ballVars, restart>>

Next ==
  \/ \E keycode \in Keycode : Frame(keycode) \/ GameOver(keycode) \/ MenuClock(keycode)
  \/ KeyReset

Spec == Init /\ [][Next]_vars
------------------------------------------------------------------------------
\* The registers of the composed design; lives is never seen at 0.
TypeOK ==
  /\ BallX \in Word /\ BallY \in Word
  /\ Ball_X_Motion \in {0, Ball_X_Step, Neg(Ball_X_Step)}
  /\ Ball_Y_Motion \in {0, Ball_Y_Step, Neg(Ball_Y_Step)}
  /\ Ball_Reset \in BOOLEAN /\ Bar_Reset \in BOOLEAN /\ moved \in BOOLEAN
  /\ Blocks \subseteq Block
  /\ lives \in 1 .. MaxLives
  /\ curr_score \in 0 .. NumBlocks
  /\ BarTypeOK /\ BarX \in Word
  /\ start_menu \in BOOLEAN /\ start_menu_1 \in BOOLEAN /\ restart \in BOOLEAN

\* README line 19: nothing of the unstarted game changes while the start screen
\* is up, whatever keys are pressed.
UnstartedStill ==
  start_menu_1 /\ ~restart =>
    /\ Ball_Reset /\ BallX = Ball_X_Start /\ BallY = Ball_Y_Start
    /\ BarX = Bar_X_Begin /\ Blocks = Block
    /\ lives = MaxLives /\ curr_score = 0

\* The game keeps to the rules its README promises, the score's apart: a game that
\* is not started only starts, blocks fall and lives go only in flight, one life at
\* a time, and the last one starts over with the whole wall.
Rules == INSTANCE GameRules WITH
           phase <- IF start_menu_1 THEN "menu" ELSE IF Ball_Reset THEN "parked" ELSE "flight",
           wall <- Blocks
KeepsTheRules == Rules!Spec
==============================================================================
