-------------------------------- MODULE Ball ---------------------------------
(***************************************************************************)
(* The ball and everything its clocked block owns (ball.sv): the blocks    *)
(* that still stand, the lives and the score.                              *)
(*                                                                         *)
(* The source is one always_ff with three parts: an else-if chain, a loop  *)
(* over the blocks and a final "if (~moved)".  All assignments are         *)
(* nonblocking: right sides and conditions read the old values, and the    *)
(* last assignment to a register wins.  Here the chain is a disjunction of *)
(* actions, one per branch, and the two later parts are the overrides      *)
(* Steer, Place and BreakBlocks that every branch goes through.            *)
(***************************************************************************)
EXTENDS Signals, FiniteSets

CONSTANTS Ball_X_Start, Ball_Y_Start,                         \* 320, 452
          Ball_X_Min, Ball_X_Max, Ball_Y_Min, Ball_Y_Max,     \* 4, 635, 4, 475
          Ball_X_Step, Ball_Y_Step,                           \* 2, 3
          Ball_Size,                                          \* 4
          Limit,                      \* beyond it a coordinate has wrapped (700)
          BarY, Bar_Sizey,                                    \* 460, 3
          NumBlocks,                                          \* 32
          BlocksPerRow, PitchX, PitchY,                       \* 8, 80, 20
          Block_SizeX, Block_SizeY,                           \* 39, 10
          MaxLives                                            \* 3

Block == 0 .. NumBlocks - 1

\* Centre of block i, laid out in rows from the top of the screen.
BlockX(i) == (i % BlocksPerRow) * PitchX + PitchX \div 2
BlockY(i) == (i \div BlocksPerRow) * PitchY + PitchY \div 2

\* The registers' widths, and the layout the level relies on: every block is on
\* the screen and ends above the place where the ball is parked, which is above
\* the line where it is lost.
ASSUME BallAssumption ==
  /\ Ball_X_Start \in Word /\ Ball_Y_Start \in Word
  /\ Ball_X_Min \in Word /\ Ball_X_Max \in Word
  /\ Ball_Y_Min \in Word /\ Ball_Y_Max \in Word
  /\ Ball_X_Step \in Word /\ Ball_Y_Step \in Word
  /\ Ball_Size \in Word /\ Block_SizeX \in Word /\ Block_SizeY \in Word
  /\ NumBlocks \in Nat /\ NumBlocks < W * 64 /\ MaxLives \in 1 .. 3
  /\ Ball_Y_Start + Ball_Size < Ball_Y_Max
  /\ Ball_Y_Step <= Block_SizeY

ASSUME LayoutAssumption ==
  \A i \in Block : /\ BlockX(i) \in Word /\ BlockY(i) \in Word
                   /\ Block_SizeY <= BlockY(i)
                   /\ BlockY(i) + Block_SizeY < Ball_Y_Start

\* Blocks of one row are apart; those of neighbouring rows may share an edge.
ASSUME SpacingAssumption ==
  /\ Block_SizeY > 0 /\ Ball_X_Step <= Block_SizeX
  /\ \A i \in Block : Block_SizeX <= BlockX(i) /\ BlockX(i) + Block_SizeX < W
  /\ \A i, j \in Block :
       \/ BlockX(j) - BlockX(i) > 2 * Block_SizeX
       \/ BlockX(i) - BlockX(j) > 2 * Block_SizeX
       \/ BlockY(j) - BlockY(i) >= 2 * Block_SizeY
       \/ BlockY(i) - BlockY(j) >= 2 * Block_SizeY
       \/ i = j

VARIABLES BallX, BallY,               \* Ball_X_Pos, Ball_Y_Pos: the centre
          Ball_X_Motion, Ball_Y_Motion,
          Ball_Reset,                 \* the ball is parked on the bar
          Bar_Reset,                  \* tells the bar to recentre
          Blocks,                     \* the blocks that still stand
          moved,                      \* the last tick moved or placed the ball
          lives, curr_score

ballVars == <<BallX, BallY, Ball_X_Motion, Ball_Y_Motion, Ball_Reset,
              Bar_Reset, Blocks, moved, lives, curr_score>>

BallInit ==
  /\ BallX = Ball_X_Start /\ BallY = Ball_Y_Start
  /\ Ball_X_Motion = 0 /\ Ball_Y_Motion = 0
  /\ Ball_Reset = TRUE /\ Bar_Reset = TRUE
  /\ Blocks = Block
  /\ moved = FALSE
  /\ lives = MaxLives /\ curr_score = 0

BallBeginKeepBlocks ==                           \* mutant: the wall is not rebuilt
  /\ BallX' = Ball_X_Start /\ BallY' = Ball_Y_Start
  /\ Ball_X_Motion' = 0 /\ Ball_Y_Motion' = 0
  /\ Ball_Reset' = TRUE /\ Bar_Reset' = TRUE
  /\ moved' = FALSE
  /\ lives' = MaxLives /\ curr_score' = 0
  /\ UNCHANGED Blocks

\* The asynchronous reset.
BallBegin ==
  /\ BallX' = Ball_X_Start /\ BallY' = Ball_Y_Start
  /\ Ball_X_Motion' = 0 /\ Ball_Y_Motion' = 0
  /\ Ball_Reset' = TRUE /\ Bar_Reset' = TRUE
  /\ Blocks' = Block
  /\ moved' = FALSE
  /\ lives' = MaxLives /\ curr_score' = 0
------------------------------------------------------------------------------
(* The conditions of the else-if chain. *)

AtTopUnwrapped == Sub(BallY, Ball_Size) <= Ball_Y_Min              \* mutant
AtBottomAtBar == Add(BallY, Ball_Size) >= BarY                     \* mutant
AtRightFar == BallX >= Ball_X_Max + 2 * Ball_Size                  \* mutant

AtBottom == Add(BallY, Ball_Size) >= Ball_Y_Max
AtLeft   == Sub(BallX, Ball_Size) <= Ball_X_Min \/ BallX > Limit
AtTop    == Sub(BallY, Ball_Size) <= Ball_Y_Min \/ BallY > Limit
AtRight  == Add(BallX, Ball_Size) >= Ball_X_Max
OnBar(BarX) == /\ BallX <= Add(BarX, Bar_Sizex)
               /\ BallX >= Sub(BarX, Bar_Sizex)
               /\ Add(BallY, Ball_Size) >= Sub(BarY, Bar_Sizey)
------------------------------------------------------------------------------
(* The loop over the blocks.  A block is hit on the first face, in the     *)
(* order bottom, top, left, right, whose strip holds the ball's centre.    *)

WithinX(i) == /\ BallX <= Add(BlockX(i), Block_SizeX)
              /\ BallX >= Sub(BlockX(i), Block_SizeX)
WithinY(i) == /\ BallY <= Add(BlockY(i), Block_SizeY)
              /\ BallY >= Sub(BlockY(i), Block_SizeY)

BottomStrip(i) ==
  /\ WithinX(i) /\ BallY <= Add(BlockY(i), Block_SizeY)
  /\ BallY >= Sub(Add(BlockY(i), Block_SizeY), Ball_Y_Step)
TopStrip(i) ==
  /\ WithinX(i) /\ BallY >= Sub(BlockY(i), Block_SizeY)
  /\ BallY <= Add(Sub(BlockY(i), Block_SizeY), Ball_Y_Step)
LeftStrip(i) ==
  /\ WithinY(i) /\ BallX >= Sub(BlockX(i), Block_SizeX)
  /\ BallX <= Add(Sub(BlockX(i), Block_SizeX), Ball_X_Step)
RightStrip(i) ==
  /\ WithinY(i) /\ BallX <= Add(BlockX(i), Block_SizeX)
  /\ BallX >= Sub(Add(BlockX(i), Block_SizeX), Ball_X_Step)

HitY(i) == BottomStrip(i) \/ TopStrip(i)
HitX(i) == ~HitY(i) /\ (LeftStrip(i) \/ RightStrip(i))

YHits == {i \in Blocks : HitY(i)}
XHits == {i \in Blocks : HitX(i)}
Hits == YHits \cup XHits

\* The nonblocking assignment that wins is that of the highest index.
Last(S) == CHOOSE i \in S : \A j \in S : j <= i

\* The ball is carried along its motion whatever the chain said of its place.
Carried == Hits # {} \/ ~moved

Place(x, y) ==
  /\ BallX' = IF Carried THEN Add(BallX, Ball_X_Motion) ELSE x
  /\ BallY' = IF Carried THEN Add(BallY, Ball_Y_Motion) ELSE y

Steer(xMotion, yMotion) ==
  /\ Ball_X_Motion' = IF XHits = {} THEN xMotion
                      ELSE IF LeftStrip(Last(XHits)) THEN Neg(Ball_X_Step)
                      ELSE Ball_X_Step
  /\ Ball_Y_Motion' = IF ~moved THEN Ball_Y_Motion
                      ELSE IF YHits = {} THEN yMotion
                      ELSE IF BottomStrip(Last(YHits)) THEN Ball_Y_Step
                      ELSE Neg(Ball_Y_Step)

BreakNone ==                                     \* mutant: the block stays
  /\ UNCHANGED Blocks
  /\ curr_score' = IF Hits = {} THEN curr_score ELSE (curr_score + 1) % (W * 64)

\* Every block that is hit falls; all their "score + 1" assign the same value.
BreakBlocks ==
  /\ Blocks' = Blocks \ Hits
  /\ curr_score' = IF Hits = {} THEN curr_score ELSE (curr_score + 1) % (W * 64)
------------------------------------------------------------------------------
(* The branches of the chain, in its order. *)

Follow == Place(Add(BallX, Ball_X_Motion), Add(BallY, Ball_Y_Motion))

InFlight == ~Ball_Reset /\ ~AtBottom

LoseLife(BarX) ==
  /\ ~Ball_Reset /\ AtBottom
  /\ Steer(0, 0) /\ Place(BarX, Ball_Y_Start) /\ BreakBlocks
  /\ Ball_Reset' = TRUE /\ Bar_Reset' = TRUE /\ moved' = TRUE
  /\ lives' = (lives + 3) % 4                    \* lives - 1 in two bits

BounceUnmarked(xMotion, yMotion) ==              \* mutant: moved is not set
  /\ Steer(xMotion, yMotion) /\ Follow /\ BreakBlocks
  /\ Bar_Reset' = FALSE /\ moved' = FALSE
  /\ UNCHANGED <<Ball_Reset, lives>>

Bounce(xMotion, yMotion) ==
  /\ Steer(xMotion, yMotion) /\ Follow /\ BreakBlocks
  /\ Bar_Reset' = FALSE /\ moved' = TRUE
  /\ UNCHANGED <<Ball_Reset, lives>>

LaunchAnytime(keycode, start_menu) ==            \* mutant: the start screen is ignored
  /\ Ball_Reset /\ keycode = "space"
  /\ Steer(Ball_X_Step, Neg(Ball_Y_Step)) /\ Follow /\ BreakBlocks
  /\ Ball_Reset' = FALSE /\ Bar_Reset' = FALSE /\ moved' = TRUE
  /\ UNCHANGED lives

Launch(keycode, start_menu) ==
  /\ Ball_Reset /\ keycode = "space" /\ ~start_menu
  /\ Steer(Ball_X_Step, Neg(Ball_Y_Step)) /\ Follow /\ BreakBlocks
  /\ Ball_Reset' = FALSE /\ Bar_Reset' = FALSE /\ moved' = TRUE
  /\ UNCHANGED lives

Park(BarX, keycode, start_menu) ==
  /\ Ball_Reset /\ ~(keycode = "space" /\ ~start_menu)
  /\ Steer(Ball_X_Motion, Ball_Y_Motion) /\ Place(BarX, Ball_Y_Start) /\ BreakBlocks
  /\ Bar_Reset' = FALSE /\ moved' = TRUE
  /\ UNCHANGED <<Ball_Reset, lives>>

BounceLeft == InFlight /\ AtLeft /\ Bounce(Ball_X_Step, Ball_Y_Motion)

BounceTop == InFlight /\ ~AtLeft /\ AtTop /\ Bounce(Ball_X_Motion, Ball_Y_Step)

BounceRight ==
  /\ InFlight /\ ~AtLeft /\ ~AtTop /\ AtRight
  /\ Bounce(Neg(Ball_X_Step), Ball_Y_Motion)

\* The two step sizes of the source are equal, so only the side of the bar counts.
BounceBar(BarX) ==
  /\ InFlight /\ ~AtLeft /\ ~AtTop /\ ~AtRight /\ OnBar(BarX)
  /\ Bounce(IF BallX >= BarX THEN Ball_X_Step ELSE Neg(Ball_X_Step),
            Neg(Ball_Y_Step))

\* No branch of the chain: the ball rests for this tick, or is carried.
Fly(BarX) ==
  /\ InFlight /\ ~AtLeft /\ ~AtTop /\ ~AtRight /\ ~OnBar(BarX)
  /\ Steer(Ball_X_Motion, Ball_Y_Motion) /\ Place(BallX, BallY) /\ BreakBlocks
  /\ Bar_Reset' = FALSE /\ moved' = Carried
  /\ UNCHANGED <<Ball_Reset, lives>>

\* With the last life gone lives_zero is up, and the reset takes the rest of the tick.
LastLife == ~Ball_Reset /\ AtBottom /\ lives = 1

BallTick(BarX, keycode, start_menu) ==
  \/ LoseLife(BarX)
  \/ Launch(keycode, start_menu)
  \/ Park(BarX, keycode, start_menu)
  \/ BounceLeft \/ BounceTop \/ BounceRight \/ BounceBar(BarX)
  \/ Fly(BarX)

\* The ball alone, with the start screen left and the bar at any of "places".
BallNext(places) ==
  \E BarX \in places, keycode \in {"none", "space"} :
    \/ ~LastLife /\ BallTick(BarX, keycode, FALSE)
    \/ LastLife /\ BallBegin
------------------------------------------------------------------------------
\* A ball in flight stays on the field: at most a few steps beyond the right
\* wall, and above the top wall only in the last words before the wrap, from
\* where it comes back (ball.sv 97-122: one branch per tick, so that a corner
\* bounces the ball off one wall only and lets it into the other).
BallInField ==
  /\ BallX > Ball_X_Min /\ BallX < Ball_X_Max + 2 * Ball_Size
  /\ BallY < Ball_Y_Max \/ BallY >= W - Ball_Size

\* A life is lost only by a ball that is really below the bar's upper edge, never
\* by one whose wrapped coordinate only compares as if it were (ball.sv 68, 106).
NoPhantomLoss == ~Ball_Reset /\ AtBottom => BallY >= BarY /\ BallY < Ball_Y_Max

\* A tick that finds moved clear ignores the new vertical motion and the new
\* place its branch computed (ball.sv 223-230).  That is harmless because such
\* a tick never meets a wall, the bottom or a block: the tick before it, at the
\* same place, would have.  (Only the bar can have come under the ball.)
BounceNeverOverwritten ==
  ~moved /\ ~Ball_Reset =>
    ~AtBottom /\ ~AtLeft /\ ~AtTop /\ ~AtRight /\ Hits = {}

\* The score tracks the wall: no point is given twice, so that it stays far below
\* the 2048 at which hex_converter.sv, which decodes the thousands digit from five
\* bits, would show a wrong one; and no point stands for more than two blocks,
\* the most a ball between two rows can touch in one tick (ball.sv 179-221).
ScoreTracksFallen ==
  LET fallen == NumBlocks - Cardinality(Blocks) IN
    /\ curr_score <= fallen
    /\ fallen <= 2 * curr_score

\* README line 23: the score "increases by 1 every time a block is destroyed".
\* Violated: every block hit in a tick assigns the same score + 1, so that two
\* blocks that fall in one tick give one point (ball.sv 179, 190, 203, 214).
PointPerBlock == curr_score + Cardinality(Blocks) = NumBlocks

\* The lost ball is parked at rest: the tick that takes the life is never one
\* whose placement is overridden (ball.sv 68-78 against 223-230).
LostBallRests ==
  [][~Ball_Reset /\ Ball_Reset' =>
       /\ BallY' = Ball_Y_Start
       /\ Ball_X_Motion' = 0 /\ Ball_Y_Motion' = 0]_ballVars

\* README line 21: the space bar launches the ball from the bar, upwards.
\* Violated: the frame tick right after a game over finds moved clear, so that a
\* space bar held down launches a ball with no vertical motion, for ever.
LaunchRises ==
  [][Ball_Reset /\ ~Ball_Reset' => Ball_Y_Motion' = Neg(Ball_Y_Step)]_ballVars
==============================================================================
