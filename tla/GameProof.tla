------------------------------ MODULE GameProof ------------------------------
(***************************************************************************)
(* The composed game: types, the safety properties of ball and bar, the    *)
(* start screen, and the refinement of GameRules, for every screen, wall   *)
(* and bar the assumptions admit; and, on the real screen, where the ball  *)
(* can be.                                                                 *)
(***************************************************************************)
EXTENDS Game, BallProof

\* The bar on its own.
BarInv == BarTypeOK /\ BarOnTrack

\* What the test of bar.sv line 69 is worth: a place one step away from the track
\* that passes it, with both its sums on wrapping words, is on the track.
LEMMA FitsIsSound ==
  ASSUME BarTypeOK, BarOnTrack, Fits
  PROVE  /\ Ahead \in Word
         /\ Ahead - Bar_Sizex >= Bar_X_Min
         /\ Ahead + Bar_Sizex <= Bar_X_Max
<1>1. /\ BarX \in Word /\ Bar_X_Step \in Word /\ Bar_Sizex \in Word
      /\ Bar_X_Min \in Word /\ Bar_X_Max \in Word
  BY BarAssumption DEF BarTypeOK
<1>2. Bar_X_Step <= Bar_X_Min /\ Bar_X_Max + Bar_X_Step < W
  BY BarAssumption
<1>3. CASE Bar_X_Motion = 0
  BY <1>1, <1>2, <1>3 DEF BarOnTrack, Fits, Ahead, Add, Sub, Word, W
<1>4. CASE Bar_X_Motion = Bar_X_Step
  BY <1>1, <1>2, <1>4 DEF BarOnTrack, Fits, Ahead, Add, Sub, Word, W
<1>5. CASE Bar_X_Motion = Neg(Bar_X_Step)
  BY <1>1, <1>2, <1>5 DEF BarOnTrack, Fits, Ahead, Add, Sub, Neg, Word, W
<1>6. QED
  BY <1>3, <1>4, <1>5 DEF BarTypeOK

\* Every tick, whatever its inputs, keeps the bar's invariant.
LEMMA BarTickInv ==
  ASSUME BarInv,
         NEW Reset \in BOOLEAN, NEW menu \in BOOLEAN,
         NEW barReset \in BOOLEAN, NEW keycode \in Keycode,
         BarTick(Reset, menu, barReset, keycode)
  PROVE  BarInv'
<1>1. CASE BarBegin
  BY <1>1, BarAssumption DEF BarBegin, BarInv, BarTypeOK, BarOnTrack, Word, W
<1>2. CASE BarRecentre
  BY <1>2, BarAssumption DEF BarRecentre, BarInv, BarTypeOK, BarOnTrack, Word, W
<1>3. CASE BarIdle
  BY <1>3 DEF BarIdle, BarInv, BarTypeOK, BarOnTrack
<1>4. CASE BarMove(keycode)
  <2>1. Bar_X_Motion' \in {0, Bar_X_Step, Neg(Bar_X_Step)}
    BY <1>4 DEF BarMove
  <2>2. CASE Fits
    <3>1. BarX' = Ahead
      BY <1>4, <2>2 DEF BarMove
    <3>2. QED
      BY <2>1, <2>2, <3>1, FitsIsSound DEF BarInv, BarTypeOK, BarOnTrack
  <2>3. CASE ~Fits
    <3>1. BarX' = BarX
      BY <1>4, <2>3 DEF BarMove
    <3>2. QED
      BY <2>1, <3>1 DEF BarInv, BarTypeOK, BarOnTrack
  <2>4. QED
    BY <2>2, <2>3
<1>5. QED
  BY <1>1, <1>2, <1>3, <1>4 DEF BarTick

\* The bar is always whole on its track (bar.sv 24-76), under every sequence of
\* resets, keys and requests to recentre.
THEOREM BarStaysOnTrack == BarSpec => []BarOnTrack
<1>1. BarInit => BarInv
  BY BarAssumption DEF BarInit, BarInv, BarTypeOK, BarOnTrack, Word, W
<1>2. BarInv /\ [BarNext]_barVars => BarInv'
  <2>1. ASSUME BarInv, BarNext PROVE BarInv'
    BY <2>1, BarTickInv DEF BarNext
  <2>2. ASSUME BarInv, UNCHANGED barVars PROVE BarInv'
    BY <2>2 DEF barVars, BarInv, BarTypeOK, BarOnTrack
  <2>3. QED
    BY <2>1, <2>2
<1>3. BarInv => BarOnTrack
  BY DEF BarInv
<1>4. QED
  BY <1>1, <1>2, <1>3, PTL DEF BarSpec
------------------------------------------------------------------------------
\* The composed game.
MenuTypeOK == start_menu \in BOOLEAN /\ start_menu_1 \in BOOLEAN /\ restart \in BOOLEAN

\* While the start screen is up the game is as a reset left it; the bar is where
\* it starts from the first tick on.
Unstarted ==
  /\ start_menu => start_menu_1
  /\ restart => ~moved
  /\ start_menu_1 =>
       /\ Ball_Reset /\ BallX = Ball_X_Start /\ Blocks = Block
       /\ lives = MaxLives /\ curr_score = 0
       /\ ~restart => BarX = Bar_X_Begin

GameInv == BallInv /\ BarInv /\ MenuTypeOK /\ Unstarted
------------------------------------------------------------------------------
\* The bar's part of a frame tick, common to Frame and GameOver.
LEMMA BarPart ==
  ASSUME GameInv, NEW keycode \in Keycode,
         BarTick(FALSE, start_menu_1, Bar_Reset, keycode)
  PROVE  /\ BarInv'
         /\ start_menu_1 => BarX' = Bar_X_Begin
<1>1. FALSE \in BOOLEAN /\ start_menu_1 \in BOOLEAN /\ Bar_Reset \in BOOLEAN
  BY DEF GameInv, MenuTypeOK, BallInv, BallTypeOK
<1>2. BarInv'
  BY <1>1, BarTickInv DEF GameInv
<1>3. start_menu_1 => BarX' = Bar_X_Begin
  BY DEF BarTick, BarBegin
<1>4. QED
  BY <1>2, <1>3

\* A bar on its track is at a word.
LEMMA BarIsWord ==
  ASSUME BarInv
  PROVE  BarX \in Word
BY DEF BarInv, BarTypeOK

\* On the start screen a tick can only park the ball.
LEMMA MenuParks ==
  ASSUME GameInv, NEW keycode \in Keycode, start_menu_1,
         BallTick(BarX, keycode, start_menu_1)
  PROVE  Park(BarX, keycode, start_menu_1) /\ Ball_Reset
<1>1. Ball_Reset
  BY DEF GameInv, Unstarted
<1>2. QED
  BY <1>1 DEF BallTick, LoseLife, Launch, BounceLeft, BounceTop, BounceRight,
              BounceBar, Fly, InFlight

\* A frame tick that does not take the last life keeps the invariant.
LEMMA FrameInv ==
  ASSUME GameInv, NEW keycode \in Keycode, Frame(keycode)
  PROVE  GameInv'
<1>1. /\ BarInv' /\ (start_menu_1 => BarX' = Bar_X_Begin)
      /\ MenuTypeOK' /\ start_menu' = start_menu /\ start_menu_1' = start_menu_1
      /\ restart' = FALSE
  BY BarPart DEF Frame, menuVars, GameInv, MenuTypeOK
<1>2. BallInv'
  BY BarIsWord, BallTickInv DEF Frame, GameInv, MenuTypeOK
<1>3. CASE start_menu_1
  <2>1. Park(BarX, keycode, start_menu_1) /\ Ball_Reset
    BY <1>3, MenuParks DEF Frame
  <2>2. Ball_Reset' /\ lives' = lives
    BY <2>1 DEF Park
  <2>3. BallX' = IF moved THEN BarX ELSE BallX
    BY <2>1, BarIsWord, ParkInv DEF Park, GameInv
  <2>4. BallX' = Ball_X_Start
    BY <1>3, <2>3, GameAssumption DEF GameInv, Unstarted
  <2>5. Hits = {}
    BY <2>1, NoHitsBelow DEF GameInv, BallInv, ParkedAtRest
  <2>6. Blocks' = Blocks /\ curr_score' = curr_score
    BY <2>1, <2>5 DEF Park, BreakBlocks
  <2>7. Unstarted'
    BY <1>1, <1>3, <2>2, <2>4, <2>6 DEF Unstarted, GameInv
  <2>8. QED
    BY <1>1, <1>2, <2>7 DEF GameInv
<1>4. CASE ~start_menu_1
  BY <1>1, <1>2, <1>4 DEF GameInv, Unstarted
<1>5. QED
  BY <1>3, <1>4

\* So does the tick that takes the last life and, through lives_zero, resets the game.
LEMMA GameOverInv ==
  ASSUME GameInv, NEW keycode \in Keycode, GameOver(keycode)
  PROVE  GameInv'
<1>1. ~start_menu_1 /\ ~start_menu
  BY DEF GameOver, LastLife, GameInv, Unstarted
<1>2. BarInv' /\ BallInv'
  BY BarPart, BallBeginInv DEF GameOver
<1>3. MenuTypeOK' /\ Unstarted'
  BY <1>1 DEF GameOver, menuVars, BallBegin, GameInv, MenuTypeOK, Unstarted
<1>4. QED
  BY <1>2, <1>3 DEF GameInv

\* A press of KEY[0] restores the ball and leaves the bar alone.
LEMMA KeyResetInv ==
  ASSUME GameInv, KeyReset
  PROVE  GameInv'
<1>1. BallInv'
  BY BallBeginInv DEF KeyReset
<1>2. BarInv'
  BY DEF KeyReset, barVars, GameInv, BarInv, BarTypeOK, BarOnTrack
<1>3. MenuTypeOK' /\ Unstarted'
  BY DEF KeyReset, BallBegin, MenuTypeOK, Unstarted
<1>4. QED
  BY <1>1, <1>2, <1>3 DEF GameInv

\* The invariant speaks of the ball's and the bar's registers only.
LEMMA StandsStill ==
  ASSUME GameInv, UNCHANGED <<barVars, ballVars>>
  PROVE  BallInv' /\ BarInv'
<1>1. BarInv'
  BY DEF barVars, GameInv, BarInv, BarTypeOK, BarOnTrack
<1>2. /\ BallX' = BallX /\ BallY' = BallY /\ Blocks' = Blocks /\ moved' = moved
      /\ Ball_Reset' = Ball_Reset
  BY DEF ballVars
<1>3. BallTypeOK' /\ ParkedAtRest' /\ ScoreTracksFallen'
  BY DEF ballVars, GameInv, BallInv, BallTypeOK, ParkedAtRest, ScoreTracksFallen
<1>4. BounceNeverOverwritten'
  BY <1>2 DEF GameInv, BallInv, BounceNeverOverwritten, AtBottom, AtLeft, AtTop,
              AtRight, Hits, XHits, YHits, HitX, HitY, BottomStrip, TopStrip,
              LeftStrip, RightStrip, WithinX, WithinY
<1>5. QED
  BY <1>1, <1>3, <1>4 DEF BallInv

\* The latch of the start screen only leaves it with the game unstarted.
LEMMA MenuClockInv ==
  ASSUME GameInv, NEW keycode \in Keycode, MenuClock(keycode)
  PROVE  GameInv'
<1>1. BallInv' /\ BarInv'
  BY StandsStill DEF MenuClock
<1>2. MenuTypeOK'
  BY DEF MenuClock, GameInv, MenuTypeOK
<1>3. Unstarted'
  BY DEF MenuClock, ballVars, barVars, GameInv, MenuTypeOK, Unstarted
<1>4. QED
  BY <1>1, <1>2, <1>3 DEF GameInv

\* Every step keeps the invariant.
LEMMA GameInvStep == GameInv /\ [Next]_vars => GameInv'
<1>1. ASSUME GameInv, NEW keycode \in Keycode, Frame(keycode) PROVE GameInv'
  BY <1>1, FrameInv
<1>2. ASSUME GameInv, NEW keycode \in Keycode, GameOver(keycode) PROVE GameInv'
  BY <1>2, GameOverInv
<1>3. ASSUME GameInv, NEW keycode \in Keycode, MenuClock(keycode) PROVE GameInv'
  BY <1>3, MenuClockInv
<1>4. ASSUME GameInv, KeyReset PROVE GameInv'
  BY <1>4, KeyResetInv
<1>5. ASSUME GameInv, UNCHANGED vars PROVE GameInv'
  BY <1>5, StandsStill
     DEF vars, menuVars, ballVars, barVars, GameInv, MenuTypeOK, Unstarted
<1>6. QED
  BY <1>1, <1>2, <1>3, <1>4, <1>5 DEF Next

\* The state after KEY[0] satisfies the invariant.
LEMMA GameInvInit == Init => GameInv
<1> SUFFICES ASSUME Init PROVE GameInv
  OBVIOUS
<1>1. BallInv
  BY BallInitInv DEF Init
<1>2. BarInv
  BY BarAssumption DEF Init, BarInit, BarInv, BarTypeOK, BarOnTrack, Word, W
<1>3. MenuTypeOK /\ Unstarted
  BY DEF Init, BallInit, MenuTypeOK, Unstarted
<1>4. QED
  BY <1>1, <1>2, <1>3 DEF GameInv

\* The inductive invariant of the game: the registers' types, the bar on its track,
\* the ball at its height and at rest while parked, and the start screen's stillness.
THEOREM GameInvariant == Spec => []GameInv
BY GameInvInit, GameInvStep, PTL DEF Spec
------------------------------------------------------------------------------
\* The registers keep their types; lives is never seen at 0, since the reset it
\* raises sets it back (lab62.sv 121, ball.sv 46 and 60).
THEOREM TypeCorrect == Spec => []TypeOK
<1>1. GameInv => TypeOK
  <2> SUFFICES ASSUME GameInv PROVE TypeOK
    OBVIOUS
  <2>1. curr_score \in 0 .. NumBlocks
    <3>1. IsFiniteSet(Blocks)
      BY WallSize, FS_Subset DEF GameInv, BallInv, BallTypeOK
    <3>2. Cardinality(Blocks) \in Nat
      BY <3>1, FS_CardinalityType
    <3>3. QED
      BY <3>2, BallAssumption DEF GameInv, BallInv, BallTypeOK, ScoreTracksFallen
  <2>2. QED
    BY <2>1 DEF GameInv, BallInv, BallTypeOK, BarInv, BarTypeOK, MenuTypeOK,
                TypeOK, XMotion, YMotion
<1>2. QED
  BY <1>1, GameInvariant, PTL

\* No bounce off a wall, the bottom or a block is ever overwritten by the final
\* "if (~moved)" of ball.sv 223-230.
THEOREM BouncesAreKept == Spec => []BounceNeverOverwritten
<1>1. GameInv => BounceNeverOverwritten
  BY DEF GameInv, BallInv
<1>2. QED
  BY <1>1, GameInvariant, PTL

\* Of the blocks that have fallen none has given two points, and no three have
\* fallen for one.
THEOREM ScoreIsEarned == Spec => []ScoreTracksFallen
<1>1. GameInv => ScoreTracksFallen
  BY DEF GameInv, BallInv
<1>2. QED
  BY <1>1, GameInvariant, PTL

\* Nothing of the unstarted game changes while the start screen is up.
THEOREM StartScreenHolds == Spec => []UnstartedStill
<1>1. GameInv => UnstartedStill
  BY DEF GameInv, BallInv, ParkedAtRest, Unstarted, UnstartedStill
<1>2. QED
  BY <1>1, GameInvariant, PTL

\* The bar in the game stays on its track.
THEOREM GameBarOnTrack == Spec => []BarOnTrack
<1>1. GameInv => BarOnTrack
  BY DEF GameInv, BarInv
<1>2. QED
  BY <1>1, GameInvariant, PTL

\* A lost ball is parked at rest in the very tick that takes the life.
THEOREM LostBallIsParked == Spec => LostBallRests
<1> DEFINE Parks == ~Ball_Reset /\ Ball_Reset' =>
                      /\ BallY' = Ball_Y_Start
                      /\ Ball_X_Motion' = 0 /\ Ball_Y_Motion' = 0
<1>1. GameInv /\ [Next]_vars => [Parks]_ballVars
  <2> SUFFICES ASSUME GameInv, [Next]_vars, ~Ball_Reset, Ball_Reset' PROVE Parks
    OBVIOUS
  <2>1. ASSUME NEW keycode \in Keycode, Frame(keycode) PROVE Parks
    <3>1. LoseLife(BarX)
      BY <2>1 DEF Frame, BallTick, Launch, Park, BounceLeft, BounceTop, BounceRight,
                  BounceBar, Bounce, Fly, GameInv, BallInv, BallTypeOK
    <3>2. QED
      BY <2>1, <3>1, LoseLifeInv, BarIsWord DEF Frame, GameInv
  <2>2. ASSUME NEW keycode \in Keycode, GameOver(keycode) PROVE Parks
    BY <2>2 DEF GameOver, BallBegin
  <2>3. CASE KeyReset
    BY <2>3 DEF KeyReset, BallBegin
  <2>4. ASSUME NEW keycode \in Keycode, MenuClock(keycode) PROVE Parks
    BY <2>4 DEF MenuClock, ballVars
  <2>5. CASE UNCHANGED vars
    BY <2>5 DEF vars, ballVars
  <2>6. QED
    BY <2>1, <2>2, <2>3, <2>4, <2>5 DEF Next
<1>2. QED
  BY <1>1, GameInvariant, PTL DEF Spec, LostBallRests
\* The real bar and screen.
RealGame == RealScreen /\ Bar_Sizex = 30 /\ Bar_X_Min = 10 /\ Bar_X_Max = 639

\* The bar of the game is always on its track, so the ball stays in its field there too.
LEMMA GameFieldStep ==
  ASSUME RealGame, GameInv, FieldInv, [Next]_vars
  PROVE  FieldInv'
<1>1. RealScreen /\ BarX \in Word /\ BarX \in 30 .. 609
  BY BarIsWord DEF RealGame, GameInv, BarInv, BarOnTrack, Word, W
<1>2. ASSUME NEW keycode \in Keycode, Frame(keycode) PROVE FieldInv'
  BY <1>1, <1>2, FieldTick DEF Frame, GameInv, MenuTypeOK
<1>3. ASSUME NEW keycode \in Keycode, GameOver(keycode) PROVE FieldInv'
  BY <1>1, <1>3, FieldBegin DEF GameOver
<1>4. ASSUME KeyReset PROVE FieldInv'
  BY <1>1, <1>4, FieldBegin DEF KeyReset
<1>5. ASSUME NEW keycode \in Keycode, MenuClock(keycode) PROVE FieldInv'
  BY <1>5, FieldFrame DEF MenuClock
<1>6. ASSUME UNCHANGED vars PROVE FieldInv'
  BY <1>6, FieldFrame DEF vars
<1> QED
  BY <1>2, <1>3, <1>4, <1>5, <1>6 DEF Next

\* With the real parameters, which are constant.
LEMMA GameField == RealGame /\ Spec => [](RealGame /\ FieldInv)
<1>1. RealGame /\ Init => RealGame /\ FieldInv
  BY FieldBegin DEF Init, RealGame
<1>2. GameInv /\ RealGame /\ FieldInv /\ [Next]_vars => (RealGame /\ FieldInv)'
  <2>1. RealGame' <=> RealGame
    BY DEF RealGame, RealScreen
  <2> QED
    BY <2>1, GameFieldStep
<1> QED
  BY <1>1, <1>2, GameInvariant, PTL DEF Spec

\* On the real screen, with a bar that is moved at will, the ball never leaves the
\* field (ball.sv 97-122).
THEOREM BallKeptInField == RealGame /\ Spec => []BallInField
<1>1. RealGame /\ FieldInv => BallInField
  BY FieldSays DEF RealGame
<1> QED
  BY <1>1, GameField, PTL

\* Nor is a life lost by a ball whose height has wrapped (ball.sv 68, 106).
THEOREM LivesAreLostBelow == RealGame /\ Spec => []NoPhantomLoss
<1>1. RealGame /\ FieldInv => NoPhantomLoss
  BY FieldSays DEF RealGame
<1> QED
  BY <1>1, GameField, PTL

\* Nor does the ball's centre get inside a block that stands: the loop over the
\* blocks, which looks at the strips only, misses none (ball.sv 162-218).
THEOREM NoBlockIsMissed == RealGame /\ Spec => []BlocksAreHit
<1>1. FieldInv => BlocksAreHit
  BY DEF FieldInv
<1> QED
  BY <1>1, GameField, PTL
------------------------------------------------------------------------------
(* The refinement: every step of the game is a step of the rules, or none.  *)

\* Which of the ticks in flight break blocks is all the rules see of them.
LEMMA FlightFrameFollowsRules ==
  ASSUME GameInv, ~start_menu_1, start_menu_1' = start_menu_1, ~Ball_Reset,
         BreakBlocks, Ball_Reset' = FALSE, lives' = lives
  PROVE  [Rules!Next]_Rules!rulesVars
<1>1. CASE Hits = {}
  <2>1. Blocks' = Blocks
    BY <1>1 DEF BreakBlocks
  <2>2. QED
    BY <2>1 DEF Rules!rulesVars
<1>2. CASE Hits # {}
  <2>1. Hits \in (SUBSET Blocks) \ {{}}
    BY <1>2 DEF Hits, XHits, YHits
  <2>2. Blocks' = Blocks \ Hits
    BY DEF BreakBlocks
  <2>3. Rules!BreakSome
    BY <2>1, <2>2 DEF Rules!BreakSome
  <2>4. QED
    BY <2>3 DEF Rules!Next
<1>3. QED
  BY <1>1, <1>2

\* A frame tick that does not take the last life.
LEMMA FrameFollowsRules ==
  ASSUME GameInv, NEW keycode \in Keycode, Frame(keycode)
  PROVE  [Rules!Next]_Rules!rulesVars
<1>1. start_menu_1' = start_menu_1 /\ BallTick(BarX, keycode, start_menu_1)
  BY DEF Frame, menuVars
<1>2. CASE LoseLife(BarX)
  <2>1. ~start_menu_1 /\ Hits = {} /\ lives \in 2 .. 3
    BY <1>2, NoHitsBelow, BallAssumption
       DEF LoseLife, Frame, LastLife, GameInv, Unstarted, BallInv, BallTypeOK
  <2>2. Blocks' = Blocks /\ Ball_Reset' /\ ~Ball_Reset
    BY <1>2, <2>1 DEF LoseLife, BreakBlocks
  <2>3. lives' = lives - 1 /\ lives > 1
    <3>1. lives' = (lives + 3) % 4
      BY <1>2 DEF LoseLife
    <3>2. lives = 2 \/ lives = 3
      BY <2>1
    <3>3. QED
      BY <3>1, <3>2
  <2>4. Rules!LoseBall
    BY <1>1, <2>1, <2>2, <2>3 DEF Rules!LoseBall
  <2>5. QED
    BY <2>4 DEF Rules!Next
<1>3. CASE Ball_Reset
  <2>1. Hits = {} /\ (Launch(keycode, start_menu_1) \/ Park(BarX, keycode, start_menu_1))
    BY <1>1, <1>3, NoHitsBelow
       DEF BallTick, LoseLife, BounceLeft, BounceTop, BounceRight, BounceBar, Fly,
           InFlight, GameInv, BallInv, ParkedAtRest
  <2>2. Blocks' = Blocks /\ lives' = lives
    BY <2>1 DEF Launch, Park, BreakBlocks
  <2>3. CASE Launch(keycode, start_menu_1)
    <3>1. Rules!LaunchBall
      BY <1>1, <1>3, <2>2, <2>3 DEF Launch, Rules!LaunchBall
    <3>2. QED
      BY <3>1 DEF Rules!Next
  <2>4. CASE Park(BarX, keycode, start_menu_1)
    BY <1>1, <2>2, <2>4 DEF Park, Rules!rulesVars
  <2>5. QED
    BY <2>1, <2>3, <2>4
<1>4. CASE ~Ball_Reset /\ ~LoseLife(BarX)
  <2>1. ~start_menu_1
    BY <1>4 DEF GameInv, Unstarted
  <2>2. BreakBlocks /\ Ball_Reset' = FALSE /\ lives' = lives
    BY <1>1, <1>4 DEF BallTick, Launch, Park, BounceLeft, BounceTop, BounceRight,
                      BounceBar, Bounce, Fly, GameInv, BallInv, BallTypeOK
  <2>3. QED
    BY <1>1, <1>4, <2>1, <2>2, FlightFrameFollowsRules
<1>5. QED
  BY <1>2, <1>3, <1>4

\* The game implements the rules of its README.
THEOREM GameImplementsRules == Spec => KeepsTheRules
<1>1. Init => Rules!Init
  BY DEF Init, BallInit, Block, Rules!Init, Rules!Wall
<1>2. GameInv /\ [Next]_vars => [Rules!Next]_Rules!rulesVars
  <2> SUFFICES ASSUME GameInv, [Next]_vars PROVE [Rules!Next]_Rules!rulesVars
    OBVIOUS
  <2>1. ASSUME NEW keycode \in Keycode, Frame(keycode)
        PROVE  [Rules!Next]_Rules!rulesVars
    BY <2>1, FrameFollowsRules
  <2>2. ASSUME NEW keycode \in Keycode, GameOver(keycode)
        PROVE  Rules!Next
    <3>1. ~start_menu_1 /\ ~start_menu_1' /\ ~Ball_Reset /\ lives = 1
      BY <2>2 DEF GameOver, LastLife, menuVars, GameInv, Unstarted
    <3>2. Rules!StartOver
      BY <2>2, <3>1 DEF GameOver, BallBegin, Block, Rules!StartOver,
                        Rules!StartAnew, Rules!Wall
    <3>3. QED
      BY <3>2 DEF Rules!Next
  <2>3. CASE KeyReset
    <3>1. Rules!PressReset
      BY <2>3 DEF KeyReset, BallBegin, Block, Rules!PressReset, Rules!StartAnew,
                  Rules!Wall
    <3>2. QED
      BY <3>1 DEF Rules!Next
  <2>4. ASSUME NEW keycode \in Keycode, MenuClock(keycode)
        PROVE  [Rules!Next]_Rules!rulesVars
    <3>1. /\ Ball_Reset' = Ball_Reset /\ Blocks' = Blocks
          /\ lives' = lives
      BY <2>4 DEF MenuClock, ballVars
    <3>2. CASE start_menu_1' = start_menu_1
      BY <3>1, <3>2 DEF Rules!rulesVars
    <3>3. CASE start_menu_1' # start_menu_1
      <4>1. start_menu_1 /\ ~start_menu_1' /\ Ball_Reset
        BY <2>4, <3>3 DEF MenuClock, GameInv, MenuTypeOK, Unstarted
      <4>2. Rules!LeaveMenu
        BY <3>1, <4>1 DEF Rules!LeaveMenu
      <4>3. QED
        BY <4>2 DEF Rules!Next
    <3>4. QED
      BY <3>2, <3>3
  <2>5. CASE UNCHANGED vars
    BY <2>5 DEF vars, menuVars, ballVars, Rules!rulesVars
  <2>6. QED
    BY <2>1, <2>2, <2>3, <2>4, <2>5 DEF Next
<1>3. QED
  BY <1>1, <1>2, GameInvariant, PTL DEF Spec, KeepsTheRules, Rules!Spec
==============================================================================
