------------------------------ MODULE BallProof ------------------------------
(***************************************************************************)
(* What a tick of the ball preserves, for every screen, ball and wall that *)
(* the assumptions of Ball admit and for a bar at any word; then what the  *)
(* real screen adds: where the ball gets to, and what the bar holds.       *)
(***************************************************************************)
EXTENDS BallAlone, FiniteSetTheorems, TLAPS

XMotion == {0, Ball_X_Step, Neg(Ball_X_Step)}
YMotion == {0, Ball_Y_Step, Neg(Ball_Y_Step)}

BallTypeOK ==
  /\ BallX \in Word /\ BallY \in Word
  /\ Ball_X_Motion \in XMotion /\ Ball_Y_Motion \in YMotion
  /\ Ball_Reset \in BOOLEAN /\ Bar_Reset \in BOOLEAN /\ moved \in BOOLEAN
  /\ Blocks \subseteq Block
  /\ lives \in 1 .. MaxLives
  /\ curr_score \in Nat

\* A parked ball is at rest at the height of the bar, clear of every block.
ParkedAtRest ==
  Ball_Reset => BallY = Ball_Y_Start /\ Ball_X_Motion = 0 /\ Ball_Y_Motion = 0

BallInv == BallTypeOK /\ ParkedAtRest /\ BounceNeverOverwritten /\ ScoreTracksFallen
------------------------------------------------------------------------------
\* Sums and differences of words are words.
LEMMA WordsClosed ==
  ASSUME NEW a \in Word, NEW b \in Word
  PROVE  Add(a, b) \in Word /\ Sub(a, b) \in Word /\ Neg(a) \in Word
BY DEF Add, Sub, Neg, Word, W

\* A motion is a word, and adding none stays in place.
LEMMA MotionsAreWords ==
  ASSUME BallTypeOK
  PROVE  /\ Ball_X_Motion \in Word /\ Ball_Y_Motion \in Word
         /\ \A a \in Word : Add(a, 0) = a
<1>1. 0 \in Word /\ Neg(Ball_X_Step) \in Word /\ Neg(Ball_Y_Step) \in Word
  <2>1. 0 \in Word
    BY DEF Word, W
  <2>2. QED
    BY <2>1, BallAssumption, WordsClosed
<1>2. \A a \in Word : Add(a, 0) = a
  BY DEF Add, Word, W
<1>3. QED
  BY <1>1, <1>2, BallAssumption DEF BallTypeOK, XMotion, YMotion

\* The strips of a block of height 2 * h centred at y are all above any line that
\* is below the block, whatever their sums would do if they wrapped.
LEMMA StripsAreHigh ==
  ASSUME NEW y \in Word, NEW h \in Word, NEW step \in Word, NEW line \in Word,
         h <= y, y + h < line, step <= h, NEW b \in Word,
         b <= Add(y, h) \/ b <= Add(Sub(y, h), step)
  PROVE  b < line
<1>1. y \in Int /\ h \in Int /\ step \in Int /\ line \in Int /\ b \in Int
      /\ 0 <= h /\ line < W
  BY DEF Word, W
<1>2. Add(y, h) = y + h
  BY <1>1 DEF Add, W
<1>3. Sub(y, h) = y - h
  BY <1>1 DEF Sub
<1>4. Add(y - h, step) = y - h + step
  BY <1>1 DEF Add, W
<1>5. QED
  BY <1>1, <1>2, <1>3, <1>4

\* A ball in a strip of a block is above the place where the ball is parked.
LEMMA HitsAreHigh ==
  ASSUME BallY \in Word, NEW i \in Block, HitY(i) \/ HitX(i)
  PROVE  BallY < Ball_Y_Start
<1>1. /\ BlockY(i) \in Word /\ Block_SizeY \in Word /\ Ball_Y_Step \in Word
      /\ Block_SizeY <= BlockY(i) /\ BlockY(i) + Block_SizeY < Ball_Y_Start
      /\ Ball_Y_Step <= Block_SizeY /\ Ball_Y_Start \in Word
  BY BallAssumption, LayoutAssumption
<1>2. \/ BallY <= Add(BlockY(i), Block_SizeY)
      \/ BallY <= Add(Sub(BlockY(i), Block_SizeY), Ball_Y_Step)
  BY DEF HitY, HitX, BottomStrip, TopStrip, LeftStrip, RightStrip, WithinY
<1>3. QED
  BY <1>1, <1>2, StripsAreHigh

\* A ball that is parked, or at the bottom, touches no block.
LEMMA NoHitsBelow ==
  ASSUME BallTypeOK, BallY = Ball_Y_Start \/ AtBottom
  PROVE  Hits = {}
<1>1. BallY >= Ball_Y_Start
  <2>1. CASE AtBottom
    BY <2>1, BallAssumption DEF AtBottom, BallTypeOK, Add, Word, W
  <2>2. CASE BallY = Ball_Y_Start
    BY <2>2, BallAssumption DEF Word, W
  <2>3. QED
    BY <2>1, <2>2
<1>2. \A i \in Block : ~HitY(i) /\ ~HitX(i)
  <2>1. BallY \in Word /\ Ball_Y_Start \in Word
    BY BallAssumption DEF BallTypeOK
  <2>2. QED
    BY <1>1, <2>1, HitsAreHigh DEF Word, W
<1>3. QED
  BY <1>2 DEF Hits, YHits, XHits, BallTypeOK

\* Sums and differences that stay within a word do not wrap.
LEMMA ExactSums ==
  ASSUME NEW a \in Nat, NEW b \in Nat
  PROVE  /\ a + b < W => Add(a, b) = a + b
         /\ b <= a /\ a < W => Sub(a, b) = a - b
BY DEF Add, Sub, W

\* Where a block is, as numbers.
LEMMA BlockPlace ==
  ASSUME NEW i \in Block
  PROVE  /\ BlockX(i) \in Nat /\ BlockY(i) \in Nat
         /\ Block_SizeX \in Nat /\ Block_SizeY \in Nat
         /\ Block_SizeX <= BlockX(i) /\ BlockX(i) + Block_SizeX < W
         /\ Block_SizeY <= BlockY(i) /\ BlockY(i) + Block_SizeY < W
<1>1. /\ Block_SizeX \in Word /\ Block_SizeY \in Word /\ Ball_Y_Start \in Word
  BY BallAssumption
<1>2. /\ BlockX(i) \in Word /\ BlockY(i) \in Word
      /\ Block_SizeY <= BlockY(i) /\ BlockY(i) + Block_SizeY < Ball_Y_Start
  BY LayoutAssumption
<1>3. Block_SizeX <= BlockX(i) /\ BlockX(i) + Block_SizeX < W
  BY SpacingAssumption
<1>4. \A a \in Word : a \in Nat /\ a < W
  BY DEF Word, W
<1>5. /\ BlockX(i) \in Nat /\ BlockY(i) \in Nat /\ Block_SizeX \in Nat
      /\ Block_SizeY \in Nat /\ Ball_Y_Start \in Nat /\ Ball_Y_Start < W
  BY <1>1, <1>2, <1>4
<1>6. BlockY(i) + Block_SizeY < W
  BY <1>2, <1>5 DEF W
<1>7. QED
  BY <1>2, <1>3, <1>5, <1>6

\* A ball that hits a block is within the block's edges, none of which wraps.
LEMMA HitIsTouch ==
  ASSUME BallTypeOK, NEW i \in Hits
  PROVE  /\ i \in Blocks
         /\ BallX - BlockX(i) <= Block_SizeX /\ BlockX(i) - BallX <= Block_SizeX
         /\ BallY - BlockY(i) <= Block_SizeY /\ BlockY(i) - BallY <= Block_SizeY
<1>1. i \in Blocks /\ i \in Block /\ (HitY(i) \/ HitX(i))
  BY DEF Hits, YHits, XHits, BallTypeOK
<1> DEFINE x == BlockX(i)
           y == BlockY(i)
<1>2. /\ x \in Nat /\ y \in Nat /\ Block_SizeX \in Nat /\ Block_SizeY \in Nat
      /\ Block_SizeX <= x /\ x + Block_SizeX < W
      /\ Block_SizeY <= y /\ y + Block_SizeY < W
  BY <1>1, BlockPlace
<1>3. /\ BallX \in Nat /\ BallY \in Nat /\ Ball_X_Step \in Nat /\ Ball_Y_Step \in Nat
      /\ Ball_X_Step <= Block_SizeX /\ Ball_Y_Step <= Block_SizeY
  BY BallAssumption, SpacingAssumption DEF BallTypeOK, Word, W
<1> HIDE DEF x, y
<1>4. /\ Add(x, Block_SizeX) = x + Block_SizeX /\ Sub(x, Block_SizeX) = x - Block_SizeX
      /\ Add(y, Block_SizeY) = y + Block_SizeY /\ Sub(y, Block_SizeY) = y - Block_SizeY
  <2>1. x < W /\ y < W
    BY <1>2 DEF W
  <2>2. QED
    BY <1>2, <2>1, ExactSums
<1>5. /\ Add(x - Block_SizeX, Ball_X_Step) = x - Block_SizeX + Ball_X_Step
      /\ Add(y - Block_SizeY, Ball_Y_Step) = y - Block_SizeY + Ball_Y_Step
  <2>1. /\ x - Block_SizeX \in Nat /\ x - Block_SizeX + Ball_X_Step < W
        /\ y - Block_SizeY \in Nat /\ y - Block_SizeY + Ball_Y_Step < W
    BY <1>2, <1>3 DEF W
  <2>2. QED
    BY <1>3, <2>1, ExactSums
<1>6. /\ Sub(x + Block_SizeX, Ball_X_Step) = x + Block_SizeX - Ball_X_Step
      /\ Sub(y + Block_SizeY, Ball_Y_Step) = y + Block_SizeY - Ball_Y_Step
  <2>1. /\ x + Block_SizeX \in Nat /\ Ball_X_Step <= x + Block_SizeX
        /\ y + Block_SizeY \in Nat /\ Ball_Y_Step <= y + Block_SizeY
    BY <1>2, <1>3
  <2>2. QED
    BY <1>2, <1>3, <2>1, ExactSums
<1> USE DEF x, y
<1>7. CASE HitY(i)
  <2>1. \/ BallY <= y + Block_SizeY /\ BallY >= y + Block_SizeY - Ball_Y_Step
        \/ BallY >= y - Block_SizeY /\ BallY <= y - Block_SizeY + Ball_Y_Step
    BY <1>4, <1>5, <1>6, <1>7 DEF HitY, BottomStrip, TopStrip
  <2>2. BallX <= x + Block_SizeX /\ BallX >= x - Block_SizeX
    BY <1>4, <1>7 DEF HitY, BottomStrip, TopStrip, WithinX
  <2>3. QED
    BY <1>1, <1>2, <1>3, <2>1, <2>2
<1>8. CASE HitX(i)
  <2>1. \/ BallX >= x - Block_SizeX /\ BallX <= x - Block_SizeX + Ball_X_Step
        \/ BallX <= x + Block_SizeX /\ BallX >= x + Block_SizeX - Ball_X_Step
    BY <1>4, <1>5, <1>6, <1>8 DEF HitX, LeftStrip, RightStrip
  <2>2. BallY <= y + Block_SizeY /\ BallY >= y - Block_SizeY
    BY <1>4, <1>8 DEF HitX, LeftStrip, RightStrip, WithinY
  <2>3. QED
    BY <1>1, <1>2, <1>3, <2>1, <2>2
<1>9. QED
  BY <1>1, <1>7, <1>8

\* Two blocks hit at once are a row apart.
LEMMA HitsAreRowsApart ==
  ASSUME BallTypeOK, NEW i \in Hits, NEW j \in Hits, i # j
  PROVE  \/ BlockY(j) - BlockY(i) >= 2 * Block_SizeY
         \/ BlockY(i) - BlockY(j) >= 2 * Block_SizeY
<1>1. /\ BallX - BlockX(i) <= Block_SizeX /\ BlockX(i) - BallX <= Block_SizeX
      /\ BallX - BlockX(j) <= Block_SizeX /\ BlockX(j) - BallX <= Block_SizeX
      /\ i \in Block /\ j \in Block
  BY HitIsTouch DEF BallTypeOK
<1>2. BlockX(i) \in Int /\ BlockX(j) \in Int /\ BallX \in Int /\ Block_SizeX \in Int
  BY <1>1, BlockPlace DEF BallTypeOK, Word
<1>3. /\ ~(BlockX(j) - BlockX(i) > 2 * Block_SizeX)
      /\ ~(BlockX(i) - BlockX(j) > 2 * Block_SizeX)
  BY <1>1, <1>2
<1>4. QED
  BY <1>1, <1>3, SpacingAssumption

\* So the ball never hits three.
LEMMA AtMostTwoHits ==
  ASSUME BallTypeOK, NEW i \in Hits, NEW j \in Hits, NEW k \in Hits, i # j
  PROVE  k = i \/ k = j
<1> SUFFICES ASSUME k # i, k # j PROVE FALSE
  OBVIOUS
<1>1. \A l \in {i, j, k} :
        /\ BallY - BlockY(l) <= Block_SizeY /\ BlockY(l) - BallY <= Block_SizeY
        /\ BlockY(l) \in Int
  BY HitIsTouch, BlockPlace DEF BallTypeOK
<1>2. /\ \/ BlockY(j) - BlockY(i) >= 2 * Block_SizeY
         \/ BlockY(i) - BlockY(j) >= 2 * Block_SizeY
      /\ \/ BlockY(k) - BlockY(i) >= 2 * Block_SizeY
         \/ BlockY(i) - BlockY(k) >= 2 * Block_SizeY
      /\ \/ BlockY(k) - BlockY(j) >= 2 * Block_SizeY
         \/ BlockY(j) - BlockY(k) >= 2 * Block_SizeY
  BY HitsAreRowsApart
<1>3. BallY \in Int /\ Block_SizeY \in Int /\ Block_SizeY > 0
  BY BallAssumption, SpacingAssumption DEF BallTypeOK, Word
<1> DEFINE yi == BlockY(i)
           yj == BlockY(j)
           yk == BlockY(k)
<1>4. /\ yi \in Int /\ yj \in Int /\ yk \in Int
      /\ BallY - yi <= Block_SizeY /\ yi - BallY <= Block_SizeY
      /\ BallY - yj <= Block_SizeY /\ yj - BallY <= Block_SizeY
      /\ BallY - yk <= Block_SizeY /\ yk - BallY <= Block_SizeY
  BY <1>1
<1>5. /\ yj - yi >= 2 * Block_SizeY \/ yi - yj >= 2 * Block_SizeY
      /\ yk - yi >= 2 * Block_SizeY \/ yi - yk >= 2 * Block_SizeY
      /\ yk - yj >= 2 * Block_SizeY \/ yj - yk >= 2 * Block_SizeY
  BY <1>2
<1> HIDE DEF yi, yj, yk
<1>6. QED
  BY <1>3, <1>4, <1>5

\* A tick that hits takes one block or two out of the wall.
LEMMA FallenByHits ==
  ASSUME BallTypeOK, IsFiniteSet(Blocks), Hits # {}
  PROVE  /\ Cardinality(Blocks) \in Nat /\ Cardinality(Blocks \ Hits) \in Nat
         /\ \/ Cardinality(Blocks \ Hits) = Cardinality(Blocks) - 1
            \/ Cardinality(Blocks \ Hits) = Cardinality(Blocks) - 2
<1>1. PICK i \in Hits : TRUE
  OBVIOUS
<1>2. Hits \subseteq Blocks
  BY DEF Hits, YHits, XHits
<1>3. /\ IsFiniteSet(Blocks \ {i})
      /\ Cardinality(Blocks \ {i}) = Cardinality(Blocks) - 1
  BY <1>1, <1>2, FS_RemoveElement
<1>4. Cardinality(Blocks) \in Nat /\ Cardinality(Blocks \ {i}) \in Nat
  BY <1>3, FS_CardinalityType
<1>5. CASE Hits = {i}
  BY <1>3, <1>4, <1>5
<1>6. CASE Hits # {i}
  <2>1. PICK j \in Hits : j # i
    BY <1>1, <1>6
  <2>2. \A k \in Hits : k = i \/ k = j
    BY <2>1, AtMostTwoHits
  <2>3. Blocks \ Hits = (Blocks \ {i}) \ {j}
    BY <1>1, <2>1, <2>2
  <2>4. j \in Blocks \ {i}
    BY <1>2, <2>1
  <2>5. /\ IsFiniteSet((Blocks \ {i}) \ {j})
        /\ Cardinality((Blocks \ {i}) \ {j}) = Cardinality(Blocks \ {i}) - 1
    BY <1>3, <2>4, FS_RemoveElement
  <2>6. Cardinality((Blocks \ {i}) \ {j}) \in Nat
    BY <2>5, FS_CardinalityType
  <2>7. QED
    BY <1>3, <1>4, <2>3, <2>5, <2>6
<1>7. QED
  BY <1>5, <1>6

\* Breaking blocks gives a point if any falls, and then one or two fall.
LEMMA BreakingScores ==
  ASSUME BallTypeOK, ScoreTracksFallen, BreakBlocks
  PROVE  /\ Blocks' \subseteq Block
         /\ curr_score' \in Nat
         /\ ScoreTracksFallen'
<1>1. IsFiniteSet(Blocks)
  <2>1. IsFiniteSet(Block)
    BY BallAssumption, FS_Interval DEF Block
  <2>2. QED
    BY <2>1, FS_Subset DEF BallTypeOK
<1>2. Blocks' = Blocks \ Hits
  BY DEF BreakBlocks
<1>3. CASE Hits = {}
  <2>1. Blocks' = Blocks /\ curr_score' = curr_score
    BY <1>2, <1>3 DEF BreakBlocks
  <2>2. QED
    BY <2>1 DEF BallTypeOK, ScoreTracksFallen
<1>4. CASE Hits # {}
  <2>1. /\ Cardinality(Blocks) \in Nat /\ Cardinality(Blocks') \in Nat
        /\ \/ Cardinality(Blocks') = Cardinality(Blocks) - 1
           \/ Cardinality(Blocks') = Cardinality(Blocks) - 2
    BY <1>1, <1>2, <1>4, FallenByHits
  <2>2. curr_score + 1 <= NumBlocks
    BY <2>1, BallAssumption DEF BallTypeOK, ScoreTracksFallen
  <2>3. curr_score' = curr_score + 1
    <3>1. curr_score' = (curr_score + 1) % (W * 64)
      BY <1>4 DEF BreakBlocks
    <3>2. QED
      BY <2>2, <3>1, BallAssumption DEF BallTypeOK, W
  <2>4. ScoreTracksFallen'
    BY <2>1, <2>3, BallAssumption DEF ScoreTracksFallen, BallTypeOK
  <2>5. Blocks' \subseteq Block /\ curr_score' \in Nat
    BY <1>2, <2>3 DEF BallTypeOK
  <2>6. QED
    BY <2>4, <2>5
<1>5. QED
  BY <1>3, <1>4

\* Where a tick takes the ball is a place.
LEMMA PlaceType ==
  ASSUME BallTypeOK, NEW x \in Word, NEW y \in Word, Place(x, y)
  PROVE  BallX' \in Word /\ BallY' \in Word
BY MotionsAreWords, WordsClosed DEF Place, BallTypeOK

\* Where it steers it is a motion.
LEMMA SteerType ==
  ASSUME BallTypeOK, NEW xm \in XMotion, NEW ym \in YMotion, Steer(xm, ym)
  PROVE  Ball_X_Motion' \in XMotion /\ Ball_Y_Motion' \in YMotion
<1>1. Ball_X_Motion' \in XMotion
  BY DEF Steer, XMotion
<1>2. Ball_Y_Motion' \in YMotion
  BY DEF Steer, YMotion, BallTypeOK
<1>3. QED
  BY <1>1, <1>2
------------------------------------------------------------------------------
\* With no block touched and the last tick a move, a tick does what its branch says.
LEMMA BranchPrevails ==
  ASSUME Hits = {}, moved, NEW x, NEW y, NEW xm, NEW ym, Place(x, y), Steer(xm, ym)
  PROVE  /\ BallX' = x /\ BallY' = y
         /\ Ball_X_Motion' = xm /\ Ball_Y_Motion' = ym
<1>1. XHits = {} /\ YHits = {} /\ ~Carried
  BY DEF Hits, Carried
<1>2. QED
  BY <1>1 DEF Place, Steer

\* The four bounces and the launch mark the tick as a move.
LEMMA FollowInv ==
  ASSUME BallInv, NEW xm \in XMotion, NEW ym \in YMotion,
         Steer(xm, ym), Follow, BreakBlocks,
         moved' = TRUE, Ball_Reset' = FALSE, Bar_Reset' = FALSE, lives' = lives
  PROVE  BallInv'
<1>1. BallX' \in Word /\ BallY' \in Word
  BY PlaceType, MotionsAreWords, WordsClosed DEF Follow, BallInv, BallTypeOK
<1>2. Ball_X_Motion' \in XMotion /\ Ball_Y_Motion' \in YMotion
  BY SteerType DEF BallInv
<1>3. Blocks' \subseteq Block /\ curr_score' \in Nat /\ ScoreTracksFallen'
  BY BreakingScores DEF BallInv
<1>4. QED
  BY <1>1, <1>2, <1>3 DEF BallInv, BallTypeOK, ParkedAtRest, BounceNeverOverwritten

\* A tick that takes a life, but not the last one, parks the ball at rest.
LEMMA LoseLifeInv ==
  ASSUME BallInv, NEW barX \in Word, ~LastLife, LoseLife(barX)
  PROVE  /\ BallInv'
         /\ BallY' = Ball_Y_Start /\ Ball_X_Motion' = 0 /\ Ball_Y_Motion' = 0
<1>1. ~Ball_Reset /\ AtBottom /\ BallTypeOK
  BY DEF LoseLife, BallInv
<1>2. Hits = {}
  BY <1>1, NoHitsBelow
<1>3. moved
  BY <1>1 DEF BallInv, BallTypeOK, BounceNeverOverwritten
<1>4. /\ BallX' = barX /\ BallY' = Ball_Y_Start
      /\ Ball_X_Motion' = 0 /\ Ball_Y_Motion' = 0
  BY <1>2, <1>3, BranchPrevails DEF LoseLife
<1>5. Blocks' \subseteq Block /\ curr_score' \in Nat /\ ScoreTracksFallen'
  BY BreakingScores DEF BallInv, LoseLife
<1>6. lives' \in 1 .. MaxLives
  <2>1. lives \in 2 .. MaxLives /\ MaxLives \in 1 .. 3
    BY <1>1, BallAssumption DEF LastLife, BallTypeOK
  <2>2. lives' = (lives + 3) % 4
    BY DEF LoseLife
  <2>3. lives = 2 \/ lives = 3
    BY <2>1
  <2>4. QED
    BY <2>1, <2>2, <2>3
<1>7. Ball_Reset' = TRUE /\ Bar_Reset' = TRUE /\ moved' = TRUE
  BY DEF LoseLife
<1>8. 0 \in XMotion /\ 0 \in YMotion /\ Ball_Y_Start \in Word
  BY BallAssumption DEF XMotion, YMotion
<1>9. QED
  BY <1>4, <1>5, <1>6, <1>7, <1>8
     DEF BallInv, BallTypeOK, ParkedAtRest, BounceNeverOverwritten

\* A parked ball stays at rest at its height, also in the tick after a reset,
\* which carries it along a motion of zero.
LEMMA ParkInv ==
  ASSUME BallInv, NEW barX \in Word, Ball_Reset,
         Steer(Ball_X_Motion, Ball_Y_Motion), Place(barX, Ball_Y_Start), BreakBlocks,
         moved' = TRUE, Ball_Reset' = Ball_Reset, Bar_Reset' = FALSE, lives' = lives
  PROVE  /\ BallInv'
         /\ BallX' = IF moved THEN barX ELSE BallX
<1>1. BallTypeOK /\ BallY = Ball_Y_Start /\ Ball_X_Motion = 0 /\ Ball_Y_Motion = 0
  BY DEF BallInv, ParkedAtRest
<1>2. Hits = {} /\ XHits = {} /\ YHits = {}
  BY <1>1, NoHitsBelow DEF Hits
<1>3. BallY' = Ball_Y_Start /\ BallX' = IF moved THEN barX ELSE BallX
  <2>1. Add(BallX, Ball_X_Motion) = BallX /\ Add(BallY, Ball_Y_Motion) = BallY
    BY <1>1, MotionsAreWords DEF BallTypeOK
  <2>2. QED
    BY <1>1, <1>2, <2>1 DEF Place, Carried
<1>4. Ball_X_Motion' = 0 /\ Ball_Y_Motion' = 0
  BY <1>1, <1>2 DEF Steer
<1>5. Blocks' \subseteq Block /\ curr_score' \in Nat /\ ScoreTracksFallen'
  BY BreakingScores DEF BallInv
<1>6. BallX' \in Word /\ BallY' \in Word
  BY <1>1, <1>3, BallAssumption DEF BallTypeOK
<1>7. QED
  BY <1>1, <1>3, <1>4, <1>5, <1>6
     DEF BallInv, BallTypeOK, ParkedAtRest, BounceNeverOverwritten

\* A ball in the open either is carried, which the tick marks, or stays where it
\* is, and then meets nothing new.
LEMMA FlyInv ==
  ASSUME BallInv, NEW barX \in Word, Fly(barX)
  PROVE  BallInv'
<1>1. BallX' \in Word /\ BallY' \in Word
  BY PlaceType DEF Fly, BallInv, BallTypeOK
<1>2. Ball_X_Motion' \in XMotion /\ Ball_Y_Motion' \in YMotion
  BY SteerType DEF Fly, BallInv, BallTypeOK
<1>3. Blocks' \subseteq Block /\ curr_score' \in Nat /\ ScoreTracksFallen'
  BY BreakingScores DEF Fly, BallInv
<1>4. Ball_Reset' = FALSE /\ Bar_Reset' = FALSE /\ lives' = lives /\ moved' = Carried
  BY DEF Fly, InFlight, BallInv, BallTypeOK
<1>5. Carried \in BOOLEAN
  BY DEF Carried, BallInv, BallTypeOK
<1>6. BallTypeOK' /\ ParkedAtRest'
  BY <1>1, <1>2, <1>3, <1>4, <1>5 DEF BallInv, BallTypeOK, ParkedAtRest
<1>7. BounceNeverOverwritten'
  <2>1. CASE Carried
    BY <1>4, <2>1 DEF BounceNeverOverwritten
  <2>2. CASE ~Carried
    <3>1. BallX' = BallX /\ BallY' = BallY /\ Hits = {}
      BY <2>2 DEF Fly, Place, Carried
    <3>2. Blocks' = Blocks
      BY <3>1 DEF Fly, BreakBlocks
    <3>3. Hits' = Hits
      BY <3>1, <3>2 DEF Hits, XHits, YHits, HitX, HitY, BottomStrip, TopStrip,
                        LeftStrip, RightStrip, WithinX, WithinY
    <3>4. ~AtBottom' /\ ~AtLeft' /\ ~AtTop' /\ ~AtRight'
      BY <3>1 DEF Fly, InFlight, AtBottom, AtLeft, AtTop, AtRight
    <3>5. QED
      BY <3>1, <3>3, <3>4 DEF BounceNeverOverwritten
  <2>3. QED
    BY <2>1, <2>2
<1>8. QED
  BY <1>3, <1>6, <1>7 DEF BallInv

\* Every tick of the ball that does not take the last life keeps the invariant.
LEMMA BallTickInv ==
  ASSUME BallInv, NEW barX \in Word, NEW keycode \in Keycode,
         NEW start_menu \in BOOLEAN, ~LastLife, BallTick(barX, keycode, start_menu)
  PROVE  BallInv'
<1>1. CASE LoseLife(barX)
  BY <1>1, LoseLifeInv
<1>2. CASE Launch(keycode, start_menu)
  BY <1>2, FollowInv DEF Launch, XMotion, YMotion
<1>3. CASE Park(barX, keycode, start_menu)
  BY <1>3, ParkInv DEF Park
<1>4. ASSUME NEW xm \in XMotion, NEW ym \in YMotion, InFlight, Bounce(xm, ym)
      PROVE  BallInv'
  BY <1>4, FollowInv DEF Bounce, InFlight, BallInv, BallTypeOK
<1>5. CASE BounceLeft \/ BounceTop \/ BounceRight \/ BounceBar(barX)
  BY <1>4, <1>5 DEF BounceLeft, BounceTop, BounceRight, BounceBar,
                    XMotion, YMotion, BallInv, BallTypeOK
<1>6. CASE Fly(barX)
  BY <1>6, FlyInv
<1>7. QED
  BY <1>1, <1>2, <1>3, <1>5, <1>6 DEF BallTick

\* The wall has NumBlocks blocks.
LEMMA WallSize == IsFiniteSet(Block) /\ Cardinality(Block) = NumBlocks
<1>1. NumBlocks \in Nat
  BY BallAssumption
<1>2. 0 \in Int /\ NumBlocks - 1 \in Int
  BY <1>1
<1>3. /\ IsFiniteSet(0 .. NumBlocks - 1)
      /\ Cardinality(0 .. NumBlocks - 1) =
           IF 0 > NumBlocks - 1 THEN 0 ELSE NumBlocks - 1 - 0 + 1
  BY <1>2, FS_Interval
<1>4. QED
  BY <1>1, <1>3 DEF Block

\* What a reset assigns is of the registers' types.
LEMMA BeginTypes ==
  /\ Ball_X_Start \in Word /\ Ball_Y_Start \in Word
  /\ 0 \in XMotion /\ 0 \in YMotion /\ 0 \in Nat
  /\ MaxLives \in 1 .. MaxLives
BY BallAssumption DEF XMotion, YMotion

\* A reset establishes the invariant from any state.
LEMMA BallBeginInv ==
  ASSUME BallBegin
  PROVE  BallInv'
<1>1. Cardinality(Block) = NumBlocks
  BY WallSize
<1>2. BallTypeOK'
  BY BeginTypes DEF BallBegin, BallTypeOK, XMotion, YMotion
<1>3. ScoreTracksFallen'
  BY <1>1, BallAssumption DEF BallBegin, ScoreTracksFallen
<1>4. QED
  BY <1>2, <1>3 DEF BallBegin, BallInv, ParkedAtRest, BounceNeverOverwritten

\* So does the initial state.
LEMMA BallInitInv ==
  ASSUME BallInit
  PROVE  BallInv
<1>1. Cardinality(Block) = NumBlocks
  BY WallSize
<1>2. BallTypeOK
  BY BeginTypes DEF BallInit, BallTypeOK, XMotion, YMotion
<1>3. ScoreTracksFallen
  BY <1>1, BallAssumption DEF BallInit, ScoreTracksFallen
<1>4. QED
  BY <1>2, <1>3 DEF BallInit, BallInv, ParkedAtRest, BounceNeverOverwritten
------------------------------------------------------------------------------
(* Where the ball can be on the real screen.  The branch of the left wall     *)
(* goes before that of the top, and that of the top before that of the right  *)
(* wall, so that a corner lets the ball through one wall for a few ticks.     *)
(* What brings it back depends on the two blocks in those corners, and on a   *)
(* height that is always 2 modulo Ball_Y_Step: 452 is.                        *)

\* The parameters of ball.sv, and at most the rows of blocks of blocks.sv.
RealScreen ==
  /\ Ball_X_Start = 320 /\ Ball_Y_Start = 452
  /\ Ball_X_Min = 4 /\ Ball_X_Max = 635 /\ Ball_Y_Min = 4 /\ Ball_Y_Max = 475
  /\ Ball_X_Step = 2 /\ Ball_Y_Step = 3 /\ Ball_Size = 4 /\ Limit = 700
  /\ BarY = 460 /\ Bar_Sizey = 3
  /\ BlocksPerRow = 8 /\ PitchX = 80 /\ PitchY = 20
  /\ Block_SizeX = 39 /\ Block_SizeY = 10 /\ NumBlocks <= 32

Left == Neg(Ball_X_Step)
Up == Neg(Ball_Y_Step)
ColX(i) == 80 * (i % 8)
RowY(i) == 20 * (i \div 8)

\* A ball in flight is on the screen, or in one of two places just above it.
OnScreen ==
  /\ BallX \in 5 .. 640
  /\ BallY \in {1020, 1023} \/ (BallY \in 2 .. 473 /\ BallY % 3 = 2)
  /\ Ball_X_Motion \in {2, Left}
  /\ Ball_Y_Motion \in {0, 3, Up}
  /\ Ball_Y_Motion = 0 => BallY = 452

\* It has turned when it is nearest to the left wall.
LeftTurn == BallX <= 6 => Ball_X_Motion = 2

\* The corner where the branch of the left wall goes before that of the top.
TopCorner ==
  /\ BallY = 5 /\ Ball_Y_Motion = Up =>
       /\ Ball_X_Motion = 2
       /\ BallX \in 5 .. 10 \/ (BallX \in 13 .. 20 /\ 0 \notin Blocks)
  /\ BallY = 2 =>
       /\ Ball_X_Motion = 2
       /\ \/ Ball_Y_Motion = Up /\ BallX \in 7 .. 10
          \/ Ball_Y_Motion = 3 /\ BallX \in 11 .. 22 /\ (BallX >= 19 => 0 \notin Blocks)
  /\ BallY = 1023 =>
       /\ Ball_X_Motion = 2
       /\ \/ Ball_Y_Motion = Up /\ BallX \in 9 .. 12
          \/ Ball_Y_Motion = 3 /\ BallX \in 13 .. 16
  /\ BallY = 1020 => Ball_X_Motion = 2 /\ Ball_Y_Motion = 3 /\ BallX \in 11 .. 14

\* The corner where the branch of the top goes before that of the right wall.
RightTurn ==
  /\ BallX >= 633 /\ Ball_X_Motion = 2 =>
       /\ Ball_Y_Motion = 3 /\ BallY \in 5 .. 11 /\ BallX <= 638
       /\ BallX >= 635 => BallY >= 8
       /\ BallX >= 637 => BallY = 11
  /\ BallX >= 635 /\ Ball_X_Motion = Left =>
       /\ Ball_Y_Motion = 3 /\ BallY \in 14 .. 20
       /\ BallX >= 637 => BallY <= 17
       /\ BallX >= 639 => BallY = 14
  /\ BallX >= 637 => 7 \notin Blocks

\* The part of a block that no strip covers.
Inside(i) == BallX \in ColX(i) + 4 .. ColX(i) + 76 /\ BallY \in RowY(i) + 4 .. RowY(i) + 16

\* The ball's centre is never inside a block that stands.
BlocksAreHit == \A i \in Blocks : ~Inside(i)

Flight == ~Ball_Reset => OnScreen /\ LeftTurn /\ TopCorner /\ RightTurn
Parked == Ball_Reset => BallX \in 30 .. 609

FieldInv == BallInv /\ BlocksAreHit /\ Flight /\ Parked
------------------------------------------------------------------------------
\* The words for a step to the left and a step up.
LEMMA RealWords ==
  ASSUME RealScreen
  PROVE  /\ Left = 1022 /\ Up = 1021 /\ Neg(Ball_X_Step) = 1022 /\ Neg(Ball_Y_Step) = 1021
         /\ W = 1024 /\ Word = 0 .. 1023
BY DEF RealScreen, Left, Up, Neg, Sub, W, Word

\* The rows and columns of the wall.
LEMMA BlockPlaces ==
  ASSUME RealScreen, NEW i \in Block
  PROVE  /\ ColX(i) \in {0, 80, 160, 240, 320, 400, 480, 560} /\ RowY(i) \in {0, 20, 40, 60}
         /\ BlockX(i) = ColX(i) + 40 /\ BlockY(i) = RowY(i) + 10
         /\ RowY(i) = 0 /\ ColX(i) = 0 => i = 0
         /\ RowY(i) = 0 /\ ColX(i) = 560 => i = 7
<1>1. i \in Nat /\ i < 32
  BY BallAssumption DEF RealScreen, Block
<1>2. PICK c \in 0 .. 7, r \in 0 .. 3 : c = i % 8 /\ r = i \div 8 /\ i = 8 * r + c
  BY <1>1
<1>3. ColX(i) = 80 * c /\ RowY(i) = 20 * r
  BY <1>2 DEF ColX, RowY
<1>4. c \in {0, 1, 2, 3, 4, 5, 6, 7} /\ r \in {0, 1, 2, 3}
  OBVIOUS
<1>5. 80 * c \in {0, 80, 160, 240, 320, 400, 480, 560} /\ 20 * r \in {0, 20, 40, 60}
  BY <1>4
<1>6. 80 \div 2 = 40 /\ 20 \div 2 = 10
  OBVIOUS
<1>7. BlockX(i) = c * 80 + 40 /\ BlockY(i) = r * 20 + 10
  BY <1>2, <1>6 DEF RealScreen, BlockX, BlockY
<1>8. 80 * c = 0 => c = 0
  OBVIOUS
<1>9. 80 * c = 560 => c = 7
  OBVIOUS
<1>10. 20 * r = 0 => r = 0
  OBVIOUS
<1> QED
  BY <1>2, <1>3, <1>5, <1>7, <1>8, <1>9, <1>10

\* Where a block is and where its strips are.
LEMMA StripsAre ==
  ASSUME RealScreen, NEW i \in Block, BallX \in Word, BallY \in Word
  PROVE  /\ WithinX(i) <=> BallX \in ColX(i) + 1 .. ColX(i) + 79
         /\ WithinY(i) <=> BallY \in RowY(i) .. RowY(i) + 20
         /\ BottomStrip(i) <=> WithinX(i) /\ BallY \in RowY(i) + 17 .. RowY(i) + 20
         /\ TopStrip(i) <=> WithinX(i) /\ BallY \in RowY(i) .. RowY(i) + 3
         /\ LeftStrip(i) <=> WithinY(i) /\ BallX \in ColX(i) + 1 .. ColX(i) + 3
         /\ RightStrip(i) <=> WithinY(i) /\ BallX \in ColX(i) + 77 .. ColX(i) + 79
<1>1. PICK a \in 0 .. 560, b \in 0 .. 60 :
        a = ColX(i) /\ b = RowY(i) /\ BlockX(i) = a + 40 /\ BlockY(i) = b + 10
  <2>1. ColX(i) \in 0 .. 560 /\ RowY(i) \in 0 .. 60
    BY BlockPlaces
  <2>2. BlockX(i) = ColX(i) + 40 /\ BlockY(i) = RowY(i) + 10
    BY BlockPlaces
  <2> QED
    BY <2>1, <2>2
<1>2. BallX \in Int /\ BallY \in Int
  BY DEF Word
<1>3. /\ Add(a + 40, 39) = a + 79 /\ Sub(a + 40, 39) = a + 1
      /\ Add(b + 10, 10) = b + 20 /\ Sub(b + 10, 10) = b
      /\ Sub(b + 20, 3) = b + 17 /\ Add(b, 3) = b + 3
      /\ Sub(a + 79, 2) = a + 77 /\ Add(a + 1, 2) = a + 3
  BY DEF Add, Sub, W
<1>4. WithinX(i) <=> BallX \in a + 1 .. a + 79
  BY <1>1, <1>2, <1>3 DEF WithinX, RealScreen
<1>5. WithinY(i) <=> BallY \in b .. b + 20
  BY <1>1, <1>2, <1>3 DEF WithinY, RealScreen
<1>6. BottomStrip(i) <=> WithinX(i) /\ BallY \in b + 17 .. b + 20
  BY <1>1, <1>2, <1>3 DEF BottomStrip, RealScreen
<1>7. TopStrip(i) <=> WithinX(i) /\ BallY \in b .. b + 3
  BY <1>1, <1>2, <1>3 DEF TopStrip, RealScreen
<1>8. LeftStrip(i) <=> WithinY(i) /\ BallX \in a + 1 .. a + 3
  BY <1>1, <1>2, <1>3 DEF LeftStrip, RealScreen
<1>9. RightStrip(i) <=> WithinY(i) /\ BallX \in a + 77 .. a + 79
  BY <1>1, <1>2, <1>3 DEF RightStrip, RealScreen
<1> QED
  BY <1>1, <1>4, <1>5, <1>6, <1>7, <1>8, <1>9

\* Which blocks can be hit from where.
LEMMA HitsAre ==
  ASSUME RealScreen, BallTypeOK
  PROVE  /\ BallY \in 4 .. 16 => YHits = {}
         /\ BallX \in 4 .. 76 \/ BallX \in 564 .. 636 => XHits = {}
         /\ BallY >= 81 => Hits = {} /\ XHits = {} /\ YHits = {}
         /\ BallY <= 19 /\ BallX <= 79 => Hits \subseteq {0}
         /\ BallY <= 19 /\ BallX >= 561 => Hits \subseteq {7}
<1>1. BallX \in Word /\ BallY \in Word /\ Blocks \subseteq Block /\ BallX \in Int /\ BallY \in Int
  BY DEF BallTypeOK, Word
<1>2. ASSUME NEW i \in Blocks
      PROVE  /\ BallY \in 4 .. 16 => ~HitY(i)
             /\ BallX \in 4 .. 76 \/ BallX \in 564 .. 636 => ~HitX(i)
             /\ BallY >= 81 => ~HitX(i) /\ ~HitY(i)
             /\ BallY <= 19 /\ BallX <= 79 /\ (HitX(i) \/ HitY(i)) => i = 0
             /\ BallY <= 19 /\ BallX >= 561 /\ (HitX(i) \/ HitY(i)) => i = 7
  <2>1. PICK c \in {0, 80, 160, 240, 320, 400, 480, 560}, r \in {0, 20, 40, 60} :
          /\ c = ColX(i) /\ r = RowY(i)
          /\ r = 0 /\ c = 0 => i = 0
          /\ r = 0 /\ c = 560 => i = 7
    BY <1>1, BlockPlaces
  <2>2. /\ WithinX(i) <=> BallX \in c + 1 .. c + 79
        /\ WithinY(i) <=> BallY \in r .. r + 20
        /\ BottomStrip(i) <=> WithinX(i) /\ BallY \in r + 17 .. r + 20
        /\ TopStrip(i) <=> WithinX(i) /\ BallY \in r .. r + 3
        /\ LeftStrip(i) <=> WithinY(i) /\ BallX \in c + 1 .. c + 3
        /\ RightStrip(i) <=> WithinY(i) /\ BallX \in c + 77 .. c + 79
    BY <1>1, <2>1, StripsAre
  <2>3. HitY(i) <=> WithinX(i) /\ (BallY \in r + 17 .. r + 20 \/ BallY \in r .. r + 3)
    BY <2>2 DEF HitY
  <2>4. HitX(i) => WithinY(i) /\ (BallX \in c + 1 .. c + 3 \/ BallX \in c + 77 .. c + 79)
    BY <2>2 DEF HitX
  <2>5. BallY \in 4 .. 16 => ~HitY(i)
    BY <1>1, <2>1, <2>3
  <2>6. BallX \in 4 .. 76 \/ BallX \in 564 .. 636 => ~HitX(i)
    BY <1>1, <2>1, <2>4
  <2>7. BallY >= 81 => ~HitX(i) /\ ~HitY(i)
    BY <1>1, <2>1, <2>2, <2>3, <2>4
  <2>8. HitX(i) \/ HitY(i) => BallY \in r .. r + 20 /\ BallX \in c + 1 .. c + 79
    BY <1>1, <2>1, <2>2, <2>3, <2>4
  <2>9. BallY <= 19 /\ BallX <= 79 /\ (HitX(i) \/ HitY(i)) => i = 0
    BY <1>1, <2>1, <2>8
  <2>10. BallY <= 19 /\ BallX >= 561 /\ (HitX(i) \/ HitY(i)) => i = 7
    BY <1>1, <2>1, <2>8
  <2> QED
    BY <2>5, <2>6, <2>7, <2>9, <2>10
<1>3. BallY \in 4 .. 16 => YHits = {}
  BY <1>2 DEF YHits
<1>4. BallX \in 4 .. 76 \/ BallX \in 564 .. 636 => XHits = {}
  BY <1>2 DEF XHits
<1>5. BallY >= 81 => Hits = {} /\ XHits = {} /\ YHits = {}
  BY <1>2 DEF XHits, YHits, Hits
<1>6. /\ BallY <= 19 /\ BallX <= 79 => Hits \subseteq {0}
      /\ BallY <= 19 /\ BallX >= 561 => Hits \subseteq {7}
  BY <1>2 DEF XHits, YHits, Hits
<1> QED
  BY <1>3, <1>4, <1>5, <1>6

\* The last block of the first row has fallen when the ball is inside it.
LEMMA CornerBlockGone ==
  ASSUME BlocksAreHit, BallX \in 631 .. 636, BallY \in 5 .. 16
  PROVE  7 \notin Blocks
<1>1. ColX(7) = 560 /\ RowY(7) = 0
  BY DEF ColX, RowY
<1> QED
  BY <1>1 DEF BlocksAreHit, Inside

\* At the top of the screen only an upper face can be hit.
LEMMA TopHits ==
  ASSUME RealScreen, BallTypeOK, BallY <= 16, NEW i \in Blocks
  PROVE  ~BottomStrip(i)
<1>1. BallX \in Word /\ BallY \in Word /\ i \in Block /\ BallY \in Int
  BY DEF BallTypeOK, Word
<1>2. PICK r \in {0, 20, 40, 60} : r = RowY(i)
  BY <1>1, BlockPlaces
<1>3. BottomStrip(i) => BallY \in r + 17 .. r + 20
  BY <1>1, <1>2, StripsAre
<1> QED
  BY <1>1, <1>2, <1>3

\* Where the next step of a ball in flight leads.
LEMMA Steps ==
  ASSUME RealScreen, BallTypeOK, OnScreen
  PROVE  /\ Ball_X_Motion = 2 => Add(BallX, Ball_X_Motion) = BallX + 2
         /\ Ball_X_Motion = Left => Add(BallX, Ball_X_Motion) = BallX - 2
         /\ Ball_Y_Motion = 0 => Add(BallY, Ball_Y_Motion) = BallY
         /\ Ball_Y_Motion = 3 =>
              Add(BallY, Ball_Y_Motion) = IF BallY = 1023 THEN 2 ELSE BallY + 3
         /\ Ball_Y_Motion = Up =>
              Add(BallY, Ball_Y_Motion) = IF BallY = 2 THEN 1023 ELSE BallY - 3
<1>1. BallX \in Int /\ BallY \in Int
  BY DEF BallTypeOK, Word
<1>2. BallX \in 5 .. 640 /\ (BallY \in {1020, 1023} \/ (BallY \in 2 .. 473 /\ BallY % 3 = 2))
  BY DEF OnScreen
<1>3. Left = 1022 /\ Up = 1021
  BY RealWords
<1>4. Add(BallX, 2) = BallX + 2 /\ Add(BallX, 1022) = BallX - 2
  BY <1>1, <1>2 DEF Add, W
<1>5. Add(BallY, 0) = BallY
  BY <1>1, <1>2 DEF Add, W
<1>6. Add(BallY, 3) = IF BallY = 1023 THEN 2 ELSE BallY + 3
  BY <1>1, <1>2 DEF Add, W
<1>7. Add(BallY, 1021) = IF BallY = 2 THEN 1023 ELSE BallY - 3
  BY <1>1, <1>2 DEF Add, W
<1> QED
  BY <1>3, <1>4, <1>5, <1>6, <1>7

\* The conditions of the chain, for a ball in flight on the real screen.
LEMMA Conditions ==
  ASSUME RealScreen, BallTypeOK, OnScreen, NEW barX
  PROVE  /\ AtLeft <=> BallX <= 8
         /\ AtTop <=> BallY \in {5, 8, 1020, 1023}
         /\ AtRight <=> BallX >= 631
         /\ AtBottom <=> BallY = 473
         /\ OnBar(barX) => BallY >= 453 /\ BallY <= 473
<1>1. BallX \in Int /\ BallY \in Int
  BY DEF BallTypeOK, Word
<1>2. BallX \in 5 .. 640 /\ (BallY \in {1020, 1023} \/ (BallY \in 2 .. 473 /\ BallY % 3 = 2))
  BY DEF OnScreen
<1>3. AtLeft <=> BallX <= 8
  BY <1>1, <1>2 DEF AtLeft, RealScreen, Sub, W
<1>4. AtTop <=> BallY \in {5, 8, 1020, 1023}
  BY <1>1, <1>2 DEF AtTop, RealScreen, Sub, W
<1>5. AtRight <=> BallX >= 631
  BY <1>1, <1>2 DEF AtRight, RealScreen, Add, W
<1>6. AtBottom <=> BallY = 473
  BY <1>1, <1>2 DEF AtBottom, RealScreen, Add, W
<1>7. Sub(460, 3) = 457
  BY DEF Sub
<1>8. OnBar(barX) => BallY >= 453 /\ BallY <= 473
  <2>1. OnBar(barX) => Add(BallY, 4) >= 457
    BY <1>7 DEF OnBar, RealScreen
  <2> QED
    BY <1>1, <1>2, <2>1 DEF Add, W
<1> QED
  BY <1>3, <1>4, <1>5, <1>6, <1>8

\* What the chain makes of the motion of a ball in flight.
Chain(xMotion, yMotion) ==
  /\ xMotion \in {2, Left} /\ yMotion \in {Ball_Y_Motion, 3, Up}
  /\ BallX <= 8 => xMotion = 2
  /\ BallX > 8 /\ AtTop => xMotion = Ball_X_Motion /\ yMotion = 3
  /\ BallX >= 631 /\ ~AtTop => xMotion = Left
  /\ BallX \in 9 .. 630 /\ BallY < 453 => xMotion = Ball_X_Motion
  /\ (BallX <= 8 \/ ~AtTop) /\ BallY < 453 => yMotion = Ball_Y_Motion

\* A tick that carries the ball along its motion, and what it makes of the motion.
Glide ==
  /\ BallX' = Add(BallX, Ball_X_Motion) /\ BallY' = Add(BallY, Ball_Y_Motion)
  /\ Blocks' = Blocks \ Hits /\ Ball_Reset' = FALSE
  /\ Ball_X_Motion' \in {2, Left} /\ Ball_Y_Motion' \in {Ball_Y_Motion, 3, Up}

TurnX ==
  XHits = {} =>
    /\ BallX <= 8 => Ball_X_Motion' = 2
    /\ BallX > 8 /\ AtTop => Ball_X_Motion' = Ball_X_Motion
    /\ BallX >= 631 /\ ~AtTop => Ball_X_Motion' = Left
    /\ BallX \in 9 .. 630 /\ BallY < 453 => Ball_X_Motion' = Ball_X_Motion

TurnY ==
  /\ YHits = {} =>
       /\ BallX > 8 /\ AtTop => Ball_Y_Motion' = 3
       /\ (BallX <= 8 \/ ~AtTop) /\ BallY < 453 => Ball_Y_Motion' = Ball_Y_Motion
  /\ BallY <= 3 /\ BallX <= 79 => Ball_Y_Motion' \in {Ball_Y_Motion, Up}

\* Every branch of the chain is as Chain says.
LEMMA ChainOf ==
  ASSUME RealScreen, BallTypeOK, OnScreen, NEW barX \in Word, NEW xMotion, NEW yMotion,
         \/ AtLeft /\ xMotion = Ball_X_Step /\ yMotion = Ball_Y_Motion
         \/ ~AtLeft /\ AtTop /\ xMotion = Ball_X_Motion /\ yMotion = Ball_Y_Step
         \/ ~AtLeft /\ ~AtTop /\ AtRight /\ xMotion = Neg(Ball_X_Step) /\ yMotion = Ball_Y_Motion
         \/ /\ ~AtLeft /\ ~AtTop /\ ~AtRight /\ OnBar(barX)
            /\ xMotion \in {Ball_X_Step, Neg(Ball_X_Step)} /\ yMotion = Neg(Ball_Y_Step)
         \/ ~AtLeft /\ ~AtTop /\ ~AtRight /\ xMotion = Ball_X_Motion /\ yMotion = Ball_Y_Motion
  PROVE  Chain(xMotion, yMotion)
<1>1. /\ AtLeft <=> BallX <= 8
      /\ AtRight <=> BallX >= 631
      /\ OnBar(barX) => BallY >= 453
  BY Conditions
<1>2. BallX \in 5 .. 640 /\ Ball_X_Motion \in {2, Left} /\ BallY \in Int
  BY DEF OnScreen, BallTypeOK, Word
<1>3. Neg(Ball_X_Step) = Left /\ Neg(Ball_Y_Step) = Up /\ Ball_X_Step = 2 /\ Ball_Y_Step = 3
  BY RealWords DEF RealScreen
<1>4. AtLeft => ~(BallX > 8)
  BY <1>1, <1>2
<1>5. AtTop => BallY < 453 \/ BallY >= 1020
  BY <1>2, Conditions
<1> QED
  BY <1>1, <1>2, <1>3, <1>4 DEF Chain

\* What the last part of the tick leaves of it.
LEMMA SteerOf ==
  ASSUME RealScreen, BallInv, OnScreen, ~Ball_Reset, NEW xMotion, NEW yMotion,
         Chain(xMotion, yMotion), Steer(xMotion, yMotion)
  PROVE  /\ Ball_X_Motion' \in {2, Left} /\ Ball_Y_Motion' \in {Ball_Y_Motion, 3, Up}
         /\ TurnX /\ TurnY
<1>1. Neg(Ball_X_Step) = Left /\ Neg(Ball_Y_Step) = Up /\ Ball_X_Step = 2 /\ Ball_Y_Step = 3
  BY RealWords DEF RealScreen
<1>2. ~moved => ~AtTop /\ YHits = {}
  BY DEF BallInv, BounceNeverOverwritten, Hits
<1>3. TurnX
  BY <1>1 DEF Steer, Chain, TurnX
<1>4. Ball_X_Motion' \in {2, Left} /\ Ball_Y_Motion' \in {Ball_Y_Motion, 3, Up}
  BY <1>1 DEF Steer, Chain
<1>5. CASE ~moved
  <2>1. Ball_Y_Motion' = Ball_Y_Motion
    BY <1>5 DEF Steer
  <2> QED
    BY <1>2, <1>3, <1>4, <1>5, <2>1 DEF TurnY
<1>6. CASE moved /\ YHits = {}
  <2>1. Ball_Y_Motion' = yMotion
    BY <1>6 DEF Steer
  <2>2. BallY <= 3 => ~AtTop /\ BallY < 453
    BY Conditions DEF BallInv, BallTypeOK, Word
  <2> QED
    BY <1>3, <1>4, <1>6, <2>1, <2>2 DEF TurnY, Chain
<1>7. CASE moved /\ YHits # {}
  <2>1. Ball_Y_Motion' = IF BottomStrip(Last(YHits)) THEN 3 ELSE Up
    BY <1>1, <1>7 DEF Steer
  <2>2. ASSUME BallY <= 3, BallX <= 79
        PROVE  ~BottomStrip(Last(YHits))
    <3>1. BallY <= 19 /\ BallY <= 16
      BY <2>2 DEF BallInv, BallTypeOK, Word
    <3>2. YHits = {0} /\ 0 \in Blocks
      BY <1>7, <2>2, <3>1, HitsAre DEF BallInv, Hits, YHits
    <3>3. Last({0}) = 0
      BY DEF Last
    <3> QED
      BY <3>1, <3>2, <3>3, TopHits DEF BallInv
  <2> QED
    BY <1>3, <1>4, <1>7, <2>1, <2>2 DEF TurnY
<1> QED
  BY <1>5, <1>6, <1>7

\* A tick of a ball in flight that is not lost.
LEMMA FlightTick ==
  ASSUME RealScreen, BallInv, OnScreen, NEW barX \in Word, NEW keycode, NEW start_menu,
         ~Ball_Reset, ~AtBottom, BallTick(barX, keycode, start_menu)
  PROVE  \/ UNCHANGED <<BallX, BallY, Ball_X_Motion, Ball_Y_Motion, Ball_Reset, Blocks>>
         \/ Glide /\ TurnX /\ TurnY
<1>1. BallTypeOK /\ Ball_Reset = FALSE
  BY DEF BallInv, BallTypeOK
<1>2. ASSUME NEW xm, NEW ym, Chain(xm, ym), Bounce(xm, ym)
      PROVE  Glide /\ TurnX /\ TurnY
  <2>1. Steer(xm, ym) /\ Follow /\ BreakBlocks /\ Ball_Reset' = FALSE
    BY <1>1, <1>2 DEF Bounce
  <2>2. /\ Ball_X_Motion' \in {2, Left} /\ Ball_Y_Motion' \in {Ball_Y_Motion, 3, Up}
        /\ TurnX /\ TurnY
    BY <1>2, <2>1, SteerOf
  <2>3. BallX' = Add(BallX, Ball_X_Motion) /\ BallY' = Add(BallY, Ball_Y_Motion)
    BY <2>1 DEF Follow, Place
  <2> QED
    BY <2>1, <2>2, <2>3 DEF Glide, BreakBlocks
<1>3. CASE BounceLeft
  BY <1>1, <1>2, <1>3, ChainOf DEF BounceLeft
<1>4. CASE BounceTop
  BY <1>1, <1>2, <1>4, ChainOf DEF BounceTop
<1>5. CASE BounceRight
  BY <1>1, <1>2, <1>5, ChainOf DEF BounceRight
<1>6. CASE BounceBar(barX)
  <2>1. PICK xm : /\ xm \in {Ball_X_Step, Neg(Ball_X_Step)}
                  /\ Bounce(xm, Neg(Ball_Y_Step))
    BY <1>6 DEF BounceBar
  <2> QED
    BY <1>1, <1>2, <1>6, <2>1, ChainOf DEF BounceBar
<1>7. CASE Fly(barX)
  <2>1. Chain(Ball_X_Motion, Ball_Y_Motion)
    BY <1>1, <1>7, ChainOf DEF Fly
  <2>2. /\ Ball_X_Motion' \in {2, Left} /\ Ball_Y_Motion' \in {Ball_Y_Motion, 3, Up}
        /\ TurnX /\ TurnY
    BY <1>7, <2>1, SteerOf DEF Fly
  <2>3. CASE Carried
    <3>1. BallX' = Add(BallX, Ball_X_Motion) /\ BallY' = Add(BallY, Ball_Y_Motion)
      BY <1>7, <2>3 DEF Fly, Place
    <3> QED
      BY <1>1, <1>7, <2>2, <3>1 DEF Fly, BreakBlocks, Glide
  <2>4. CASE ~Carried
    <3>1. BallX' = BallX /\ BallY' = BallY
      BY <1>7, <2>4 DEF Fly, Place
    <3>2. Hits = {} /\ XHits = {} /\ YHits = {}
      BY <2>4 DEF Carried, Hits
    <3>3. Ball_X_Motion' = Ball_X_Motion /\ Ball_Y_Motion' = Ball_Y_Motion
      BY <1>7, <3>2 DEF Fly, Steer
    <3>4. Blocks' = Blocks
      BY <1>7, <3>2 DEF Fly, BreakBlocks
    <3> QED
      BY <1>1, <1>7, <3>1, <3>3, <3>4 DEF Fly
  <2> QED
    BY <2>3, <2>4
<1> QED
  BY <1>1, <1>3, <1>4, <1>5, <1>6, <1>7
     DEF BallTick, LoseLife, Launch, Park

\* The ball does not get inside a block: it is hit on the way.
LEMMA GlideHits ==
  ASSUME RealScreen, BallTypeOK, OnScreen, BlocksAreHit, Glide
  PROVE  BlocksAreHit'
<1> SUFFICES ASSUME NEW i \in Blocks', Inside(i)' PROVE FALSE
  BY DEF BlocksAreHit
<1>1. i \in Blocks /\ i \in Block /\ ~HitX(i) /\ ~HitY(i) /\ ~Inside(i)
  BY DEF Glide, Hits, XHits, YHits, BlocksAreHit, BallTypeOK
<1>2. PICK c \in {0, 80, 160, 240, 320, 400, 480, 560}, r \in {0, 20, 40, 60} :
        c = ColX(i) /\ r = RowY(i)
  BY <1>1, BlockPlaces
<1>3. BallX \in Int /\ BallY \in Int /\ BallX \in Word /\ BallY \in Word
  BY DEF BallTypeOK, Word
<1>4. /\ WithinX(i) <=> BallX \in c + 1 .. c + 79
      /\ WithinY(i) <=> BallY \in r .. r + 20
      /\ BottomStrip(i) <=> WithinX(i) /\ BallY \in r + 17 .. r + 20
      /\ TopStrip(i) <=> WithinX(i) /\ BallY \in r .. r + 3
      /\ LeftStrip(i) <=> WithinY(i) /\ BallX \in c + 1 .. c + 3
      /\ RightStrip(i) <=> WithinY(i) /\ BallX \in c + 77 .. c + 79
  BY <1>1, <1>2, <1>3, StripsAre
<1>5. ~(BallX \in c + 1 .. c + 79 /\ BallY \in r .. r + 20)
  <2>1. SUFFICES ASSUME BallX \in c + 1 .. c + 79, BallY \in r .. r + 20 PROVE FALSE
    OBVIOUS
  <2>2. BallY \in r + 4 .. r + 16
    BY <1>1, <1>2, <1>3, <1>4, <2>1 DEF HitY
  <2>3. BallX \in c + 4 .. c + 76
    BY <1>1, <1>2, <1>3, <1>4, <2>1 DEF HitX
  <2> QED
    BY <1>1, <1>2, <2>2, <2>3 DEF Inside
<1>6. BallX' \in c + 4 .. c + 76 /\ BallY' \in r + 4 .. r + 16
  BY <1>2 DEF Inside, ColX, RowY
<1>7. BallX \in c + 2 .. c + 78
  <2>1. BallX' = BallX + 2 \/ BallX' = BallX - 2
    BY Steps DEF Glide, OnScreen
  <2> QED
    BY <1>2, <1>3, <1>6, <2>1
<1>8. BallY \in r + 1 .. r + 19
  <2>1. BallY' \in {2, 1023, BallY, BallY + 3, BallY - 3}
    BY Steps DEF Glide, OnScreen
  <2> QED
    BY <1>2, <1>3, <1>6, <2>1
<1> QED
  BY <1>2, <1>3, <1>5, <1>7, <1>8

\* A glide in numbers.
LEMMA GlideMoves ==
  ASSUME RealScreen, BallTypeOK, OnScreen, Glide
  PROVE  /\ BallX \in 5 .. 640 /\ BallX \in Int /\ BallY \in Int
         /\ BallY \in {1020, 1023} \/ (BallY \in 2 .. 473 /\ BallY % 3 = 2)
         /\ Left = 1022 /\ Up = 1021
         /\ Ball_X_Motion \in {2, 1022} /\ Ball_Y_Motion \in {0, 3, 1021}
         /\ Ball_X_Motion' \in {2, 1022} /\ Ball_Y_Motion' \in {Ball_Y_Motion, 3, 1021}
         /\ Ball_X_Motion = 2 => BallX' = BallX + 2
         /\ Ball_X_Motion = 1022 => BallX' = BallX - 2
         /\ Ball_Y_Motion = 0 => BallY' = BallY
         /\ Ball_Y_Motion = 3 => BallY' = IF BallY = 1023 THEN 2 ELSE BallY + 3
         /\ Ball_Y_Motion = 1021 => BallY' = IF BallY = 2 THEN 1023 ELSE BallY - 3
         /\ AtTop <=> BallY \in {5, 8, 1020, 1023}
<1>1. Left = 1022 /\ Up = 1021
  BY RealWords
<1>2. BallX \in Int /\ BallY \in Int
  BY DEF BallTypeOK, Word
<1> QED
  BY <1>1, <1>2, Steps, Conditions DEF Glide, OnScreen

\* It comes back from either wall.
LEMMA GlideOnScreen ==
  ASSUME RealScreen, BallTypeOK, OnScreen, LeftTurn, TopCorner, RightTurn,
         ~AtBottom, Glide, TurnX, TurnY
  PROVE  OnScreen' /\ LeftTurn'
<1>1. /\ BallX \in 5 .. 640 /\ BallX \in Int /\ BallY \in Int
      /\ BallY \in {1020, 1023} \/ (BallY \in 2 .. 473 /\ BallY % 3 = 2)
      /\ Ball_X_Motion \in {2, 1022} /\ Ball_Y_Motion \in {0, 3, 1021}
      /\ Ball_X_Motion' \in {2, 1022} /\ Ball_Y_Motion' \in {Ball_Y_Motion, 3, 1021}
      /\ Ball_X_Motion = 2 => BallX' = BallX + 2
      /\ Ball_X_Motion = 1022 => BallX' = BallX - 2
      /\ Ball_Y_Motion = 0 => BallY' = BallY
      /\ Ball_Y_Motion = 3 => BallY' = IF BallY = 1023 THEN 2 ELSE BallY + 3
      /\ Ball_Y_Motion = 1021 => BallY' = IF BallY = 2 THEN 1023 ELSE BallY - 3
  BY GlideMoves
<1>2. Left = 1022 /\ Up = 1021
  BY RealWords
<1>3. Ball_Y_Motion = 0 => BallY = 452
  BY DEF OnScreen
<1>4. BallY \in {1020, 1023} \/ (BallY \in 2 .. 470 /\ BallY % 3 = 2)
  BY <1>1, Conditions
<1>5. /\ BallY = 1020 => Ball_Y_Motion = 3
      /\ BallX <= 6 => Ball_X_Motion = 2
      /\ BallX >= 639 => Ball_X_Motion = 1022
  BY <1>1, <1>2 DEF TopCorner, LeftTurn, RightTurn
<1>6. BallX' \in 5 .. 640
  BY <1>1, <1>5
<1>7. BallY' \in {1020, 1023} \/ (BallY' \in 2 .. 473 /\ BallY' % 3 = 2)
  BY <1>1, <1>3, <1>4, <1>5
<1>8. Ball_X_Motion' \in {2, Left} /\ Ball_Y_Motion' \in {0, 3, Up}
  BY <1>1, <1>2
<1>9. Ball_Y_Motion' = 0 => BallY' = 452
  BY <1>1, <1>3
<1>10. OnScreen'
  BY <1>6, <1>7, <1>8, <1>9 DEF OnScreen, Left, Up
<1>11. BallX' <= 6 => Ball_X_Motion' = 2
  <2>1. BallX' <= 6 => BallX \in 4 .. 76 /\ BallX <= 8
    BY <1>1
  <2> QED
    BY <2>1, HitsAre DEF TurnX
<1> QED
  BY <1>10, <1>11 DEF LeftTurn

\* In the left corner one of two things is always under way: out through the top, or back.
LEMMA GlideTopCorner ==
  ASSUME RealScreen, BallTypeOK, OnScreen, LeftTurn, TopCorner,
         ~AtBottom, Glide, TurnX, TurnY
  PROVE  TopCorner'
<1>1. /\ BallX \in 5 .. 640 /\ BallX \in Int /\ BallY \in Int
      /\ BallY \in {1020, 1023} \/ (BallY \in 2 .. 473 /\ BallY % 3 = 2)
      /\ Ball_X_Motion \in {2, 1022} /\ Ball_Y_Motion \in {0, 3, 1021}
      /\ Ball_X_Motion' \in {2, 1022} /\ Ball_Y_Motion' \in {Ball_Y_Motion, 3, 1021}
      /\ Ball_X_Motion = 2 => BallX' = BallX + 2
      /\ Ball_X_Motion = 1022 => BallX' = BallX - 2
      /\ Ball_Y_Motion = 0 => BallY' = BallY
      /\ Ball_Y_Motion = 3 => BallY' = IF BallY = 1023 THEN 2 ELSE BallY + 3
      /\ Ball_Y_Motion = 1021 => BallY' = IF BallY = 2 THEN 1023 ELSE BallY - 3
      /\ AtTop <=> BallY \in {5, 8, 1020, 1023}
  BY GlideMoves
<1>2. Left = 1022 /\ Up = 1021
  BY RealWords
<1>3. Ball_Y_Motion = 0 => BallY = 452
  BY DEF OnScreen
<1>4. /\ BallY \in {5, 8, 1020, 1023} => YHits = {}
      /\ BallX \in 4 .. 76 => XHits = {}
      /\ BallY <= 19 /\ BallX <= 79 => Hits \subseteq {0}
  BY <1>1, HitsAre
<1>5. /\ BallX <= 76 /\ BallX <= 8 => Ball_X_Motion' = 2
      /\ BallX <= 76 /\ BallX > 8 /\ BallY < 453 => Ball_X_Motion' = Ball_X_Motion
      /\ BallX <= 76 /\ BallX > 8 /\ AtTop => Ball_X_Motion' = Ball_X_Motion
  BY <1>1, <1>4 DEF TurnX
<1>6. /\ BallX > 8 /\ AtTop => Ball_Y_Motion' = 3
      /\ BallX <= 8 /\ BallY = 5 => Ball_Y_Motion' = Ball_Y_Motion
      /\ BallY <= 3 /\ BallX <= 79 => Ball_Y_Motion' \in {Ball_Y_Motion, 1021}
  BY <1>1, <1>2, <1>4 DEF TurnY
\* What the corner was like before.
<1>7. /\ BallX <= 6 => Ball_X_Motion = 2
      /\ BallY = 5 /\ Ball_Y_Motion = 1021 =>
           /\ Ball_X_Motion = 2
           /\ BallX \in 5 .. 10 \/ (BallX \in 13 .. 20 /\ 0 \notin Blocks)
      /\ BallY = 2 =>
           /\ Ball_X_Motion = 2
           /\ \/ Ball_Y_Motion = 1021 /\ BallX \in 7 .. 10
              \/ Ball_Y_Motion = 3 /\ BallX \in 11 .. 22 /\ (BallX >= 19 => 0 \notin Blocks)
      /\ BallY = 1023 =>
           /\ Ball_X_Motion = 2
           /\ \/ Ball_Y_Motion = 1021 /\ BallX \in 9 .. 12
              \/ Ball_Y_Motion = 3 /\ BallX \in 13 .. 16
      /\ BallY = 1020 => Ball_X_Motion = 2 /\ Ball_Y_Motion = 3 /\ BallX \in 11 .. 14
  BY <1>2 DEF TopCorner, LeftTurn
<1>8. 0 \notin Blocks => 0 \notin Blocks'
  BY DEF Glide
<1>9. ASSUME BallY' = 5, Ball_Y_Motion' = 1021
      PROVE  /\ Ball_X_Motion' = 2
             /\ BallX' \in 5 .. 10 \/ (BallX' \in 13 .. 20 /\ 0 \notin Blocks')
  <2>1. (BallY = 8 /\ Ball_Y_Motion = 1021) \/ (BallY = 2 /\ Ball_Y_Motion = 3)
    BY <1>1, <1>3, <1>9
  <2>2. CASE BallY = 8
    <3>1. BallX <= 8
      BY <1>1, <1>6, <1>9, <2>2
    <3> QED
      BY <1>1, <1>5, <1>7, <3>1
  <2>3. CASE BallY = 2 /\ Ball_Y_Motion = 3
    <3>1. Ball_X_Motion = 2 /\ BallX \in 11 .. 22 /\ (BallX >= 19 => 0 \notin Blocks)
      BY <1>7, <2>3
    <3>2. YHits # {}
      <4>1. ~AtTop /\ BallY < 453
        BY <1>1, <2>3
      <4> QED
        BY <1>9, <2>3, <4>1 DEF TurnY
    <3>3. 0 \in Hits /\ 0 \in Blocks
      BY <1>4, <2>3, <3>1, <3>2 DEF Hits, YHits
    <3>4. 0 \notin Blocks'
      BY <3>3 DEF Glide
    <3>5. BallX' \in 13 .. 20
      BY <1>1, <3>1, <3>3
    <3> QED
      BY <1>1, <1>5, <2>3, <3>1, <3>4, <3>5
  <2> QED
    BY <2>1, <2>2, <2>3
<1>10. ASSUME BallY' = 2
       PROVE  /\ Ball_X_Motion' = 2
              /\ \/ Ball_Y_Motion' = 1021 /\ BallX' \in 7 .. 10
                 \/ /\ Ball_Y_Motion' = 3 /\ BallX' \in 11 .. 22
                    /\ BallX' >= 19 => 0 \notin Blocks'
  <2>1. (BallY = 5 /\ Ball_Y_Motion = 1021) \/ (BallY = 1023 /\ Ball_Y_Motion = 3)
    BY <1>1, <1>3, <1>10
  <2>2. CASE BallY = 5 /\ Ball_Y_Motion = 1021
    <3>1. CASE BallX <= 8
      BY <1>1, <1>5, <1>6, <1>7, <2>2, <3>1
    <3>2. CASE BallX > 8
      BY <1>1, <1>5, <1>6, <1>7, <1>8, <2>2, <3>2
    <3> QED
      BY <1>1, <3>1, <3>2
  <2>3. CASE BallY = 1023 /\ Ball_Y_Motion = 3
    BY <1>1, <1>5, <1>6, <1>7, <2>3
  <2> QED
    BY <2>1, <2>2, <2>3
<1>11. ASSUME BallY' = 1023
       PROVE  /\ Ball_X_Motion' = 2
              /\ \/ Ball_Y_Motion' = 1021 /\ BallX' \in 9 .. 12
                 \/ Ball_Y_Motion' = 3 /\ BallX' \in 13 .. 16
  <2>1. (BallY = 2 /\ Ball_Y_Motion = 1021) \/ (BallY = 1020 /\ Ball_Y_Motion = 3)
    BY <1>1, <1>3, <1>11
  <2>2. CASE BallY = 2 /\ Ball_Y_Motion = 1021
    BY <1>1, <1>5, <1>6, <1>7, <2>2
  <2>3. CASE BallY = 1020 /\ Ball_Y_Motion = 3
    BY <1>1, <1>5, <1>6, <1>7, <2>3
  <2> QED
    BY <2>1, <2>2, <2>3
<1>12. ASSUME BallY' = 1020
       PROVE  Ball_X_Motion' = 2 /\ Ball_Y_Motion' = 3 /\ BallX' \in 11 .. 14
  <2>1. BallY = 1023 /\ Ball_Y_Motion = 1021
    BY <1>1, <1>3, <1>7, <1>12
  <2> QED
    BY <1>1, <1>5, <1>6, <1>7, <2>1
<1> QED
  BY <1>2, <1>9, <1>10, <1>11, <1>12 DEF TopCorner, Up

\* In the right corner the ball turns as soon as it has come down from the top.
LEMMA GlideRightTurn ==
  ASSUME RealScreen, BallTypeOK, OnScreen, BlocksAreHit, TopCorner, RightTurn,
         ~AtBottom, Glide, TurnX, TurnY
  PROVE  RightTurn'
<1>1. /\ BallX \in 5 .. 640 /\ BallX \in Int /\ BallY \in Int
      /\ BallY \in {1020, 1023} \/ (BallY \in 2 .. 473 /\ BallY % 3 = 2)
      /\ Ball_X_Motion \in {2, 1022} /\ Ball_Y_Motion \in {0, 3, 1021}
      /\ Ball_X_Motion' \in {2, 1022} /\ Ball_Y_Motion' \in {Ball_Y_Motion, 3, 1021}
      /\ Ball_X_Motion = 2 => BallX' = BallX + 2
      /\ Ball_X_Motion = 1022 => BallX' = BallX - 2
      /\ Ball_Y_Motion = 3 => BallY' = IF BallY = 1023 THEN 2 ELSE BallY + 3
      /\ Ball_Y_Motion = 1021 => BallY' = IF BallY = 2 THEN 1023 ELSE BallY - 3
      /\ AtTop <=> BallY \in {5, 8, 1020, 1023}
  BY GlideMoves
<1>2. Left = 1022 /\ Up = 1021
  BY RealWords
\* What the corner was like before.
<1>3. /\ BallX >= 633 /\ Ball_X_Motion = 2 =>
           /\ Ball_Y_Motion = 3 /\ BallY \in 5 .. 11 /\ BallX <= 638
           /\ BallX >= 635 => BallY >= 8
           /\ BallX >= 637 => BallY = 11
      /\ BallX >= 635 /\ Ball_X_Motion = 1022 =>
           /\ Ball_Y_Motion = 3 /\ BallY \in 14 .. 20
           /\ BallX >= 637 => BallY <= 17
           /\ BallX >= 639 => BallY = 14
      /\ BallX >= 637 => 7 \notin Blocks
      /\ Ball_Y_Motion = 0 => BallY = 452
      /\ BallX >= 631 => BallY \notin {2, 1020, 1023}
      /\ BallX >= 631 => ~(BallY = 5 /\ Ball_Y_Motion = 1021)
  BY <1>1, <1>2 DEF OnScreen, RightTurn, TopCorner
\* Nothing is hit here, so that the chain decides.
<1>4. BallX >= 631 => XHits = {}
  <2>1. CASE BallX <= 636
    BY <1>1, <2>1, HitsAre
  <2>2. CASE BallX >= 637
    <3>1. 7 \notin Blocks /\ BallY <= 20
      BY <1>1, <1>3, <2>2
    <3>2. BallY <= 19
      BY <1>1, <1>3, <2>2, <3>1
    <3>3. Hits \subseteq {7}
      BY <1>1, <2>2, <3>2, HitsAre
    <3> QED
      BY <3>1, <3>3 DEF Hits, XHits
  <2> QED
    BY <1>1, <2>1, <2>2
<1>5. (BallX >= 631 /\ BallY <= 16) \/ BallX >= 637 => YHits = {}
  <2>1. CASE BallY <= 16
    BY <1>1, <1>3, <2>1, HitsAre
  <2>2. CASE BallX >= 637
    <3>1. BallY <= 19 \/ BallY = 20
      BY <1>1, <1>3, <2>2
    <3>2. 7 \notin Blocks /\ BallY <= 19
      BY <1>1, <1>3, <2>2, <3>1
    <3> QED
      BY <1>1, <2>2, <3>2, HitsAre DEF Hits, YHits
  <2> QED
    BY <1>1, <1>3, <2>1, <2>2
<1>6. /\ BallX >= 631 /\ AtTop => Ball_X_Motion' = Ball_X_Motion /\ Ball_Y_Motion' = 3
      /\ BallX >= 631 /\ ~AtTop => Ball_X_Motion' = 1022
      /\ BallX >= 631 /\ BallY = 11 => Ball_Y_Motion' = Ball_Y_Motion
      /\ BallX >= 637 /\ BallY \in {14, 17} => Ball_Y_Motion' = Ball_Y_Motion
  <2>1. BallX >= 631 /\ AtTop => Ball_X_Motion' = Ball_X_Motion
    BY <1>1, <1>4 DEF TurnX
  <2>2. BallX >= 631 /\ AtTop => Ball_Y_Motion' = 3
    BY <1>1, <1>3, <1>5 DEF TurnY
  <2>3. BallX >= 631 /\ ~AtTop => Ball_X_Motion' = 1022
    BY <1>2, <1>4 DEF TurnX
  <2>4. /\ BallX >= 631 /\ BallY = 11 => Ball_Y_Motion' = Ball_Y_Motion
        /\ BallX >= 637 /\ BallY \in {14, 17} => Ball_Y_Motion' = Ball_Y_Motion
    BY <1>1, <1>5 DEF TurnY
  <2> QED
    BY <2>1, <2>2, <2>3, <2>4
<1>7. ASSUME BallX' >= 633, Ball_X_Motion' = 2
      PROVE  /\ Ball_Y_Motion' = 3 /\ BallY' \in 5 .. 11 /\ BallX' <= 638
             /\ BallX' >= 635 => BallY' >= 8
             /\ BallX' >= 637 => BallY' = 11
  <2>1. BallX >= 631
    BY <1>1, <1>7
  <2>2. AtTop /\ Ball_X_Motion = 2 /\ Ball_Y_Motion' = 3 /\ BallY \in {5, 8}
    BY <1>1, <1>3, <1>6, <1>7, <2>1
  <2>3. CASE BallX <= 632
    BY <1>1, <1>3, <1>7, <2>1, <2>2, <2>3
  <2>4. CASE BallX >= 633
    BY <1>1, <1>3, <1>7, <2>1, <2>2, <2>4
  <2> QED
    BY <1>1, <2>3, <2>4
<1>8. ASSUME BallX' >= 635, Ball_X_Motion' = 1022
      PROVE  /\ Ball_Y_Motion' = 3 /\ BallY' \in 14 .. 20
             /\ BallX' >= 637 => BallY' <= 17
             /\ BallX' >= 639 => BallY' = 14
  <2>1. BallX >= 633
    BY <1>1, <1>8
  <2>2. CASE Ball_X_Motion = 2
    <3>1. ~AtTop
      BY <1>1, <1>6, <1>8, <2>1, <2>2
    <3>2. BallY = 11 /\ Ball_Y_Motion = 3
      BY <1>1, <1>3, <2>1, <2>2, <3>1
    <3> QED
      BY <1>1, <1>3, <1>6, <2>1, <2>2, <3>2
  <2>3. CASE Ball_X_Motion = 1022
    <3>1. BallX >= 637
      BY <1>1, <1>8, <2>3
    <3>2. BallY \in {14, 17} /\ Ball_Y_Motion = 3
      BY <1>1, <1>3, <2>3, <3>1
    <3> QED
      BY <1>1, <1>3, <1>6, <2>1, <2>3, <3>1, <3>2
  <2> QED
    BY <1>1, <2>2, <2>3
<1>9. ASSUME BallX' >= 637
      PROVE  7 \notin Blocks'
  <2>1. 7 \notin Blocks
    <3>1. CASE BallX >= 637
      BY <1>3, <3>1
    <3>2. CASE BallX < 637
      <4>1. Ball_X_Motion = 2 /\ BallX \in 631 .. 636
        BY <1>1, <1>9, <3>2
      <4>2. BallY \in 5 .. 16
        BY <1>1, <1>3, <1>9, <4>1
      <4> QED
        BY <4>1, <4>2, CornerBlockGone
    <3> QED
      BY <1>1, <3>1, <3>2
  <2> QED
    BY <2>1 DEF Glide
<1> QED
  BY <1>2, <1>7, <1>8, <1>9 DEF RightTurn, Left
------------------------------------------------------------------------------
\* A tick that does not take the last life.
LEMMA FieldTick ==
  ASSUME RealScreen, FieldInv, NEW barX \in Word, barX \in 30 .. 609,
         NEW keycode \in Keycode, NEW start_menu \in BOOLEAN,
         ~LastLife, BallTick(barX, keycode, start_menu)
  PROVE  FieldInv'
<1>1. BallInv' /\ BallInv /\ BallTypeOK /\ BlocksAreHit
  BY BallTickInv DEF FieldInv, BallInv
<1>2. Hits = {} => Blocks' = Blocks
  BY DEF BallTick, LoseLife, Launch, Park, BounceLeft, BounceTop, BounceRight, BounceBar,
         Fly, Bounce, BreakBlocks
\* A ball at the height of the bar is clear of the wall.
<1>3. ASSUME BallY' = Ball_Y_Start, Blocks' \subseteq Blocks
      PROVE  BlocksAreHit'
  <2>1. \A i \in Block : RowY(i) <= 60
    BY BlockPlaces
  <2>2. BallY' = 452
    BY <1>3 DEF RealScreen
  <2>3. \A i \in Block : RowY(i) \in Int /\ RowY(i)' = RowY(i)
    BY BlockPlaces DEF RowY
  <2> QED
    BY <1>1, <1>3, <2>1, <2>2, <2>3 DEF BlocksAreHit, Inside, BallTypeOK
<1>4. CASE LoseLife(barX)
  <2>1. ~Ball_Reset /\ AtBottom /\ moved
    BY <1>1, <1>4 DEF LoseLife, BallInv, BallTypeOK, BounceNeverOverwritten
  <2>2. Hits = {}
    BY <1>1, <2>1, NoHitsBelow
  <2>3. BallX' = barX /\ BallY' = Ball_Y_Start /\ Ball_Reset' = TRUE
    BY <1>4, <2>1, <2>2 DEF LoseLife, Place, Carried
  <2> QED
    BY <1>1, <1>2, <1>3, <2>2, <2>3 DEF FieldInv, Flight, Parked
<1>5. CASE Park(barX, keycode, start_menu)
  <2>1. BallX' = IF moved THEN barX ELSE BallX
    BY <1>1, <1>5, ParkInv DEF Park
  <2>2. Ball_Reset /\ Ball_Reset'
    BY <1>5 DEF Park
  <2>3. Hits = {}
    BY <1>1, <2>2, NoHitsBelow DEF BallInv, ParkedAtRest
  <2>4. BallY' = Ball_Y_Start
    BY <1>1, <2>2 DEF BallInv, ParkedAtRest
  <2>5. BallX' \in 30 .. 609
    BY <2>1, <2>2 DEF FieldInv, Parked
  <2> QED
    BY <1>1, <1>2, <1>3, <2>2, <2>3, <2>4, <2>5 DEF FieldInv, Flight, Parked
<1>6. CASE Launch(keycode, start_menu)
  <2>1. Ball_Reset /\ Ball_Reset' = FALSE
    BY <1>6 DEF Launch
  <2>2. /\ BallY = Ball_Y_Start /\ Ball_X_Motion = 0 /\ Ball_Y_Motion = 0
        /\ BallX \in 30 .. 609
    BY <1>1, <2>1 DEF FieldInv, Parked, BallInv, ParkedAtRest
  <2>3. Hits = {} /\ XHits = {} /\ YHits = {}
    BY <1>1, <2>2, NoHitsBelow DEF Hits
  <2>4. BallX' = BallX /\ BallY' = BallY
    BY <1>1, <1>6, <2>2, MotionsAreWords DEF Launch, Follow, Place, BallTypeOK
  <2>5. Ball_X_Motion' = 2 /\ Ball_Y_Motion' \in {0, Up}
    BY <1>6, <2>2, <2>3, RealWords DEF Launch, Steer, RealScreen
  <2>6. BallX' \in 30 .. 609 /\ BallY' = 452 /\ 452 % 3 = 2
    BY <2>2, <2>4 DEF RealScreen
  <2>7. Up = 1021 /\ Left = 1022
    BY RealWords
  <2>8. OnScreen' /\ LeftTurn'
    BY <2>5, <2>6, <2>7 DEF OnScreen, LeftTurn, Up, Left
  <2>9. TopCorner' /\ RightTurn'
    BY <2>5, <2>6, <2>7 DEF TopCorner, RightTurn, Up, Left
  <2> QED
    BY <1>1, <1>2, <1>3, <2>1, <2>2, <2>3, <2>4, <2>8, <2>9 DEF FieldInv, Flight, Parked
<1>7. CASE ~Ball_Reset /\ ~AtBottom
  <2>1. OnScreen /\ LeftTurn /\ TopCorner /\ RightTurn
    BY <1>7 DEF FieldInv, Flight
  <2>2. CASE UNCHANGED <<BallX, BallY, Ball_X_Motion, Ball_Y_Motion, Ball_Reset, Blocks>>
    BY <1>1, <1>7, <2>1, <2>2
       DEF FieldInv, Flight, Parked, OnScreen, LeftTurn, TopCorner, RightTurn,
           BlocksAreHit, Inside, ColX, RowY, Left, Up
  <2>3. CASE Glide /\ TurnX /\ TurnY
    <3>1. OnScreen' /\ LeftTurn' /\ TopCorner' /\ RightTurn' /\ BlocksAreHit'
      BY <1>1, <1>7, <2>1, <2>3, GlideOnScreen, GlideTopCorner, GlideRightTurn, GlideHits
    <3> QED
      BY <1>1, <2>3, <3>1 DEF FieldInv, Flight, Parked, Glide
  <2> QED
    BY <1>1, <1>7, <2>1, <2>2, <2>3, FlightTick
<1> QED
  BY <1>4, <1>5, <1>6, <1>7
     DEF BallTick, BounceLeft, BounceTop, BounceRight, BounceBar, Fly, InFlight

\* A reset, and the start.
LEMMA FieldBegin ==
  ASSUME RealScreen
  PROVE  /\ BallInit => FieldInv
         /\ BallBegin => FieldInv'
<1>1. \A i \in Block : RowY(i) \in 0 .. 60
  BY BlockPlaces
<1>2. BallInit => FieldInv
  <2>1. SUFFICES ASSUME BallInit PROVE FieldInv
    OBVIOUS
  <2>2. BallX = 320 /\ BallY = 452 /\ Ball_Reset = TRUE /\ Blocks = Block
    BY <2>1 DEF BallInit, RealScreen
  <2>3. BlocksAreHit
    BY <1>1, <2>2 DEF BlocksAreHit, Inside
  <2> QED
    BY <2>1, <2>2, <2>3, BallInitInv DEF FieldInv, Flight, Parked
<1>3. BallBegin => FieldInv'
  <2>1. SUFFICES ASSUME BallBegin PROVE FieldInv'
    OBVIOUS
  <2>2. BallX' = 320 /\ BallY' = 452 /\ Ball_Reset' = TRUE /\ Blocks' = Block
    BY <2>1 DEF BallBegin, RealScreen
  <2>3. BlocksAreHit'
    BY <1>1, <2>2 DEF BlocksAreHit, Inside, RowY
  <2> QED
    BY <2>1, <2>2, <2>3, BallBeginInv DEF FieldInv, Flight, Parked
<1> QED
  BY <1>2, <1>3

\* The invariant is about the ball's own registers only.
LEMMA FieldFrame == FieldInv /\ UNCHANGED ballVars => FieldInv'
<1> SUFFICES ASSUME FieldInv, UNCHANGED ballVars PROVE FieldInv'
  OBVIOUS
<1>1. BallInv'
  BY DEF FieldInv, ballVars, BallInv, BallTypeOK, ParkedAtRest, BounceNeverOverwritten,
         ScoreTracksFallen, AtBottom, AtLeft, AtTop, AtRight, Hits, XHits, YHits, HitX, HitY,
         BottomStrip, TopStrip, LeftStrip, RightStrip, WithinX, WithinY
<1> QED
  BY <1>1 DEF FieldInv, ballVars, Flight, Parked, OnScreen, LeftTurn, TopCorner, RightTurn,
              BlocksAreHit, Inside, ColX, RowY, Left, Up

\* What the invariant says of the field and of the loss of a life.
LEMMA FieldSays ==
  ASSUME RealScreen, FieldInv
  PROVE  BallInField /\ NoPhantomLoss
<1>1. BallTypeOK /\ (Ball_Reset => BallX \in 30 .. 609 /\ BallY = 452)
  BY DEF FieldInv, Parked, BallInv, ParkedAtRest, RealScreen
<1>2. CASE Ball_Reset
  BY <1>1, <1>2 DEF BallInField, NoPhantomLoss, RealScreen, W
<1>3. CASE ~Ball_Reset
  <2>1. OnScreen
    BY <1>3 DEF FieldInv, Flight
  <2>2. BallInField
    BY <1>1, <2>1 DEF OnScreen, BallInField, RealScreen, W, BallTypeOK, Word
  <2>3. AtBottom <=> BallY = 473
    BY <1>1, <2>1, Conditions
  <2> QED
    BY <2>2, <2>3 DEF NoPhantomLoss, RealScreen
<1> QED
  BY <1>2, <1>3

\* The ball alone, with the bar at any of the places of its track at every tick:
\* it stays on the field, and no life is lost above the bar (ball.sv 65-236).
THEOREM BallStaysInField ==
  ASSUME NEW CONSTANT places, places \subseteq 30 .. 609, RealScreen
  PROVE  BallInit /\ [][BallNext(places)]_ballVars => [](BallInField /\ NoPhantomLoss)
<1>1. BallInit => FieldInv
  BY FieldBegin
<1>2. FieldInv /\ [BallNext(places)]_ballVars => FieldInv'
  <2>1. ASSUME FieldInv, NEW barX \in places, NEW keycode \in {"none", "space"},
               ~LastLife, BallTick(barX, keycode, FALSE)
        PROVE  FieldInv'
    <3>1. barX \in Word /\ barX \in 30 .. 609
      BY DEF Word, W
    <3>2. keycode \in Keycode /\ FALSE \in BOOLEAN
      BY DEF Keycode
    <3> QED
      BY <2>1, <3>1, <3>2, FieldTick
  <2> QED
    BY <2>1, FieldBegin, FieldFrame DEF BallNext
<1>3. FieldInv => BallInField /\ NoPhantomLoss
  BY FieldSays
<1> QED
  BY <1>1, <1>2, <1>3, PTL
------------------------------------------------------------------------------
(* The bar that stays where it is, at StillX; of one that roams nothing is said. *)

\* Past the bar, by more than the step that a ball still falls.
Lost(r) == r > 28 \/ r < -28

\* A ball that is below the bar's edge and falls is past the bar, except where the
\* right wall turned it first: there it is not yet lower than the turn cost it.
Covered ==
  Ball_Y_Motion = 3 /\ BallY \in 458 .. 473 =>
    /\ BallX <= 628 \/ Ball_X_Motion = 2 => Lost(BallX - StillX)
    /\ BallX \in 629 .. 630 /\ Ball_X_Motion = Left => BallX - StillX > 30 \/ BallY <= 464
    /\ BallX \in 631 .. 632 => BallX - StillX > 32 \/ (Ball_X_Motion = Left /\ BallY <= 461)
    /\ BallX >= 633 => BallX - StillX > 34 \/ BallY <= 458
------------------------------------------------------------------------------
\* Where the bar is felt.
LEMMA OnStillBar ==
  ASSUME RealScreen, BallTypeOK, OnScreen, Bar_Sizex = 30, StillX \in 40 .. 608
  PROVE  OnBar(StillX) <=> BallX - StillX \in -30 .. 30 /\ BallY \in 453 .. 473
<1>1. BallX \in Int /\ BallY \in Int /\ StillX \in Int
  BY DEF BallTypeOK, Word
<1>2. Add(StillX, 30) = StillX + 30 /\ Sub(StillX, 30) = StillX - 30 /\ Sub(460, 3) = 457
  BY DEF Add, Sub, W
<1>3. OnBar(StillX) <=> BallX <= StillX + 30 /\ BallX >= StillX - 30 /\ Add(BallY, 4) >= 457
  BY <1>2 DEF OnBar, RealScreen
<1>4. Add(BallY, 4) >= 457 <=> BallY \in 453 .. 473
  BY <1>1 DEF Add, W, OnScreen
<1> QED
  BY <1>1, <1>3, <1>4

\* What a tick makes of a ball at or below the height where the bar is felt.
LowTurn ==
  /\ BallX \in 9 .. 630 /\ OnBar(StillX) => Ball_Y_Motion' = Up
  /\ BallX \in 9 .. 630 /\ ~OnBar(StillX) =>
       Ball_X_Motion' = Ball_X_Motion /\ Ball_Y_Motion' = Ball_Y_Motion
  /\ BallX >= 631 => Ball_X_Motion' = Left /\ Ball_Y_Motion' = Ball_Y_Motion
  /\ BallX <= 8 => Ball_Y_Motion' = Ball_Y_Motion

\* Down there nothing but walls and bar can turn the ball.
LEMMA LowTick ==
  ASSUME RealScreen, BallInv, OnScreen, NEW keycode, NEW start_menu,
         ~Ball_Reset, ~AtBottom, BallTick(StillX, keycode, start_menu),
         ~moved => ~OnBar(StillX), BallY \in 453 .. 472
  PROVE  LowTurn
<1>1. BallTypeOK /\ Hits = {} /\ XHits = {} /\ YHits = {}
  BY HitsAre DEF BallInv
<1>2. /\ AtLeft <=> BallX <= 8
      /\ AtRight <=> BallX >= 631
      /\ ~AtTop /\ BallX \in Int
  BY <1>1, Conditions DEF OnScreen
<1>3. Neg(Ball_X_Step) = Left /\ Neg(Ball_Y_Step) = Up
  BY RealWords
<1>4. ASSUME NEW xm, NEW ym, Steer(xm, ym)
      PROVE  Ball_X_Motion' = xm /\ Ball_Y_Motion' = IF moved THEN ym ELSE Ball_Y_Motion
  BY <1>1, <1>4 DEF Steer
<1>5. CASE BounceLeft
  <2>1. BallX <= 8 /\ Ball_Y_Motion' = Ball_Y_Motion
    BY <1>2, <1>4, <1>5 DEF BounceLeft, Bounce
  <2> QED
    BY <1>2, <2>1 DEF LowTurn
<1>6. CASE BounceTop
  BY <1>2, <1>6 DEF BounceTop
<1>7. CASE BounceRight
  <2>1. BallX >= 631 /\ Ball_X_Motion' = Left /\ Ball_Y_Motion' = Ball_Y_Motion
    BY <1>2, <1>3, <1>4, <1>7 DEF BounceRight, Bounce
  <2> QED
    BY <1>2, <2>1 DEF LowTurn
<1>8. CASE BounceBar(StillX)
  <2>1. BallX \in 9 .. 630 /\ OnBar(StillX) /\ moved
    BY <1>2, <1>8 DEF BounceBar, OnScreen
  <2>2. PICK xm : Steer(xm, Neg(Ball_Y_Step))
    BY <1>8 DEF BounceBar, Bounce
  <2>3. Ball_Y_Motion' = Up
    BY <1>3, <1>4, <2>1, <2>2
  <2> QED
    BY <1>2, <2>1, <2>3 DEF LowTurn
<1>9. CASE Fly(StillX)
  <2>1. ~OnBar(StillX) /\ ~AtLeft /\ ~AtRight
    BY <1>9 DEF Fly
  <2>2. Ball_X_Motion' = Ball_X_Motion /\ Ball_Y_Motion' = Ball_Y_Motion
    BY <1>4, <1>9 DEF Fly
  <2> QED
    BY <1>2, <2>1, <2>2 DEF LowTurn
<1> QED
  BY <1>5, <1>6, <1>7, <1>8, <1>9 DEF BallTick, LoseLife, Launch, Park, BallInv, BallTypeOK

\* A tick in flight leaves moved clear only where it found nothing to do.
LEMMA RestOffBar ==
  ASSUME ~Ball_Reset, ~AtBottom, NEW keycode, NEW start_menu,
         BallTick(StillX, keycode, start_menu), ~moved', StillX' = StillX
  PROVE  ~OnBar(StillX)'
<1>1. Fly(StillX) /\ ~Carried
  BY DEF BallTick, LoseLife, Launch, Park, BounceLeft, BounceTop, BounceRight, BounceBar,
         Bounce, Fly
<1>2. BallX' = BallX /\ BallY' = BallY /\ ~OnBar(StillX)
  BY <1>1 DEF Fly, Place
<1> QED
  BY <1>2 DEF OnBar

\* The fall beside the bar, step by step.
LEMMA GlideCovered ==
  ASSUME RealScreen, BallTypeOK, OnScreen, RightTurn, Bar_Sizex = 30, StillX \in 40 .. 608,
         Covered, ~AtBottom, Glide, BallY \in 453 .. 472 => LowTurn, StillX' = StillX
  PROVE  Covered'
<1> SUFFICES ASSUME Ball_Y_Motion' = 3, BallY' \in 458 .. 473
             PROVE  /\ BallX' <= 628 \/ Ball_X_Motion' = 2 => Lost(BallX' - StillX)
                    /\ BallX' \in 629 .. 630 /\ Ball_X_Motion' = 1022 =>
                         BallX' - StillX > 30 \/ BallY' <= 464
                    /\ BallX' \in 631 .. 632 =>
                         BallX' - StillX > 32 \/ (Ball_X_Motion' = 1022 /\ BallY' <= 461)
                    /\ BallX' >= 633 => BallX' - StillX > 34 \/ BallY' <= 458
  BY RealWords DEF Covered, Lost, Left
<1>1. /\ BallX \in 5 .. 640 /\ BallX \in Int /\ BallY \in Int /\ StillX \in Int
      /\ BallY \in {1020, 1023} \/ (BallY \in 2 .. 473 /\ BallY % 3 = 2)
      /\ Ball_X_Motion \in {2, 1022} /\ Ball_Y_Motion \in {0, 3, 1021}
      /\ Ball_X_Motion' \in {2, 1022}
      /\ Ball_X_Motion = 2 => BallX' = BallX + 2
      /\ Ball_X_Motion = 1022 => BallX' = BallX - 2
      /\ Ball_Y_Motion = 0 => BallY' = BallY
      /\ Ball_Y_Motion = 3 => BallY' = IF BallY = 1023 THEN 2 ELSE BallY + 3
      /\ Ball_Y_Motion = 1021 => BallY' = IF BallY = 2 THEN 1023 ELSE BallY - 3
  BY GlideMoves
<1>2. Left = 1022 /\ Up = 1021
  BY RealWords
<1>3. BallY \in 453 .. 472 /\ BallY # 473
  <2>1. BallY # 473 /\ (Ball_Y_Motion = 0 => BallY = 452)
    BY Conditions DEF OnScreen
  <2> QED
    BY <1>1, <2>1
<1>4. /\ BallX \in 9 .. 630 => BallX - StillX \notin -30 .. 30
      /\ BallX \in 9 .. 630 => Ball_X_Motion' = Ball_X_Motion
      /\ BallX >= 631 => Ball_X_Motion' = 1022
      /\ Ball_Y_Motion = 3 /\ BallY' = BallY + 3
  <2>1. LowTurn
    BY <1>3
  <2>2. OnBar(StillX) <=> BallX - StillX \in -30 .. 30
    BY <1>3, OnStillBar
  <2>3. Ball_Y_Motion' = Ball_Y_Motion
    BY <1>1, <1>2, <2>1 DEF LowTurn
  <2> QED
    BY <1>1, <1>2, <1>3, <2>1, <2>2, <2>3 DEF LowTurn
<1>5. BallX <= 634 /\ (BallX >= 633 => Ball_X_Motion = 1022)
  BY <1>1, <1>2, <1>3 DEF RightTurn
<1>6. BallY \in 458 .. 473 =>
        /\ BallX \in 631 .. 632 =>
             BallX - StillX > 32 \/ (Ball_X_Motion = 1022 /\ BallY <= 461)
        /\ BallX >= 633 => BallX - StillX > 34 \/ BallY <= 458
  BY <1>2, <1>4 DEF Covered
<1>7. BallY \in 458 .. 472 \/ BallY = 455
  BY <1>1, <1>3
<1>8. CASE BallX <= 8
  BY <1>1, <1>8 DEF Lost
<1>9. CASE BallX \in 9 .. 630
  <2>1. BallX' = BallX + 2 \/ BallX' = BallX - 2
    BY <1>1
  <2>2. Lost(BallX' - StillX)
    <3>1. PICK x \in Int, b \in Int :
            x = BallX /\ b = StillX /\ (BallX' = x + 2 \/ BallX' = x - 2)
      BY <1>1, <2>1
    <3>2. x - b > 30 \/ x - b < -30
      BY <1>4, <1>9, <3>1
    <3>3. Lost(x + 2 - b) /\ Lost(x - 2 - b)
      BY <3>2 DEF Lost
    <3> QED
      BY <3>1, <3>3
  <2>3. BallX' \in 7 .. 632 /\ (Ball_X_Motion' = 1022 => BallX' <= 628)
    <3>1. BallX' \in 7 .. 632
      BY <1>9, <2>1
    <3>2. Ball_X_Motion' = 1022 => BallX' = BallX - 2
      BY <1>1, <1>4, <1>9
    <3> QED
      BY <1>9, <3>1, <3>2
  <2>4. BallX' \in 631 .. 632 => BallX' - StillX > 32
    <3> SUFFICES ASSUME BallX' \in 631 .. 632 PROVE BallX' - StillX > 32
      OBVIOUS
    <3>1. BallX \in 629 .. 630 /\ BallX' = BallX + 2
      BY <1>1, <1>9, <2>1
    <3>2. BallX - StillX \in 21 .. 590
      BY <1>1, <3>1
    <3>3. BallX - StillX \in 31 .. 590
      BY <1>4, <1>9, <3>2
    <3>4. PICK x \in Int, b \in Int : x = BallX /\ b = StillX /\ BallX' = x + 2
      BY <1>1, <3>1
    <3>5. x - b > 30
      BY <3>3, <3>4
    <3>6. x + 2 - b > 32
      BY <3>5
    <3> QED
      BY <3>4, <3>6
  <2>5. BallX' >= 633 => FALSE
    BY <2>3
  <2>6. BallX' \in 629 .. 630 /\ Ball_X_Motion' = 1022 => FALSE
    BY <2>3
  <2> QED
    BY <2>2, <2>4, <2>5, <2>6
<1>10. CASE BallX \in 631 .. 632
  BY <1>1, <1>4, <1>6, <1>7, <1>10
<1>11. CASE BallX \in 633 .. 634
  BY <1>1, <1>4, <1>5, <1>6, <1>7, <1>11
<1> QED
  BY <1>1, <1>5, <1>8, <1>9, <1>10, <1>11

CoverInv ==
  /\ FieldInv /\ RealScreen /\ Bar_Sizex = 30 /\ StillX \in 40 .. 608
  /\ ~Ball_Reset => Covered /\ (~moved => ~OnBar(StillX))
  /\ ~Ball_Reset /\ BallY = 473 => BallX - StillX \notin -26 .. 26

\* The last step before the bottom.
LEMMA GlideLoses ==
  ASSUME RealScreen, BallTypeOK, OnScreen, RightTurn, Bar_Sizex = 30, StillX \in 40 .. 608,
         Covered, Glide, StillX' = StillX, BallY' = 473
  PROVE  BallX' - StillX' \notin -26 .. 26
<1>1. /\ BallX \in 5 .. 640 /\ BallX \in Int /\ BallY \in Int /\ StillX \in Int
      /\ BallY \in {1020, 1023} \/ (BallY \in 2 .. 473 /\ BallY % 3 = 2)
      /\ Ball_X_Motion \in {2, 1022} /\ Ball_Y_Motion \in {0, 3, 1021}
      /\ Ball_X_Motion = 2 => BallX' = BallX + 2
      /\ Ball_X_Motion = 1022 => BallX' = BallX - 2
      /\ Ball_Y_Motion = 0 => BallY' = BallY
      /\ Ball_Y_Motion = 3 => BallY' = IF BallY = 1023 THEN 2 ELSE BallY + 3
      /\ Ball_Y_Motion = 1021 => BallY' = IF BallY = 2 THEN 1023 ELSE BallY - 3
  BY GlideMoves
<1>2. Left = 1022 /\ (Ball_Y_Motion = 0 => BallY = 452)
  BY RealWords DEF OnScreen
<1>3. BallY = 470 /\ Ball_Y_Motion = 3
  BY <1>1, <1>2
<1>4. BallX - StillX > 28 \/ BallX - StillX < -28
  BY <1>1, <1>2, <1>3 DEF Covered, Lost
<1>5. PICK x \in Int, b \in Int : x = BallX /\ b = StillX /\ (BallX' = x + 2 \/ BallX' = x - 2)
  BY <1>1
<1>6. x + 2 - b \notin -26 .. 26 /\ x - 2 - b \notin -26 .. 26
  BY <1>4, <1>5
<1> QED
  BY <1>5, <1>6

\* Every tick over a still bar that does not take the last life.
LEMMA StillTick ==
  ASSUME CoverInv, NEW keycode \in {"none", "space"}, ~LastLife,
         BallTick(StillX, keycode, FALSE), StillX' = StillX
  PROVE  CoverInv'
<1>1. /\ StillX \in Word /\ StillX \in 30 .. 609 /\ keycode \in Keycode /\ FALSE \in BOOLEAN
      /\ RealScreen /\ FieldInv /\ BallInv /\ BallTypeOK
  BY DEF CoverInv, FieldInv, BallInv, Word, W, Keycode
<1>2. FieldInv'
  BY <1>1, FieldTick
<1>3. CASE Ball_Reset'
  BY <1>1, <1>2, <1>3 DEF CoverInv, RealScreen
<1>4. CASE Ball_Reset /\ ~Ball_Reset'
  <2>1. Launch(keycode, FALSE) /\ moved'
    BY <1>4 DEF BallTick, LoseLife, Launch, Park, BounceLeft, BounceTop, BounceRight,
                BounceBar, Fly, InFlight
  <2>2. BallY' = 452
    <3>1. BallY = 452 /\ Ball_Y_Motion = 0
      BY <1>1, <1>4 DEF BallInv, ParkedAtRest, RealScreen
    <3>2. Add(452, 0) = 452
      BY DEF Add, W
    <3> QED
      BY <2>1, <3>1, <3>2 DEF Launch, Follow, Place
  <2>3. Covered'
    BY <2>2 DEF Covered
  <2> QED
    BY <1>1, <1>2, <2>1, <2>2, <2>3 DEF CoverInv, RealScreen
<1>5. CASE ~Ball_Reset /\ ~Ball_Reset'
  <2>1. ~AtBottom
    BY <1>5 DEF BallTick, LoseLife, Launch, Park, BounceLeft, BounceTop, BounceRight,
                BounceBar, Fly, InFlight
  <2>2. OnScreen /\ RightTurn /\ Covered /\ (~moved => ~OnBar(StillX))
    BY <1>5 DEF CoverInv, FieldInv, Flight
  <2>3. ~moved' => ~OnBar(StillX)'
    BY <1>5, <2>1, RestOffBar
  <2>4. CASE UNCHANGED <<BallX, BallY, Ball_X_Motion, Ball_Y_Motion, Ball_Reset, Blocks>>
    <3>1. Covered' /\ (BallY' = 473 => BallX' - StillX' \notin -26 .. 26)
      BY <1>5, <2>2, <2>4 DEF CoverInv, Covered, Lost, Left
    <3> QED
      BY <1>1, <1>2, <2>3, <3>1 DEF CoverInv, RealScreen
  <2>5. CASE Glide /\ TurnX /\ TurnY
    <3>1. BallY \in 453 .. 472 => LowTurn
      BY <1>1, <1>5, <2>1, <2>2, LowTick
    <3>2. Covered' /\ (BallY' = 473 => BallX' - StillX' \notin -26 .. 26)
      BY <1>1, <2>1, <2>2, <2>5, <3>1, GlideCovered, GlideLoses DEF CoverInv
    <3> QED
      BY <1>1, <1>2, <2>3, <3>2 DEF CoverInv, RealScreen
  <2> QED
    BY <1>1, <1>5, <2>1, <2>2, <2>4, <2>5, FlightTick
<1> QED
  BY <1>3, <1>4, <1>5

\* Over a bar that stays where it is, a ball that comes down on the bar, but for
\* its last two steps at either end, is never lost (ball.sv 97-129).
THEOREM StillBarHolds == RealScreen /\ Bar_Sizex = 30 /\ AloneSpec => []CoveredNeverLost
<1> DEFINE Stays == StillX # Roams => CoverInv
<1>1. RealScreen /\ Bar_Sizex = 30 /\ AloneInit => Stays
  <2> SUFFICES ASSUME RealScreen, Bar_Sizex = 30, AloneInit, StillX # Roams PROVE CoverInv
    OBVIOUS
  <2>1. StillX \in 40 .. 608 /\ Ball_Reset
    BY DEF AloneInit, StillPlaces, BallInit
  <2> QED
    BY <2>1, FieldBegin DEF AloneInit, CoverInv
<1>2. Stays /\ [AloneNext]_<<ballVars, StillX>> => Stays'
  <2> SUFFICES ASSUME Stays, [AloneNext]_<<ballVars, StillX>>, StillX' # Roams PROVE CoverInv'
    BY DEF Roams
  <2>1. StillX' = StillX /\ CoverInv
    BY DEF AloneNext, Roams
  <2>2. ASSUME NEW keycode \in {"none", "space"}, ~LastLife, BallTick(StillX, keycode, FALSE)
        PROVE  CoverInv'
    BY <2>1, <2>2, StillTick
  <2>3. ASSUME BallBegin
        PROVE  CoverInv'
    <3>1. FieldInv' /\ Ball_Reset'
      BY <2>1, <2>3, FieldBegin DEF CoverInv, BallBegin
    <3> QED
      BY <2>1, <3>1 DEF CoverInv, RealScreen
  <2>4. ASSUME UNCHANGED ballVars
        PROVE  CoverInv'
    <3>1. FieldInv'
      BY <2>1, <2>4, FieldFrame DEF CoverInv
    <3> QED
      BY <2>1, <2>4, <3>1
         DEF CoverInv, RealScreen, ballVars, Covered, Lost, Left, OnBar
  <2>5. AloneNext => BallNext({StillX})
    BY <2>1 DEF AloneNext, Places
  <2> QED
    BY <2>2, <2>3, <2>4, <2>5 DEF BallNext
<1>3. Stays => CoveredNeverLost
  <2> SUFFICES ASSUME CoverInv PROVE CoveredNeverLost
    BY DEF CoveredNeverLost
  <2>1. BallTypeOK /\ (~Ball_Reset => OnScreen)
    BY DEF CoverInv, FieldInv, BallInv, Flight
  <2>2. BallX \in Int /\ StillX \in Int
    BY <2>1 DEF CoverInv, BallTypeOK, Word
  <2>3. CASE ~Ball_Reset /\ AtBottom
    <3>1. BallX - StillX \notin -26 .. 26
      BY <2>1, <2>3, Conditions DEF CoverInv
    <3>2. BallX > StillX + 30 - 2 * 2 \/ BallX < StillX - 30 + 2 * 2
      BY <2>2, <3>1
    <3> QED
      BY <3>2 DEF CoveredNeverLost, CoverInv, RealScreen
  <2> QED
    BY <2>3 DEF CoveredNeverLost
<1> QED
  BY <1>1, <1>2, <1>3, PTL DEF AloneSpec
==============================================================================
