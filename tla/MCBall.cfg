SPECIFICATION AloneSpec
CONSTANTS
  Stride = 8
  BarPlaces = {100, 320, 500, 600}
  Bar_Sizex = 30
  Ball_X_Start = 320
  Ball_Y_Start = 452
  Ball_X_Min = 4
  Ball_X_Max = 635
  Ball_Y_Min = 4
  Ball_Y_Max = 475
  Ball_X_Step = 2
  Ball_Y_Step = 3
  Ball_Size = 4
  Limit = 700
  BarY = 460
  Bar_Sizey = 3
  NumBlocks = 2
  BlocksPerRow = 8
  PitchX = 80
  PitchY = 20
  Block_SizeX = 39
  Block_SizeY = 10
  MaxLives = 1
INVARIANTS BallInField NoPhantomLoss CoveredNeverLost
