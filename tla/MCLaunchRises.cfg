SPECIFICATION Spec
CONSTANTS
  Bar_Sizex = 6
  Bar_X_Begin = 20
  Bar_X_Min = 8
  Bar_X_Max = 39
  Bar_X_Step = 6
  Ball_X_Start = 20
  Ball_Y_Start = 62
  Ball_X_Min = 4
  Ball_X_Max = 35
  Ball_Y_Min = 4
  Ball_Y_Max = 85
  Ball_X_Step = 2
  Ball_Y_Step = 3
  Ball_Size = 4
  Limit = 700
  BarY = 70
  Bar_Sizey = 3
  NumBlocks = 4
  BlocksPerRow = 2
  PitchX = 20
  PitchY = 20
  Block_SizeX = 9
  Block_SizeY = 10
  MaxLives = 3
PROPERTIES LaunchRises
