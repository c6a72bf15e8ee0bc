SPECIFICATION FairSpec
CONSTANTS
  Regs = {8, 200, 248}
  MaxBytes = 8
  Circle = 9
INVARIANTS TypeOK NothingLost AccessIsExact
PROPERTY AccessEnds
