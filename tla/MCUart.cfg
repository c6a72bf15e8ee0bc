SPECIFICATION FairSpec
CONSTANTS
  BufLen = 4
  Depth = 2
  Threshold = 0
  Chars = 4
  MaxCount = 3
  IntMax = 4
  Default = 2
  Timeouts = {0}
  Programs = {{"write", "close", "ioctl"}, {"read"}}
INVARIANTS PendingMeansEnabled ReceiveOffMeansFull
PROPERTIES OutputKept InputKept WritesReturn ReadsReturn
