SPECIFICATION FairSpec
CONSTANTS
  Alarms = {watch}
  Watch = watch
  Head = head
  Null = null
  TickMod = 5
  TicksPerSec = 2
  Milli = 2
  Periods = {}
  USB_XFER_TIMEOUT = 2
  SettleDelay = 1
  StopsFollowing = FALSE
PROPERTY DeadlinesEnd
