SPECIFICATION FairSpec
CONSTANTS
  Alarms = {watch, a1, a2}
  Watch = watch
  Head = head
  Null = null
  TickMod = 5
  TicksPerSec = 2
  Milli = 2
  Periods = {1, 3}
  USB_XFER_TIMEOUT = 2
  SettleDelay = 1
  StopsFollowing = FALSE
INVARIANTS ListHoldsRunning FiresWhenDue InterruptsAreSafe WatchRuns
PROPERTIES AlarmsFire ReachableDeadlinesEnd
