SPECIFICATION Spec
CONSTANTS
  USB_NUMDEVICES = 3
  Keys = {"none", "A"}
  Kinds = {"keyboard", "mouse", "other"}
  MaxEvents = 4
INVARIANTS TypeOK NoNullDeref ReportedDeviceIsPolled ResetIsOver RunningMeansAnswering
PROPERTIES UnplugNoticed AttachEnds
