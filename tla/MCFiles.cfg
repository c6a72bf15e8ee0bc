SPECIFICATION Spec
CONSTANTS
  MaxFd = 6
  Null = null
  Uart = uart
  FileSystems = {fs}
  NoDev = nodev
  Unknown = unknown
  Modes = {"RDWR"}
INVARIANTS NoNullDevice NoneLeaks StreamsWork
PROPERTY KeepsOpenFiles
