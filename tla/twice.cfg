\* A resent command is executed again.
SPECIFICATION Spec
CONSTANTS
  Client = {c1}
  Near = {}
  Server = server
  Dev = dev
  Zero = zero
  NoAddr = noaddr
  WildAddr = wildaddr
  Key = {k1}
  BootKey = k1
  Plain = plain
  NoArg = noarg
  Byte = 4
  MaxObs = 1
  MaxRetx = 1
  OldFile <- MCOldFile
  Cmd = {"SendSerial"}
  FileArg <- MCFileArg
  ScanIdx = {}
  MaxRand = 2
  MaxPush = 0
  MaxBoot = 0
  MaxSend = 2
  MaxOpen = 1
  MaxRestart = 0
INVARIANTS NeverExecutedTwice
CHECK_DEADLOCK FALSE
