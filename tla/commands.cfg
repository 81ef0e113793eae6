\* Every kind of command.
SPECIFICATION Spec
CONSTANTS
  Client = {c1}
  Near = {}
  Server = server
  Dev = dev
  Zero = zero
  NoAddr = noaddr
  WildAddr = wildaddr
  Key = {k1, k2}
  BootKey = k1
  Plain = plain
  NoArg = noarg
  Byte = 4
  MaxObs = 1
  MaxRetx = 1
  OldFile <- MCOldFile
  Cmd <- MCEveryKind
  FileArg <- MCFileArg
  ScanIdx = {}
  MaxRand = 2
  MaxPush = 0
  MaxBoot = 0
  MaxSend = 3
  MaxOpen = 1
  MaxRestart = 0
INVARIANTS TypeOK AckMeansExecuted NothingSwallowed
CHECK_DEADLOCK FALSE
