\* A session alone, by LAN and by relay, with scans, under fairness.
SPECIFICATION FairSpec
CONSTANTS
  Client = {c1}
  Near = {c1}
  Server = server
  Dev = dev
  Zero = zero
  NoAddr = noaddr
  WildAddr = wildaddr
  Key = {k1}
  BootKey = k1
  Plain = plain
  NoArg = noarg
  Byte = 4
  MaxObs = 1
  MaxRetx = 1
  OldFile <- MCOldFile
  Cmd = {"SendSerial"}
  FileArg <- MCFileArg
  ScanIdx = {9}
  MaxRand = 2
  MaxPush = 0
  MaxBoot = 0
  MaxSend = 2
  MaxOpen = 1
  MaxRestart = 0
INVARIANTS NothingSwallowed
 
CHECK_DEADLOCK FALSE
