\* Subscriptions, their cancellation and the pushes.
SPECIFICATION Spec
CONSTANTS
  Client = {c1}
  Near = {}
  Server = server
  Dev = dev
  Zero = zero
  NoAddr = noaddr
  WildAddr = wildaddr
  Key = {k1}
  BootKey = k1
  Plain = plain
  NoArg = noarg
  Byte = 2
  MaxObs = 2
  MaxRetx = 1
  OldFile <- MCOldFile
  Cmd = {"Observer", "Unobserver"}
  FileArg <- MCFileArg
  ScanIdx = {}
  MaxRand = 2
  MaxPush = 1
  MaxBoot = 0
  MaxSend = 3
  MaxOpen = 1
  MaxRestart = 0
INVARIANTS TypeOK ObserverTableOK SubscribersAsked
CHECK_DEADLOCK FALSE
