\* Two applications behind the relay, one session each; the device restarts.
SPECIFICATION Spec
CONSTANTS
  Client = {c1, c2}
  Near = {}
  Server = server
  Dev = dev
  Zero = zero
  NoAddr = noaddr
  WildAddr = wildaddr
  Key = {k1}
  BootKey = k1
  Plain = plain
  NoArg = noarg
  Byte = 4
  MaxObs = 1
  MaxRetx = 1
  OldFile <- MCOldFile
  Cmd = {"SendSerial"}
  FileArg <- MCFileArg
  ScanIdx = {}
  MaxRand = 2
  MaxPush = 0
  MaxBoot = 1
  MaxSend = 2
  MaxOpen = 1
  MaxRestart = 0
INVARIANTS AckMeansExecuted NothingSwallowed
PROPERTIES ImplementsRemoteCommand
CHECK_DEADLOCK FALSE
