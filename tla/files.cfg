\* A file of two blocks over one of three, requests lost or late, and a restart of the device.
SPECIFICATION FileTransferSpec
CONSTANTS
  Client = {c1}
  Near = {}
  Server = server
  Dev = dev
  Zero = zero
  NoAddr = noaddr
  WildAddr = wildaddr
  Key = {k1}
  BootKey = k1
  Plain = plain
  NoArg = noarg
  Byte = 4
  MaxObs = 1
  MaxRetx = 1
  OldFile <- MCOldFile
  Cmd = {"FileName", "FileTxt"}
  FileArg <- MCFileArg
  ScanIdx = {}
  MaxRand = 1
  MaxPush = 0
  MaxBoot = 1
  MaxSend = 5
  MaxOpen = 1
  MaxRestart = 0
  Sender = c1
  Source <- MCSource
  MaxOut = 5
INVARIANTS FileTypeOK  
CHECK_DEADLOCK FALSE
