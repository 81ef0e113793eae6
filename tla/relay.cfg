\* The table of users under keepalives, with one HTTP thread at work.
SPECIFICATION RelaySpec
CONSTANTS
  Client = {c1}
  Server = server
  Dev = dev
  Zero = zero
  NoAddr = noaddr
  WildAddr = wildaddr
  Key = {k1}
  Plain = plain
  NoArg = noarg
  Byte = 4
  Addr = {a1, a2}
  MaxUser = 2
  OnlineTime = 1
  Handler = {h1}
  ControlCmd = {"SendSerial"}
  MaxTime = 2
  MaxIdx = 4
  MaxToken = 1
SYMMETRY Symmetry
INVARIANTS RelayTypeOK FoundIsLatest OnlineIsTrue AnsweredKindRan
CHECK_DEADLOCK FALSE
