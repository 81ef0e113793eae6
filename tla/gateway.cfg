\* Two HTTP threads, a list that timeouts fill.
SPECIFICATION GatewaySpec
CONSTANTS
  Handler = {h1, h2}
  ElMax = 1
  LastIdx = 3
  MaxControl = 2
  MaxToken = 1
SYMMETRY Symmetry
INVARIANTS GatewayTypeOK  LinksHaveTokenZero WaitersAreListed QueueBounded
CHECK_DEADLOCK FALSE
