\* Two devices searched for in turn, by sessions and by configurations.
SPECIFICATION SearchSpec
CONSTANTS
  Dev = {d1, d2}
  Zero = zero
  MaxOnline = 2
  OpenTries = 2
  ConfigTries = 3
  ConfigLate = 2
  HostTries = 2
  MaxNow = 2
  MaxSearch = 3
SYMMETRY Symmetry
INVARIANTS SearchTypeOK  FreshIfOnlyDevice 
CHECK_DEADLOCK FALSE
