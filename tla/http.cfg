\* Every kind of request to the two front ends, with every malloc failing or not.
SPECIFICATION FrontEndsSpec
CONSTANTS
  N = 4
  Value <- Values
  Hue <- Hues
  CmdIndex <- Indices
INVARIANTS FrontEndsTypeOK OnlyDiscoveryLeaks RepliesTruly FrontEndsAgree ColourAsAsked
