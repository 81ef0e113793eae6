\* Two threads of an application, two devices that answer late and push.
SPECIFICATION TransportSpec
CONSTANTS
  MaxUser = 4
  Thread = {t1, t2}
  Dev = {d1, d2}
  AnswerSpan = 1
  PushSpan = 2
  Push = {2}
  MaxIdx = 2
  MaxSection = 1
SYMMETRY Symmetry
INVARIANTS TransportTypeOK  BreakMeansBegin  
CHECK_DEADLOCK FALSE
