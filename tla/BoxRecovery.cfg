SPECIFICATION RecoverySpec
CONSTANTS
  b1 = b1
  b2 = b2
  Box = {b1, b2}
  Rank <- TwoBoxes
  Group <- TwoRoles
  Request = {r1}
  None = None
  Limit <- Each
  Free = {}
  Prompt = TRUE
INVARIANT OneFounder
PROPERTY Settles
CHECK_DEADLOCK FALSE
