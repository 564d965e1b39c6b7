SPECIFICATION Spec
CONSTANTS
  b1 = b1
  b2 = b2
  Box = {b1, b2}
  Rank <- Created
  Uuid <- Reversed
  EtcdMax = 5
  Group <- OneCluster
  Request = {r1, r2}
  None = None
  Limit <- Never
  Free = {"regroup", "boot"}
  Prompt = TRUE
INVARIANT OneJoinsAtATime
PROPERTIES
  JoinsItsCluster
SYMMETRY Symmetry
