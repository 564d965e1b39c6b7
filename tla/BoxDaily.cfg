SPECIFICATION ServiceSpec
CONSTANTS
  b1 = b1
  b2 = b2
  Box = {b1}
  Rank <- OneBox
  Group <- TwoClusters
  Request = {r1}
  None = None
  Limit <- Daily
  Free = {"elapse", "missed", "regroup", "boot", "jobfail", "reqfail", "retry"}
  Prompt = TRUE
INVARIANTS
  TypeOK
  AtMostOneJob
  JoiningIsBound
PROPERTIES
  NeverWiped
  NoTrap
