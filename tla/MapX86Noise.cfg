SPECIFICATION FairSpec
CONSTANTS
  Machines <- NoisyX86
  Assoc = 2
  Slack = 1
  NoLine = NoLine
INVARIANTS NoLineLost
CHECK_DEADLOCK FALSE
