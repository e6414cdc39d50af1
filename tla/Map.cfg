SPECIFICATION FairSpec
CONSTANTS
  Machines <- AllMachines
  Assoc = 2
  Slack = 1
  NoLine = NoLine
INVARIANTS KeepsLines MapIsExact Minimal
PROPERTIES Terminates
CHECK_DEADLOCK FALSE
