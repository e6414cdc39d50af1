SPECIFICATION FairSpec
CONSTANTS
  Machines <- SmallMachines
  Assoc = 2
  Slack = 1
  NoLine = NoLine
PROPERTIES ImplementsCacheMap
CHECK_DEADLOCK FALSE
