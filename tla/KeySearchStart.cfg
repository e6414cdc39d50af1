SPECIFICATION KeySpec
CONSTANTS
  Targets = 2
  RECORDLEN = 9
  SEARCHLEN = 5
  ALLOWEDMISSES = 1
  GAPLEN = 3
  SPLIT = 2
  mask <- MCMask
  MinBits = 1
  KeyBits <- MCKeyBits
INVARIANTS StartFound
CHECK_DEADLOCK FALSE
