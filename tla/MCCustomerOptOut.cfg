CONSTANTS
  NClient = 1
  NId = 2
  Threshold = 3
  MaxEvents = 3
SPECIFICATION Spec
INVARIANT OptOutRevokes
