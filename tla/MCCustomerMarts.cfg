CONSTANTS
  NClient = 1
  NId = 3
  Threshold = 3
  MaxEvents = 3
SPECIFICATION Spec
INVARIANTS
  TypeOK
  GraphKeysResolve
  OptOutHeld
 
