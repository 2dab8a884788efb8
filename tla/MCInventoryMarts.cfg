CONSTANTS
  milk = milk
  bread = bread
  Product = {milk, bread}
  Opening <- MCOpening
  Hour = {1, 4}
  HoursPerDay = 2
  Movement <- MCMovement
  MaxVersion = 2
SPECIFICATION MartsSpec
INVARIANTS
  
  BalancesFollowSource
  OneRowPerHour
  RollupsFollowFact
  CurrentCountsOnce
CHECK_DEADLOCK FALSE
