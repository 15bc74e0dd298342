SPECIFICATION FairSpec
CONSTANTS
  MAX_ITEM = 1
  MaxCrash = 1
  NoFood = NoFood
  Chef <- MCChef
  Customer <- MCCustomer
  Hybrid <- MCHybrid
  Serves <- MCServes
  Menu <- OneDishMenu
PROPERTIES TraysFreedAgain KitchenGoesOn
CHECK_DEADLOCK FALSE
