SPECIFICATION Spec
CONSTANTS
  MAX_ITEM = 2
  MaxCrash = 1
  NoFood = NoFood
  Chef <- MCChef
  Customer <- MCCustomer
  Hybrid <- MCHybrid
  Serves <- MCServes
  Menu <- MCMenu
INVARIANTS TypeOK Mutex FreeTrayWellFormed CountNotStale
PROPERTIES ImplementsTrays TornTrayUntouched
CHECK_DEADLOCK FALSE
