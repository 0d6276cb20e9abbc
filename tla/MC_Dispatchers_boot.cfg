CONSTANTS
  Jobs = {1, 2}
  Poison = {}
  FilterMax = 2
  DetailMax = 2
  MaxRedo = 0
  Faults = {"boot_fails"}
SPECIFICATION FairSpec
PROPERTY DispatchersStartAgain
