CONSTANTS
  Jobs = {1, 2}
  Poison = {1}
  FilterMax = 2
  DetailMax = 2
  MaxRedo = 1
  Faults = {"db_outage", "filter_fails", "lost_result", "wake_fails", "child_fails", "lock_busy", "boot_fails"}
SPECIFICATION FairSpec
INVARIANTS TypeOK NoLostWakeUp
PROPERTIES PendingIsFiltered DetailIsDecided
