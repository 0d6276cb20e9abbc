CONSTANTS
  Providers = {p1, p2}
  Requests = {r1, r2}
  Schedules <- MCSchedules
  EnvSchedule <- MCEnvSchedule
  NoSchedule = NoSchedule
  MinutesPerHour = 3
  HoursPerDay = 3
  DaysPerWeek = 3
  MaxInterval = 2
  DefaultInterval = 2
  MaxSilentPeriods = 4
  Faults = {"errors", "crash"}
SPECIFICATION Spec
SYMMETRY Symmetry
INVARIANTS TypeOK SilentIsSkipped ScheduleAgrees
PROPERTY OnlyRequestsChange
