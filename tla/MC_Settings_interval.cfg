CONSTANTS
  Providers = {p1}
  Requests = {r1}
  Schedules <- MCSchedules
  EnvSchedule <- MCEnvSchedule
  NoSchedule = NoSchedule
  MinutesPerHour = 3
  HoursPerDay = 3
  DaysPerWeek = 3
  MaxInterval = 2
  DefaultInterval = 2
  MaxSilentPeriods = 4
  Faults = {}
SPECIFICATION Spec
INVARIANT StoredIsInstalled
