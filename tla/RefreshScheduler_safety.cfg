\* Two groups of one tenant, two processes, two requests, two faults or restarts.
SPECIFICATION Spec
CONSTANTS
  g1 = g1  g2 = g2  g3 = g3  t1 = t1  t2 = t2
  None = None
  Groups = {g1, g2}
  Tenants = {t1}
  TenantOf <- GroupsOfOne
  Schedulers = {s1, s2}
  Clients = {c1}
  Intervals = {2}
  Limit = 2
  Slack = 1
  MaxLate = 1
  MaxQuiet = 2
  MaxAsks = 2
  MaxFaults = 2
SYMMETRY ScheduleSymmetry
INVARIANTS NoStacking
PROPERTIES Spaced
