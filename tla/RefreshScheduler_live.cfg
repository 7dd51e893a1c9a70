\* Three groups of two tenants, one process, one stop or change of a user's, one fault or restart.
SPECIFICATION FairSpec
CONSTANTS
  g1 = g1  g2 = g2  g3 = g3  t1 = t1  t2 = t2
  None = None
  Groups = {g1, g2, g3}
  Tenants = {t1, t2}
  TenantOf <- GroupsOfTwo
  Schedulers = {s1}
  Clients = {}
  Intervals = {2}
  Limit = 2
  Slack = 1
  MaxLate = 1
  MaxQuiet = 0
  MaxAsks = 1
  MaxFaults = 1
PROPERTIES DueIsServed
