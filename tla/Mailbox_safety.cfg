SPECIFICATION Spec
CHECK_DEADLOCK FALSE
SYMMETRY Symmetry
CONSTANTS
  Clients = {c1, c2}
  Ids = {1, 2, 3, 4}
  Emails = {1, 2, 3, 4}
  Groups = {work}
  System = default
  Preloaded = 2
  MaxAccounts = 3
  MaxGroups = 2
  BatchSize = 2
  PageSize = 1
  AliasPool = {4}
  Switches = {"disabled"}
  Sorts <- SomeSorts
  Batches <- TwoBatches
  Contents <- SomeContents
  Menu = {"create", "update", "import", "delete", "batch", "move", "invalid", "group", "ungroup", "list"}
  MaxOps = 2
  MaxChecks = 2
INVARIANTS TypeOK ImportAddsUp ListExplained
PROPERTIES StaleChecksExplained
