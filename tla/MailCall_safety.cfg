SPECIFICATION Instance
CONSTANTS
  p1 = p1
  p2 = p2
  p3 = p3
  m1 = m1
  m2 = m2
  m3 = m3
  other = other
  Direct = direct
  Operations <- AllOperations
  Accounts <- AllAccounts
  Callers <- SomeCallers
  Configs <- SomeConfigs
  Natures <- FourNatures
  Asked <- ThreeMessages
  Foreign = {other}
  Nobody = nobody
  FolderOf <- TwoFolders
  Chunk = 2
  MaxRetries = 1
INVARIANTS TypeOK ProxyHonoured ReportsExplained RoundTrip
