SPECIFICATION Instance
CHECK_DEADLOCK FALSE
SYMMETRY Symmetry
CONSTANTS
  u1 = u1
  u2 = u2
  u3 = u3
  basic = basic
  pro = pro
  spare = spare
  low = low
  high = high
  euro = euro
  Requests = {r1, r2}
  Users = {u1, u2, u3}
  Teams = {team, team2}
  Registered <- TwoUsers
  Team = team
  Plans = {basic, pro, spare}
  Limits <- DailyLimits
  Initial <- Migrated
  BootstrapAdmin = u3
  DefaultPlanCode = none
  None = none
  Serial = FALSE
  Menus <- SevenMenus
  MaxRequests <- FewRequests
  Billed <- OneBilled
  MaxDays = 2
  MaxRestarts <- Restarts
  Tags = {low, high, euro}
  CurrencyOf <- Currencies
  MaxPriceRequests <- PriceRequests
INVARIANTS TypeOK SessionsExplained SomeoneInCharge UsageBounded PricesExplained
