SPECIFICATION Spec
CHECK_DEADLOCK FALSE
CONSTANTS
  o1 = o1
  o2 = o2
  p1 = p1
  p2 = p2
  Keys = {o1}
  Elsewhere = {o2}
  Plans <- TwoPlans
  PlanOf <- PlanOfTwo
  Default = default
  NoOrder = none
  Page = page
  Webhook = webhook
  Serial = TRUE
  Orderings <- Both
  MaxTime <- Time
  MaxClicks <- Clicks
  MaxFaults = 1
INVARIANTS TypeOK GrantBacked PlanConverges
PROPERTIES OldCancelHarmless CanceledIsFinal
