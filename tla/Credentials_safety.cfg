SPECIFICATION Spec
CHECK_DEADLOCK FALSE
SYMMETRY Symmetry
CONSTANTS
  Workers = {w1, w2}
  Flows = {f1}
  Own = own
  Typed = typed
  App = app
  NoToken = none
  Graph = graph
  Channels = {graph, imap}
  Menu = {"check", "refresh", "edit", "status", "delete", "oauth", "callback", "complete"}
  MaxOps = 3
  MaxIssued = 2
  MaxCrashes = 1
INVARIANTS TypeOK SecretsGone CredentialsExplained
PROPERTIES FlowSpec
