\* Two workers, the run goroutine and a client (clients share nothing but the log).
\* The ticker is not fair: notifications alone must carry the finished event.
SPECIFICATION FairSpec
CONSTANTS
  Workers = {w1, w2}
  Main = main
  Clients = {c1}
  Emissions = 3
  Batch = 2
  MaxFaults = 1
  MaxDrops = 1
INVARIANTS NumbersAreFresh InOrder FinishedIsLast
PROPERTIES FinishReaches
