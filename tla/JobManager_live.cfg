\* Progress: fair goroutines, a stop at any time, one end of the process, no faults.
\* One worker and three items: when the worker leaves, the dispatcher still has some.
SPECIFICATION FairSpec
CONSTANTS
  Jobs = {j1}
  Items = {1, 2, 3}
  Workers = {w1}
  MaxFaults = 0
  MaxEnds = 1
PROPERTIES
  StartedJobEnds
  CancelledJobReturns
