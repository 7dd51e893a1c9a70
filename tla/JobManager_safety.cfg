\* One job of up to three items, two workers, one crash or shutdown, one fault.
SPECIFICATION Spec
CONSTANTS
  Jobs = {j1}
  Items = {1, 2, 3}
  Workers = {w1, w2}
  MaxFaults = 1
  MaxEnds = 1
SYMMETRY WorkerSymmetry
INVARIANTS
  TypeOK
  RunnerOnce
  CountsLag
  VerdictIsTrue
  StopIsPrompt
  OrphansExplained
  Ownership
PROPERTIES
  TerminalIsFinal
  LifecycleSpec
