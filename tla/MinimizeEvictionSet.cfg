\* Vectors of 5 to 10 addresses, a 2-way target set, max_size 5: the first
\* call reduces through several rounds, the search probes m = 3 and m = 2
\* (successes) and m = 1 (a failure after successful rounds that permute
\* the vector).
SPECIFICATION Spec
CONSTANTS
  N = 10
  MinN = 5
  Ways = 2
  MaxSize = 5
CHECK_DEADLOCK FALSE
INVARIANTS
  TypeOK
  SizeTracksRange
  FindsMinimalSize
PROPERTIES
  MinimizeRefinesReduction
  Terminates
