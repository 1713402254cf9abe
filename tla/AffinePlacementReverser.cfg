\* reverse_placement on eight lines and four sets, under three labellings
\* of the sets.  The command returns once the policy is verified, so the
\* final state has no successor.
SPECIFICATION Spec
CONSTANTS
  OffsetBits = 1
  IndexBits = 2
  Memory <- MCMemory
  Placements <- MCPlacements
  Unlocated <- MCUnlocated
  Mappings = 6
  FailLimit = 100000
CHECK_DEADLOCK FALSE
INVARIANTS
  TypeOK
  ReverseFitsFedMappings
  RoundTrip
PROPERTIES
  Terminates
