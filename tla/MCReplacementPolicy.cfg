\* Each catalog configuration against the contracts the spec and the code
\* give it: cyclic eviction for FIFO, LRU and PLRU, promotion of the way hit
\* last for LRU, PLRU and the LRU_PLRU hybrid, empty ways filled first by
\* the policies wrapped by the catalog or that walk their ways in order.
SPECIFICATION Spec
CONSTANTS
  Configs <- MCConfigs
  CyclicConfigs <- MCRecencyConfigs
  HitConfigs <- MCHitConfigs
  ColdFillConfigs <- MCColdFillConfigs
INVARIANTS
  TypeOK
  CyclicEviction
PROPERTIES
  MissSparesJustHit
  FillsInvalidWayFirst
