\* The driver builds the catalog on a two-set cache, modular or hashed; reverse_placement
\* then probes lines, some of which the catalog holds.  The program stops
\* once the probes are done, so deadlock is not an error.
SPECIFICATION Spec
CONSTANTS
  Sets = 2
  Ways = 2
  Addresses <- MCAddresses
  Placements <- MCPlacements
  Probes <- MCProbes
CHECK_DEADLOCK FALSE
INVARIANTS
  TypeOK
  CatalogSound
  CatalogIndexed
  LocateSetCorrect
PROPERTIES
  CatalogCompletes
  ProbeLocatesSet
