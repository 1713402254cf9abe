\* reverse_placement draws its targets over the whole memory, so locate_set
\* can be handed a line the catalog itself holds.
SPECIFICATION Spec
CONSTANTS
  Sets = 2
  Ways = 2
  Addresses <- MCAddresses
  Placements <- MCPlacements
  Probes <- MCProbes
CHECK_DEADLOCK FALSE
PROPERTY
  ProbesReturn
