CONSTANTS
    Levels <- MCLevels
    Addresses <- MCAddresses
    Regions <- MCRegions
    Modes <- MCModes
SPECIFICATION BypassSpec
INVARIANTS
    TypeOK
    NoDuplicateLines
    L1RefinesSimulation
PROPERTIES
    RetryReturns
